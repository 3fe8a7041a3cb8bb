----------------------------- MODULE TreesProofs -----------------------------
(***************************************************************************)
(* What the conversation trees keep, for any messages, replies, deliveries  *)
(* and restarts: queues, claims and tasks together, turns one at a time,    *)
(* outcomes as they were told, a store that can be restored and agrees with *)
(* what is published, and stops that nothing queued survives.               *)
(*                                                                          *)
(* One inductive invariant, TreesInv, carries all of it.  It says more than *)
(* the properties do: what the graph, the store and the snapshot of a       *)
(* command at work have in common (every node hangs below its root by what  *)
(* it replies to), who owns a task, and what the store may lack while a     *)
(* command is at work.  One lemma per action shows that the action keeps    *)
(* it; the stops and clears share HaltKeeps.                                *)
(***************************************************************************)
EXTENDS ConversationTrees, QueueProofs, FiniteSetTheorems, TLAPS

-----------------------------------------------------------------------------
(* What the references above a message and the rest of its queue are.       *)

\* Above[m] is the least set that climbs from m.
LEMMA AboveIsLeast ==
  ASSUME NEW m \in Messages
  PROVE  /\ Above[m] \subseteq References
         /\ Climbs(Above[m], m)
         /\ \A T \in SUBSET References : Climbs(T, m) => Above[m] \subseteq T
<1> DEFINE Least == {ref \in References :
                       \A S \in SUBSET References : Climbs(S, m) => ref \in S}
           Is(S) == Climbs(S, m) /\ \A T \in SUBSET References : Climbs(T, m) => S \subseteq T
<1>1. \A n \in Messages : Direct(n) \subseteq References
  BY TreesAssumption DEF TreesAssumption, Direct, References
<1>2. Direct(m) \subseteq Least
  BY <1>1 DEF Climbs
<1>3. ASSUME NEW ref \in Least PROVE Direct(ref.message) \subseteq Least
  <2>1. ref.message \in Messages
    BY <1>3 DEF References
  <2> QED
    BY <1>1, <2>1 DEF Climbs
<1>4. Climbs(Least, m)
  BY <1>2, <1>3 DEF Climbs
<1>5. \E S \in SUBSET References : Is(S)
  <2>1. Least \in SUBSET References
    OBVIOUS
  <2>2. Is(Least)
    BY <1>4
  <2> QED
    BY <2>1, <2>2
<1>6. Above[m] = CHOOSE S \in SUBSET References : Is(S)
  BY DEF Above
<1> HIDE DEF Is
<1>7. Above[m] \in SUBSET References /\ Is(Above[m])
  BY <1>5, <1>6
<1> QED
  BY <1>7 DEF Is

\* The reference to the prompt of a message.
PromptOf(m) == [message |-> m, kind |-> "prompt"]

\* What a message replies to is above it, and so is all that is above that.
LEMMA AboveOfReply ==
  ASSUME NEW m \in Messages, ReplyTo[m] \in References
  PROVE  /\ ReplyTo[m].message \in Messages
         /\ ReplyTo[m] \in Above[m]
         /\ PromptOf(ReplyTo[m].message) \in Above[m]
         /\ Above[ReplyTo[m].message] \subseteq Above[m]
<1>1. ReplyTo[m].message \in Messages /\ ReplyTo[m] # NoReference
  BY TreesAssumption DEF TreesAssumption, References
<1>2. ReplyTo[m] \in Direct(m) /\ PromptOf(ReplyTo[m].message) \in Direct(m)
  BY <1>1 DEF Direct, PromptOf
<1>3. Climbs(Above[m], m) /\ Above[m] \subseteq References
  BY AboveIsLeast
<1>4. ReplyTo[m] \in Above[m] /\ PromptOf(ReplyTo[m].message) \in Above[m]
  BY <1>2, <1>3 DEF Climbs
<1>5. Climbs(Above[m], ReplyTo[m].message)
  BY <1>3, <1>4 DEF Climbs
<1> QED
  BY <1>1, <1>3, <1>4, <1>5, AboveIsLeast

\* Whatever is above a message that is above m is above m.
LEMMA AboveIsTransitive ==
  ASSUME NEW m \in Messages, NEW ref \in Above[m]
  PROVE  ref.message \in Messages /\ Above[ref.message] \subseteq Above[m]
<1>1. Climbs(Above[m], m) /\ Above[m] \subseteq References
  BY AboveIsLeast
<1>2. ref.message \in Messages
  BY <1>1 DEF References
<1>3. Climbs(Above[m], ref.message)
  BY <1>1 DEF Climbs
<1> QED
  BY <1>1, <1>2, <1>3, AboveIsLeast

\* No message is below itself.
LEMMA NothingIsAboveItself ==
  ASSUME NEW m \in Messages, NEW ref \in Above[m]
  PROVE  ref.message # m
BY RepliesAssumption DEF RepliesAssumption

\* The rest of a queue of different messages has what was not taken away, once.
LEMMA RestOfMessages ==
  ASSUME NEW q \in Seq(Messages), NEW S
  PROVE  /\ Dequeued(q, S) \in Seq(Messages)
         /\ Range(Dequeued(q, S)) = Range(q) \ S
         /\ IsInjective(q) => IsInjective(Dequeued(q, S))
BY RestOfAQueue

\* The queue behind its head.
LEMMA MessagesBehind ==
  ASSUME NEW q \in Seq(Messages), IsInjective(q), q # << >>
  PROVE  /\ q[1] \in Messages /\ 1 \in DOMAIN q
         /\ SubSeq(q, 2, Len(q)) \in Seq(Messages)
         /\ Range(SubSeq(q, 2, Len(q))) = Range(q) \ {q[1]}
         /\ IsInjective(SubSeq(q, 2, Len(q)))
<1>1. /\ q[1] = Head(q) /\ Head(q) \in Messages /\ 1 \in DOMAIN q
      /\ SubSeq(q, 2, Len(q)) = Tail(q) /\ Tail(q) \in Seq(Messages)
      /\ Range(Tail(q)) = Range(q) \ {Head(q)} /\ IsInjective(Tail(q))
  BY BehindTheHead
<1> QED
  BY <1>1

\* What is appended to a queue comes behind all that it had, and it has it once.
LEMMA OneMoreMessage ==
  ASSUME NEW q \in Seq(Messages), IsInjective(q), NEW m \in Messages, m \notin Range(q)
  PROVE  /\ Append(q, m) \in Seq(Messages)
         /\ Range(Append(q, m)) = Range(q) \cup {m}
         /\ IsInjective(Append(q, m))
BY BehindTheTail

-----------------------------------------------------------------------------
(* What the operators on nodes keep.                                        *)

\* The graphs of nodes that the trees, the store and a snapshot may be.
Graphs == UNION {[S -> Nodes] : S \in SUBSET Messages}

\* A graph gives each of its messages a node.
LEMMA GraphsAre ==
  ASSUME NEW g
  PROVE  g \in Graphs <=> DOMAIN g \subseteq Messages /\ g \in [DOMAIN g -> Nodes]
BY DEF Graphs

\* What the fields of a node of a graph range over.
LEMMA NodesAre ==
  ASSUME NEW g \in Graphs, NEW m \in DOMAIN g
  PROVE  /\ m \in Messages /\ g[m] \in Nodes
         /\ g[m].turn \in Deliveries /\ g[m].root \in Messages /\ g[m].state \in States
         /\ g[m].status \in BOOLEAN /\ g[m].session \in BOOLEAN
BY DEF Graphs, Nodes

\* What two graphs have in common when only states and sessions have changed.
SameShape(g, h) ==
  /\ DOMAIN h = DOMAIN g
  /\ \A m \in DOMAIN g : /\ h[m].turn = g[m].turn /\ h[m].root = g[m].root
                         /\ h[m].status <=> g[m].status

\* Dropping nodes leaves the others as they are.
LEMMA KeptIs ==
  ASSUME NEW g \in Graphs, NEW S
  PROVE  /\ Kept(g, S) \in Graphs
         /\ DOMAIN Kept(g, S) = DOMAIN g \ S
         /\ \A m \in DOMAIN g \ S : Kept(g, S)[m] = g[m]
BY GraphsAre DEF Kept

\* Marking nodes as failed changes nothing else of them, and nothing of the others.
LEMMA MarkedIs ==
  ASSUME NEW g \in Graphs, NEW S
  PROVE  /\ Marked(g, S) \in Graphs
         /\ SameShape(g, Marked(g, S))
         /\ \A m \in DOMAIN g :
              /\ Marked(g, S)[m].session <=> g[m].session
              /\ m \in S => Marked(g, S)[m].state = "error"
              /\ m \notin S => Marked(g, S)[m].state = g[m].state
<1>1. g \in [DOMAIN g -> Nodes] /\ DOMAIN g \subseteq Messages
  BY GraphsAre
<1>2. \A m \in DOMAIN g : [g[m] EXCEPT !.state = "error"] \in Nodes
  BY <1>1 DEF Nodes, States
<1>3. Marked(g, S) \in [DOMAIN g -> Nodes]
  BY <1>1, <1>2 DEF Marked
<1>4. Marked(g, S) \in Graphs /\ DOMAIN Marked(g, S) = DOMAIN g
  BY <1>1, <1>3, GraphsAre
<1>5. ASSUME NEW m \in DOMAIN g
      PROVE  /\ Marked(g, S)[m].turn = g[m].turn /\ Marked(g, S)[m].root = g[m].root
             /\ Marked(g, S)[m].status <=> g[m].status
             /\ Marked(g, S)[m].session <=> g[m].session
             /\ m \in S => Marked(g, S)[m].state = "error"
             /\ m \notin S => Marked(g, S)[m].state = g[m].state
  <2>1. g[m] \in Nodes
    BY <1>1
  <2>2. Marked(g, S)[m] = IF m \in S THEN [g[m] EXCEPT !.state = "error"] ELSE g[m]
    BY DEF Marked
  <2> QED
    BY <2>1, <2>2 DEF Nodes
<1> QED
  BY <1>4, <1>5 DEF SameShape

\* A snapshot of some trees has all their nodes as they are, and no other.
LEMMA SnapshotIs ==
  ASSUME NEW g \in Graphs, NEW R
  PROVE  /\ SnapshotOf(g, R) \in Graphs
         /\ DOMAIN SnapshotOf(g, R) = {m \in DOMAIN g : g[m].root \in R}
         /\ \A m \in DOMAIN g : g[m].root \in R => SnapshotOf(g, R)[m] = g[m]
<1> DEFINE S == {m \in DOMAIN g : g[m].root \notin R}
<1>1. /\ SnapshotOf(g, R) \in Graphs /\ DOMAIN SnapshotOf(g, R) = DOMAIN g \ S
      /\ \A m \in DOMAIN g \ S : SnapshotOf(g, R)[m] = g[m]
  BY KeptIs DEF SnapshotOf
<1> QED
  BY <1>1

\* The store without some trees has the nodes of the others as they are.
LEMMA WithoutIs ==
  ASSUME stored \in Graphs, NEW R
  PROVE  /\ Without(R) \in Graphs
         /\ DOMAIN Without(R) = {m \in DOMAIN stored : stored[m].root \notin R}
         /\ \A m \in DOMAIN stored : stored[m].root \notin R => Without(R)[m] = stored[m]
<1> DEFINE S == {m \in DOMAIN stored : stored[m].root \in R}
<1>1. /\ Without(R) \in Graphs /\ DOMAIN Without(R) = DOMAIN stored \ S
      /\ \A m \in DOMAIN stored \ S : Without(R)[m] = stored[m]
  BY KeptIs DEF Without
<1> QED
  BY <1>1

\* One tree after the other.
LEMMA JoinedIs ==
  ASSUME NEW g \in Graphs, NEW h \in Graphs
  PROVE  /\ Joined(g, h) \in Graphs
         /\ DOMAIN Joined(g, h) = DOMAIN g \cup DOMAIN h
         /\ \A m \in DOMAIN g : Joined(g, h)[m] = g[m]
         /\ \A m \in DOMAIN h \ DOMAIN g : Joined(g, h)[m] = h[m]
<1>1. Joined(g, h) = [m \in DOMAIN g \cup DOMAIN h |-> IF m \in DOMAIN g THEN g[m] ELSE h[m]]
  BY DEF Joined
<1>2. /\ DOMAIN Joined(g, h) = DOMAIN g \cup DOMAIN h
      /\ \A m \in DOMAIN g : Joined(g, h)[m] = g[m]
      /\ \A m \in DOMAIN h \ DOMAIN g : Joined(g, h)[m] = h[m]
  BY <1>1
<1>3. /\ DOMAIN g \subseteq Messages /\ DOMAIN h \subseteq Messages
      /\ \A m \in DOMAIN g : g[m] \in Nodes
      /\ \A m \in DOMAIN h : h[m] \in Nodes
  BY NodesAre, GraphsAre
<1>4. Joined(g, h) \in [DOMAIN g \cup DOMAIN h -> Nodes]
  BY <1>1, <1>3
<1> QED
  BY <1>2, <1>3, <1>4, GraphsAre

\* The store with a tree saved in it has that tree as it is published, and the trees of
\* other roots as they were stored.
LEMMA WithTreeIs ==
  ASSUME stored \in Graphs, NEW g \in Graphs, NEW r
  PROVE  /\ WithTree(g, r) \in Graphs
         /\ \A m \in DOMAIN WithTree(g, r) : \/ m \in DOMAIN g /\ g[m].root = r
                                             \/ m \in DOMAIN stored /\ stored[m].root # r
         /\ \A m \in DOMAIN g :
              g[m].root = r => m \in DOMAIN WithTree(g, r) /\ WithTree(g, r)[m] = g[m]
         /\ \A m \in DOMAIN stored : stored[m].root # r =>
              /\ m \in DOMAIN WithTree(g, r)
              /\ ~(m \in DOMAIN g /\ g[m].root = r) => WithTree(g, r)[m] = stored[m]
<1>1. /\ SnapshotOf(g, {r}) \in Graphs
      /\ DOMAIN SnapshotOf(g, {r}) = {m \in DOMAIN g : g[m].root \in {r}}
      /\ \A m \in DOMAIN g : g[m].root \in {r} => SnapshotOf(g, {r})[m] = g[m]
  BY SnapshotIs
<1>2. /\ Without({r}) \in Graphs
      /\ DOMAIN Without({r}) = {m \in DOMAIN stored : stored[m].root \notin {r}}
      /\ \A m \in DOMAIN stored : stored[m].root \notin {r} => Without({r})[m] = stored[m]
  BY WithoutIs
<1>3. WithTree(g, r) = Joined(SnapshotOf(g, {r}), Without({r}))
  BY DEF WithTree
<1> DEFINE G == SnapshotOf(g, {r})
           H == Without({r})
<1> HIDE DEF WithTree, G, H
<1>4. /\ Joined(G, H) \in Graphs /\ DOMAIN Joined(G, H) = DOMAIN G \cup DOMAIN H
      /\ \A m \in DOMAIN G : Joined(G, H)[m] = G[m]
      /\ \A m \in DOMAIN H \ DOMAIN G : Joined(G, H)[m] = H[m]
  BY <1>1, <1>2, JoinedIs DEF G, H
<1>5. /\ DOMAIN G = {m \in DOMAIN g : g[m].root = r}
      /\ \A m \in DOMAIN g : g[m].root = r => G[m] = g[m]
  BY <1>1 DEF G
<1>6. /\ DOMAIN H = {m \in DOMAIN stored : stored[m].root # r}
      /\ \A m \in DOMAIN stored : stored[m].root # r => H[m] = stored[m]
  BY <1>2 DEF H
<1>7. WithTree(g, r) = Joined(G, H)
  BY <1>3 DEF G, H
<1> QED
  BY <1>4, <1>5, <1>6, <1>7

-----------------------------------------------------------------------------
(* The invariant.                                                           *)

\* What the command at work may be.
Commands == [phase : {"none", "draining", "saving"}, waits : SUBSET Deliveries,
             roots : SUBSET Messages, snapshot : Graphs, removed : SUBSET Messages]

\* The types of the variables, with the graphs as sets of functions.
Typed ==
  /\ intake \in [Deliveries -> {"away", "gone"} \cup Provisional]
  /\ fresh \in SUBSET Deliveries
  /\ graph \in Graphs
  /\ queue \in [Messages -> Seq(Messages)]
  /\ active \in [Messages -> Deliveries \cup {NoClaim}]
  /\ cancelled \in [Messages -> BOOLEAN]
  /\ task \in [Deliveries -> Tasks]
  /\ command \in Commands
  /\ stored \in Graphs
  /\ restarts \in 0 .. MaxRestarts

\* A node has been admitted, is legible, and hangs below the root of its tree.
NodeIsSound(nodes, m) ==
  /\ Message[nodes[m].turn] = m
  /\ Legible(nodes[m])
  /\ nodes[m].root \in DOMAIN nodes
  /\ nodes[nodes[m].root].root = nodes[m].root
  /\ m # nodes[m].root =>
       /\ ReplyTo[m] \in References
       /\ ReplyTo[m].message \in DOMAIN nodes
       /\ nodes[ReplyTo[m].message].root = nodes[m].root
       /\ ReplyTo[m].kind = "status" => nodes[ReplyTo[m].message].status
       /\ PromptOf(nodes[m].root) \in Above[m]
\* All the nodes of a graph are sound.
NodesAreSound(nodes) == \A m \in DOMAIN nodes : NodeIsSound(nodes, m)

\* Nothing that is published, stored or about to be stored is still on its way.
Entered(nodes) == \A m \in DOMAIN nodes : intake[nodes[m].turn] = "gone"
\* Nor is what has a task, and a reply that is being admitted replies to something.
AllHaveEntered ==
  /\ Entered(graph) /\ Entered(stored) /\ Entered(command.snapshot)
  /\ \A d \in Deliveries : task[d] # "none" => intake[d] = "gone"
  /\ \A d \in Deliveries : intake[d] = "reply" => ReplyTo[Message[d]] \in References

\* A turn that waits has no task yet, and a task of a turn is the active one of its
\* tree; what is active and not cancelled is a turn of that tree.
ClaimsAreSound ==
  /\ \A m \in Present : graph[m].state = "pending" => task[graph[m].turn] = "none"
  /\ \A r, s \in Messages : active[r] = active[s] /\ active[r] # NoClaim => r = s
  /\ \A r \in Messages : cancelled[r] => active[r] # NoClaim
  /\ \A r \in Messages : active[r] # NoClaim /\ ~cancelled[r] =>
       /\ Message[active[r]] \in Tree(r)
       /\ graph[Message[active[r]]].turn = active[r]
  /\ \A m \in Present :
       task[graph[m].turn] \notin Ended => active[graph[m].root] = graph[m].turn

\* The trees that the command at work is about to save or to remove.
Touched == command.roots \cup command.removed

\* What is stored is published under the same root, unless the command at work is about
\* to remove it, and the snapshot of that command is of the trees it saves.
StoreFollows ==
  /\ \A m \in DOMAIN stored : m \in Present => stored[m].root = graph[m].root
  /\ \A m \in DOMAIN stored : stored[m].root \notin Touched => m \in Present
  /\ \A m \in DOMAIN command.snapshot :
       /\ m \in Present /\ graph[m].root = command.snapshot[m].root
       /\ graph[m].root \in command.roots
  /\ command.phase = "none" => command = NoCommand

\* A stored node has the status of the published one and is not ahead of it.
Tells(nodes, m) ==
  /\ m \in DOMAIN nodes
  /\ nodes[m].status <=> graph[m].status
  /\ nodes[m].state = "completed" => graph[m].state = "completed"

\* What holds as long as every CLI ends within the drain.
StoreTells ==
  /\ \A m \in Present : graph[m].root \notin Touched => Tells(stored, m)
  /\ command.phase = "saving" =>
       \A m \in Present : graph[m].root \in command.roots => Tells(command.snapshot, m)
  /\ \A m \in Present : graph[m].root \notin command.removed
\* A turn without its status message is over, or its end is being awaited.
NobodyIsNameless ==
  \A m \in Present : ~graph[m].status =>
    \/ task[graph[m].turn] \in Ended
    \/ command.phase = "draining" /\ graph[m].turn \in command.waits
\* A turn that waits came after the last stop of everything and the last clear of its chat.
WaitingIsFresh == \A m \in Present : graph[m].state = "pending" => graph[m].turn \in fresh

\* A cancelled claim is one whose end is being awaited.
CancelledIsAwaited ==
  \A r \in Messages : cancelled[r] => command.phase = "draining" /\ active[r] \in command.waits

\* All of that, if every CLI ends within the drain: a stop that gives up waiting for one
\* saves before the turn has ended, and the store may tell something else for good.
InTime == ~SlowStop => StoreTells /\ NobodyIsNameless /\ CancelledIsAwaited /\ WaitingIsFresh

\* What every step keeps.  The properties alone are not inductive: that a turn is launched
\* once needs that the head of a queue has no task, that the store is legible needs that
\* the published trees and the snapshot on its way to the store are, and that the store
\* agrees when no command is at work needs what it may lack while one is.
TreesInv ==
  /\ Typed
  /\ NodesAreSound(graph) /\ NodesAreSound(stored) /\ NodesAreSound(command.snapshot)
  /\ AllHaveEntered
  /\ ClaimsAreSound /\ QueuesMove /\ RunnersAreOwned
  /\ StoreFollows
  /\ InTime

\* The root and the parent of a sound node are in its tree.
LEMMA SoundNode ==
  ASSUME NEW g \in Graphs, NodesAreSound(g), NEW m \in DOMAIN g
  PROVE  NodeIsSound(g, m)
BY DEF NodesAreSound

\* A change of states and sessions keeps the nodes sound.
LEMMA ShapeIsSound ==
  ASSUME NEW g \in Graphs, NEW h \in Graphs, SameShape(g, h), NodesAreSound(g),
         \A m \in DOMAIN h : Legible(h[m])
  PROVE  NodesAreSound(h)
BY DEF SameShape, NodesAreSound, NodeIsSound

\* A node whose tree is there, the same, in a larger graph is sound in it.
LEMMA SoundInside ==
  ASSUME NEW g \in Graphs, NEW h \in Graphs, NodesAreSound(g), NEW m \in DOMAIN g,
         \A n \in DOMAIN g : g[n].root = g[m].root => n \in DOMAIN h /\ h[n] = g[n]
  PROVE  NodeIsSound(h, m)
<1>1. NodeIsSound(g, m)
  BY DEF NodesAreSound
<1>2. m \in DOMAIN h /\ h[m] = g[m]
  OBVIOUS
<1>3. g[m].root \in DOMAIN h /\ h[g[m].root] = g[g[m].root]
  BY <1>1 DEF NodeIsSound
<1>4. m # g[m].root => /\ ReplyTo[m].message \in DOMAIN h
                       /\ h[ReplyTo[m].message] = g[ReplyTo[m].message]
  BY <1>1 DEF NodeIsSound
<1> QED
  BY <1>1, <1>2, <1>3, <1>4 DEF NodeIsSound

\* A snapshot of some trees is sound.
LEMMA SnapshotIsSound ==
  ASSUME NEW g \in Graphs, NodesAreSound(g), NEW R
  PROVE  NodesAreSound(SnapshotOf(g, R))
<1> DEFINE h == SnapshotOf(g, R)
<1>1. /\ h \in Graphs /\ DOMAIN h = {m \in DOMAIN g : g[m].root \in R}
      /\ \A m \in DOMAIN g : g[m].root \in R => h[m] = g[m]
  BY SnapshotIs
<1> HIDE DEF h
<1>2. ASSUME NEW m \in DOMAIN h PROVE NodeIsSound(h, m)
  <2>1. m \in DOMAIN g /\ g[m].root \in R
    BY <1>1
  <2>2. \A n \in DOMAIN g : g[n].root = g[m].root => n \in DOMAIN h /\ h[n] = g[n]
    BY <1>1, <2>1
  <2> QED
    BY <1>1, <2>1, <2>2, SoundInside
<1> QED
  BY <1>2 DEF NodesAreSound, h

\* The store without some trees is sound.
LEMMA WithoutIsSound ==
  ASSUME stored \in Graphs, NodesAreSound(stored), NEW R
  PROVE  NodesAreSound(Without(R))
<1> DEFINE h == Without(R)
<1>1. /\ h \in Graphs /\ DOMAIN h = {m \in DOMAIN stored : stored[m].root \notin R}
      /\ \A m \in DOMAIN stored : stored[m].root \notin R => h[m] = stored[m]
  BY WithoutIs
<1> HIDE DEF h
<1>2. ASSUME NEW m \in DOMAIN h PROVE NodeIsSound(h, m)
  <2>1. m \in DOMAIN stored /\ stored[m].root \notin R
    BY <1>1
  <2>2. \A n \in DOMAIN stored : stored[n].root = stored[m].root => n \in DOMAIN h /\ h[n] = stored[n]
    BY <1>1, <2>1
  <2> QED
    BY <1>1, <2>1, <2>2, SoundInside
<1> QED
  BY <1>2 DEF NodesAreSound, h

\* Two sound graphs with no message in common are sound together.
LEMMA JoinedIsSound ==
  ASSUME NEW g \in Graphs, NEW h \in Graphs, NodesAreSound(g), NodesAreSound(h),
         DOMAIN g \cap DOMAIN h = {}
  PROVE  NodesAreSound(Joined(g, h))
<1> DEFINE j == Joined(g, h)
<1>1. /\ j \in Graphs /\ DOMAIN j = DOMAIN g \cup DOMAIN h
      /\ \A m \in DOMAIN g : j[m] = g[m]
      /\ \A m \in DOMAIN h \ DOMAIN g : j[m] = h[m]
  BY JoinedIs
<1> HIDE DEF j
<1>2. ASSUME NEW m \in DOMAIN g PROVE NodeIsSound(j, m)
  BY <1>1, SoundInside
<1>3. ASSUME NEW m \in DOMAIN h PROVE NodeIsSound(j, m)
  BY <1>1, SoundInside
<1> QED
  BY <1>1, <1>2, <1>3 DEF NodesAreSound, j

\* A tree of a graph is saved in the store.
LEMMA SavedIsSound ==
  ASSUME stored \in Graphs, NodesAreSound(stored), NEW g \in Graphs, NodesAreSound(g), NEW r,
         \A m \in DOMAIN stored : m \in DOMAIN g => stored[m].root = g[m].root
  PROVE  NodesAreSound(WithTree(g, r))
<1>1. NodesAreSound(SnapshotOf(g, {r})) /\ NodesAreSound(Without({r}))
  BY SnapshotIsSound, WithoutIsSound
<1>2. /\ SnapshotOf(g, {r}) \in Graphs
      /\ DOMAIN SnapshotOf(g, {r}) = {m \in DOMAIN g : g[m].root \in {r}}
  BY SnapshotIs
<1>3. /\ Without({r}) \in Graphs
      /\ DOMAIN Without({r}) = {m \in DOMAIN stored : stored[m].root \notin {r}}
  BY WithoutIs
<1>4. DOMAIN SnapshotOf(g, {r}) \cap DOMAIN Without({r}) = {}
  BY <1>2, <1>3
<1> QED
  BY <1>1, <1>2, <1>3, <1>4, JoinedIsSound DEF WithTree

-----------------------------------------------------------------------------
(* Steps that leave the trees alone.                                        *)

\* What the command at work is, and that it touches nothing when there is none.
LEMMA CommandIs ==
  ASSUME TreesInv
  PROVE  /\ command.phase \in {"none", "draining", "saving"}
         /\ command.waits \subseteq Deliveries
         /\ command.roots \subseteq Messages /\ command.removed \subseteq Messages
         /\ command.snapshot \in Graphs
         /\ command.phase = "none" =>
              /\ command.waits = {} /\ command.roots = {} /\ command.removed = {}
              /\ DOMAIN command.snapshot = {} /\ Touched = {}
BY DEF TreesInv, Typed, Commands, StoreFollows, NoCommand, Touched

\* At first there are no trees, no tasks and nothing stored.
LEMMA InitIsSound == ASSUME Init PROVE TreesInv
<1>0. << >> \in Graphs
  <2>1. << >> \in [{} -> Nodes]
    OBVIOUS
  <2> QED
    BY <2>1 DEF Graphs
<1>1. Typed
  BY <1>0, TreesAssumption DEF Init, Typed, TreesAssumption, Tasks, Ended, Commands, NoCommand
<1>2. Present = {} /\ DOMAIN stored = {} /\ DOMAIN command.snapshot = {}
  BY DEF Init, Present, NoCommand
<1>3. QueuesMove
  BY <1>2, TreesAssumption DEF Init, QueuesMove, Range, IsInjective, Tree
<1>4. RunnersAreOwned
  BY <1>2 DEF Init, RunnersAreOwned
<1>5. NodesAreSound(graph) /\ NodesAreSound(stored) /\ NodesAreSound(command.snapshot)
  BY <1>2 DEF NodesAreSound, Present
<1>6. AllHaveEntered /\ ClaimsAreSound /\ StoreFollows /\ InTime
  BY <1>2 DEF AllHaveEntered, Entered, ClaimsAreSound, StoreFollows, InTime, StoreTells,
     NobodyIsNameless, CancelledIsAwaited, WaitingIsFresh, Init, Present, NoCommand
<1> QED
  BY <1>1, <1>3, <1>4, <1>5, <1>6 DEF TreesInv

\* What does not change with the delivery of messages.
LEMMA IntakeKeeps ==
  ASSUME TreesInv, UNCHANGED <<trees, task, command, stored, restarts>>,
         intake' \in [Deliveries -> {"away", "gone"} \cup Provisional],
         \A d \in Deliveries : intake[d] = "gone" => intake'[d] = "gone",
         \A d \in Deliveries : intake'[d] = "reply" => ReplyTo[Message[d]] \in References,
         fresh' \in SUBSET Deliveries, fresh \subseteq fresh'
  PROVE  TreesInv'
<1> USE DEF trees
<1>1. Typed'
  BY DEF TreesInv, Typed
<1>2. (NodesAreSound(graph) /\ NodesAreSound(stored) /\ NodesAreSound(command.snapshot))'
  BY DEF TreesInv
<1>3. AllHaveEntered'
  BY CommandIs, NodesAre DEF TreesInv, Typed, AllHaveEntered, Entered
<1>4. ClaimsAreSound' /\ QueuesMove' /\ RunnersAreOwned'
  BY DEF TreesInv, ClaimsAreSound, QueuesMove, RunnersAreOwned, Present, Tree, Owns, IsActive
<1>5. StoreFollows'
  BY DEF TreesInv, StoreFollows, Present, Touched
<1>6. InTime'
  BY DEF TreesInv, InTime, StoreTells, NobodyIsNameless, CancelledIsAwaited, WaitingIsFresh,
    Tells,
     Present, Touched
<1> QED
  BY <1>1, <1>2, <1>3, <1>4, <1>5, <1>6 DEF TreesInv

\* A message that arrives is only on its way.
LEMMA ReceiveKeeps == ASSUME TreesInv, NEW d \in Deliveries, Receive(d) PROVE TreesInv'
<1>1. /\ Message[d] \in Messages /\ ReplyTo[Message[d]] \in References \cup {NoReference}
      /\ intake \in [Deliveries -> {"away", "gone"} \cup Provisional] /\ fresh \in SUBSET Deliveries
      /\ \A x \in Deliveries : intake[x] = "reply" => ReplyTo[Message[x]] \in References
  BY TreesAssumption DEF TreesAssumption, TreesInv, Typed, AllHaveEntered
<1> QED
  BY <1>1, IntakeKeeps DEF Receive, Provisional, RepliesToTurn

\* A delivery whose status could not be sent is gone, and has changed nothing.
LEMMA SendFailsKeeps == ASSUME TreesInv, NEW d \in Deliveries, SendFails(d) PROVE TreesInv'
BY IntakeKeeps DEF TreesInv, Typed, AllHaveEntered, SendFails, Provisional

\* So has one that was refused.
LEMMA RejectKeeps == ASSUME TreesInv, NEW d \in Deliveries, Reject(d) PROVE TreesInv'
BY IntakeKeeps DEF TreesInv, Typed, AllHaveEntered, Reject, Provisional

\* What does not change when only a task moves on, from one state of a task to another.
LEMMA TaskKeeps ==
  ASSUME TreesInv, UNCHANGED <<intake, fresh, trees, command, stored, restarts>>,
         NEW d \in Deliveries, NEW t \in Tasks \ {"none"}, task' = [task EXCEPT ![d] = t],
         task[d] # "none",
         t \notin Ended => task[d] \notin Ended,
         t = "done" => \A r \in Messages : active[r] # d,
         t = "running" => task[d] = "launched",
         t # "launched",
         t # "running" => \A m \in Present : graph[m].turn = d => graph[m].state # "in_progress"
  PROVE  TreesInv'
<1> USE DEF trees
<1>0. /\ task \in [Deliveries -> Tasks] /\ graph \in Graphs
      /\ active \in [Messages -> Deliveries \cup {NoClaim}] /\ NoClaim \notin Deliveries
  BY TreesAssumption DEF TreesInv, Typed, TreesAssumption
<1>1. Typed'
  BY <1>0 DEF TreesInv, Typed
<1>2. (NodesAreSound(graph) /\ NodesAreSound(stored) /\ NodesAreSound(command.snapshot))'
  BY DEF TreesInv
<1>3. AllHaveEntered'
  BY <1>0 DEF TreesInv, AllHaveEntered, Entered
<1>4. ClaimsAreSound'
  BY <1>0, NodesAre DEF TreesInv, ClaimsAreSound, Present, Tree, Tasks, Ended
<1>5. QueuesMove'
  BY <1>0 DEF TreesInv, QueuesMove, Present, Tree, Tasks, Ended
<1>6. RunnersAreOwned'
  BY <1>0, NodesAre DEF TreesInv, RunnersAreOwned, Present, Tree, Owns, IsActive, Tasks, Ended
<1>7. StoreFollows'
  BY DEF TreesInv, StoreFollows, Present, Touched
<1>8. InTime'
  <2> SUFFICES ASSUME ~SlowStop PROVE (StoreTells /\ NobodyIsNameless /\ CancelledIsAwaited /\ WaitingIsFresh)'
    BY DEF InTime
  <2>1. StoreTells /\ NobodyIsNameless /\ CancelledIsAwaited /\ WaitingIsFresh
    BY DEF TreesInv, InTime
  <2>2. StoreTells' /\ WaitingIsFresh' /\ CancelledIsAwaited'
    BY <2>1 DEF StoreTells, WaitingIsFresh, CancelledIsAwaited, Tells, Present, Touched
  <2>3. NobodyIsNameless'
    BY <1>0, <2>1, NodesAre DEF NobodyIsNameless, Present, Tasks, Ended
  <2> QED
    BY <2>2, <2>3
<1> QED
  BY <1>1, <1>2, <1>3, <1>4, <1>5, <1>6, <1>7, <1>8 DEF TreesInv

\* A task that starts to run is still the active one of its tree.
LEMMA StartKeeps == ASSUME TreesInv, NEW d \in Deliveries, Start(d) PROVE TreesInv'
BY TaskKeeps DEF Start, Move, Tasks, Ended

\* A run that ends as it should leaves the trees to its finish.
LEMMA EndsWellKeeps ==
  ASSUME TreesInv, NEW d \in Deliveries, NEW r \in Messages, EndsWell(d, r)
  PROVE  TreesInv'
<1>1. \A m \in Present : graph[m].turn = d => graph[m].state # "in_progress"
  <2> SUFFICES ASSUME NEW m \in Present, graph[m].turn = d PROVE graph[m].state # "in_progress"
    OBVIOUS
  <2>1. Message[d] = m
    BY DEF TreesInv, NodesAreSound, NodeIsSound, Present
  <2> QED
    BY <2>1 DEF EndsWell
<1> QED
  BY <1>1, TaskKeeps DEF EndsWell, Move, Tasks, Ended

\* A task whose claim has been taken away ends and changes nothing.
LEMMA FinishDetachedKeeps ==
  ASSUME TreesInv, NEW d \in Deliveries, FinishDetached(d) PROVE TreesInv'
<1>1. task[d] \in {"unwinding", "recovering"}
  BY DEF FinishDetached, Finishing, Recovered
<1>2. \A m \in Present : graph[m].turn = d => graph[m].state # "in_progress"
  BY <1>1 DEF TreesInv, RunnersAreOwned
<1> QED
  BY <1>1, <1>2, TaskKeeps DEF FinishDetached, Move, Tasks, Ended

\* A command whose drain is over, or has timed out, takes its snapshot.
LEMMA DrainedKeeps == ASSUME TreesInv, Drained PROVE TreesInv'
<1> USE DEF trees
<1> DEFINE g == SnapshotOf(graph, command.roots)
<1>0. graph \in Graphs /\ NodesAreSound(graph) /\ command \in Commands
  BY DEF TreesInv, Typed
<1>1. /\ g \in Graphs /\ DOMAIN g = {m \in Present : graph[m].root \in command.roots}
      /\ \A m \in Present : graph[m].root \in command.roots => g[m] = graph[m]
      /\ NodesAreSound(g)
  BY <1>0, SnapshotIs, SnapshotIsSound DEF Present
<1>2. /\ command'.phase = "saving" /\ command'.waits = {}
      /\ command'.roots = command.roots /\ command'.removed = command.removed
      /\ command'.snapshot = g /\ command' \in Commands
  BY <1>0, <1>1 DEF Drained, Commands
<1> HIDE DEF g
<1>3. Typed'
  BY <1>2 DEF TreesInv, Typed, Drained
<1>4. (NodesAreSound(graph) /\ NodesAreSound(stored) /\ NodesAreSound(command.snapshot))'
  BY <1>1, <1>2 DEF TreesInv, Drained
<1>5. AllHaveEntered'
  BY <1>0, <1>1, <1>2, NodesAre DEF TreesInv, AllHaveEntered, Entered, Drained, Present
<1>6. ClaimsAreSound' /\ QueuesMove' /\ RunnersAreOwned'
  BY DEF TreesInv, ClaimsAreSound, QueuesMove, RunnersAreOwned, Present, Tree, Owns, IsActive,
    Drained
<1>7. StoreFollows'
  BY <1>1, <1>2 DEF TreesInv, StoreFollows, Present, Touched, Drained
<1>8. InTime'
  <2> SUFFICES ASSUME ~SlowStop PROVE (StoreTells /\ NobodyIsNameless /\ CancelledIsAwaited /\ WaitingIsFresh)'
    BY DEF InTime
  <2>1. StoreTells /\ NobodyIsNameless /\ CancelledIsAwaited /\ WaitingIsFresh
    BY DEF TreesInv, InTime
  <2>2. StoreTells'
    BY <1>1, <1>2, <2>1 DEF StoreTells, Tells, Present, Touched, Drained
  <2>3. NobodyIsNameless'
    BY <2>1 DEF NobodyIsNameless, Present, Ended, Drained
  <2>4. WaitingIsFresh'
    BY <2>1 DEF WaitingIsFresh, Present, Drained
  <2>5. \A r \in Messages : ~cancelled[r]
    <3> SUFFICES ASSUME NEW r \in Messages, cancelled[r] PROVE FALSE
      OBVIOUS
    <3>1. active[r] # NoClaim /\ task[active[r]] \notin Ended
      BY DEF TreesInv, ClaimsAreSound, QueuesMove
    <3>2. task[active[r]] = "done"
      BY <2>1 DEF CancelledIsAwaited, Drained
    <3> QED
      BY <3>1, <3>2 DEF Ended
  <2>6. CancelledIsAwaited'
    BY <2>5 DEF CancelledIsAwaited, Drained
  <2> QED
    BY <2>2, <2>3, <2>4, <2>6
<1> QED
  BY <1>3, <1>4, <1>5, <1>6, <1>7, <1>8 DEF TreesInv

\* The save of a stop or clear replaces the trees it touches in the store and drops the
\* removed ones.
LEMMA SaveKeeps == ASSUME TreesInv, Save PROVE TreesInv'
<1> USE DEF trees
<1> DEFINE s == command.snapshot
           w == Without(Touched)
<1>0. /\ graph \in Graphs /\ stored \in Graphs /\ s \in Graphs
      /\ NodesAreSound(stored) /\ NodesAreSound(s)
  BY DEF TreesInv, Typed, Commands
<1>1. /\ w \in Graphs /\ NodesAreSound(w)
      /\ DOMAIN w = {m \in DOMAIN stored : stored[m].root \notin Touched}
      /\ \A m \in DOMAIN stored : stored[m].root \notin Touched => w[m] = stored[m]
  BY <1>0, WithoutIs, WithoutIsSound
<1> HIDE DEF w
<1>2. \A m \in DOMAIN s : /\ m \in Present /\ graph[m].root = s[m].root
                          /\ graph[m].root \in Touched
  BY DEF TreesInv, StoreFollows, Touched
<1>3. DOMAIN s \cap DOMAIN w = {}
  BY <1>1, <1>2 DEF TreesInv, StoreFollows
<1>4. stored' = Joined(s, w)
  BY DEF Save, Touched, w
<1> HIDE DEF s
<1>5. /\ stored' \in Graphs /\ NodesAreSound(stored')
      /\ DOMAIN stored' = DOMAIN s \cup DOMAIN w
      /\ \A m \in DOMAIN s : stored'[m] = s[m]
      /\ \A m \in DOMAIN w : stored'[m] = w[m]
  <2>1. stored' \in Graphs /\ NodesAreSound(stored')
    BY <1>0, <1>1, <1>3, <1>4, JoinedIs, JoinedIsSound
  <2>2. /\ DOMAIN stored' = DOMAIN s \cup DOMAIN w
        /\ \A m \in DOMAIN s : stored'[m] = s[m]
        /\ \A m \in DOMAIN w \ DOMAIN s : stored'[m] = w[m]
    BY <1>0, <1>1, <1>4, JoinedIs
  <2> QED
    BY <1>3, <2>1, <2>2
<1>6. /\ command' = NoCommand /\ command'.roots = {} /\ command'.removed = {}
      /\ Touched' = {} /\ DOMAIN command'.snapshot = {} /\ command'.phase = "none"
  BY DEF Save, NoCommand, Touched
<1>7. Typed'
  <2>1. NoCommand \in Commands
    BY InitIsSound DEF Commands, NoCommand, Graphs
  <2> QED
    BY <1>5, <1>6, <2>1 DEF TreesInv, Typed, Save
<1>8. (NodesAreSound(graph) /\ NodesAreSound(stored) /\ NodesAreSound(command.snapshot))'
  BY <1>5, <1>6 DEF TreesInv, Save, NodesAreSound
<1>9. AllHaveEntered'
  <2>1. /\ Entered(graph) /\ Entered(stored) /\ Entered(s)
        /\ \A d \in Deliveries : task[d] # "none" => intake[d] = "gone"
        /\ \A d \in Deliveries : intake[d] = "reply" => ReplyTo[Message[d]] \in References
    BY DEF TreesInv, AllHaveEntered, s
  <2>2. intake' = intake /\ graph' = graph /\ task' = task
    BY DEF Save
  <2>3. \A m \in DOMAIN stored' : intake[stored'[m].turn] = "gone"
    BY <1>1, <1>5, <2>1 DEF Entered
  <2> QED
    BY <1>6, <2>1, <2>2, <2>3 DEF AllHaveEntered, Entered
<1>10. ClaimsAreSound' /\ QueuesMove' /\ RunnersAreOwned'
  BY DEF TreesInv, ClaimsAreSound, QueuesMove, RunnersAreOwned, Present, Tree, Owns, IsActive,
    Save
<1>11. StoreFollows'
  <2>1. /\ \A m \in DOMAIN stored : m \in Present => stored[m].root = graph[m].root
        /\ \A m \in DOMAIN stored : stored[m].root \notin Touched => m \in Present
    BY DEF TreesInv, StoreFollows
  <2>2. \A m \in DOMAIN stored' : m \in Present /\ stored'[m].root = graph[m].root
    BY <1>1, <1>2, <1>5, <2>1
  <2>3. graph' = graph /\ Present' = Present
    BY DEF Save, Present
  <2> QED
    BY <1>6, <2>2, <2>3 DEF StoreFollows
<1>12. InTime'
  <2> SUFFICES ASSUME ~SlowStop PROVE (StoreTells /\ NobodyIsNameless /\ CancelledIsAwaited /\ WaitingIsFresh)'
    BY DEF InTime
  <2>1. StoreTells /\ NobodyIsNameless /\ CancelledIsAwaited /\ WaitingIsFresh
    BY DEF TreesInv, InTime
  <2>2. ASSUME NEW m \in Present PROVE Tells(stored, m)'
    <3>1. CASE graph[m].root \in Touched
      <4>1. Tells(s, m)
        BY <2>1, <3>1 DEF StoreTells, Touched, Save, s
      <4> QED
        BY <1>5, <4>1 DEF Tells, Save
    <3>2. CASE graph[m].root \notin Touched
      <4>1. Tells(stored, m) /\ stored[m].root = graph[m].root
        BY <2>1, <3>2 DEF StoreTells, Tells, TreesInv, StoreFollows
      <4> QED
        BY <1>1, <1>5, <3>2, <4>1 DEF Tells, Save
    <3> QED
      BY <3>1, <3>2
  <2>3. StoreTells'
    BY <1>6, <2>2 DEF StoreTells, Present, Save
  <2>4. NobodyIsNameless' /\ WaitingIsFresh' /\ CancelledIsAwaited'
    BY <1>6, <2>1 DEF NobodyIsNameless, WaitingIsFresh, CancelledIsAwaited, Present, Save
  <2> QED
    BY <2>3, <2>4
<1> QED
  BY <1>7, <1>8, <1>9, <1>10, <1>11, <1>12 DEF TreesInv

-----------------------------------------------------------------------------
(* Steps of a runner.                                                       *)

\* A queue with nothing in it is the empty one.
LEMMA EmptyQueue == ASSUME NEW q \in Seq(Messages) PROVE Range(q) = {} <=> q = << >>
<1>1. Len(q) \in Nat /\ DOMAIN q = 1 .. Len(q)
  OBVIOUS
<1>2. CASE q = << >>
  BY <1>2 DEF Range
<1>3. CASE q # << >>
  <2>1. 1 \in DOMAIN q
    BY <1>1, <1>3
  <2> QED
    BY <1>3, <2>1 DEF Range
<1> QED
  BY <1>2, <1>3

\* Trees whose nodes have changed their states, and no shape.
LEMMA ShapesStay ==
  ASSUME TreesInv, graph' \in Graphs, SameShape(graph, graph'),
         \A m \in Present : Legible(graph'[m]), intake' = intake
  PROVE  /\ Present' = Present /\ NodesAreSound(graph)' /\ Entered(graph)'
         /\ \A s \in Messages : Tree(s)' = Tree(s)
         /\ \A m \in Present : /\ graph'[m].root = graph[m].root /\ graph'[m].turn = graph[m].turn
                               /\ graph'[m].status <=> graph[m].status
<1>1. Present' = Present
  BY DEF SameShape, Present
<1>2. NodesAreSound(graph)'
  BY <1>1, ShapeIsSound DEF TreesInv, Typed, Present
<1>3. Entered(graph)'
  BY DEF TreesInv, AllHaveEntered, Entered, SameShape
<1> QED
  BY <1>1, <1>2, <1>3 DEF SameShape, Present, Tree

\* The store, which a runner saves its tree into.
LEMMA RunnerStores ==
  ASSUME TreesInv, graph' \in Graphs, SameShape(graph, graph'),
         \A m \in Present : Legible(graph'[m]),
         \A m \in Present : graph[m].state = "completed" => graph'[m].state = "completed",
         NEW r \in Messages, stored' = WithTree(graph', r), UNCHANGED <<command, intake>>
  PROVE  /\ stored' \in Graphs /\ NodesAreSound(stored') /\ Entered(stored)'
         /\ StoreFollows'
         /\ ~SlowStop => StoreTells'
<1>0. /\ graph \in Graphs /\ stored \in Graphs /\ NodesAreSound(stored)
      /\ \A m \in DOMAIN stored : m \in Present => stored[m].root = graph[m].root
      /\ \A m \in DOMAIN stored : stored[m].root \notin Touched => m \in Present
  BY DEF TreesInv, Typed, StoreFollows
<1>1. /\ Present' = Present /\ NodesAreSound(graph') /\ Touched' = Touched
      /\ \A m \in Present : /\ graph'[m].root = graph[m].root /\ graph'[m].turn = graph[m].turn
                            /\ graph'[m].status <=> graph[m].status
  BY ShapesStay DEF Touched
<1>2. DOMAIN graph = Present /\ DOMAIN graph' = Present
  BY <1>1 DEF Present
<1> DEFINE s == WithTree(graph', r)
<1>3. /\ s \in Graphs
      /\ \A m \in DOMAIN s : \/ m \in Present /\ graph[m].root = r
                             \/ m \in DOMAIN stored /\ stored[m].root # r
      /\ \A m \in Present : graph[m].root = r => m \in DOMAIN s /\ s[m] = graph'[m]
      /\ \A m \in DOMAIN stored : stored[m].root # r => m \in DOMAIN s /\ s[m] = stored[m]
  <2>1. s \in Graphs
    BY <1>0, WithTreeIs
  <2>2. \A m \in DOMAIN s : \/ m \in DOMAIN graph' /\ graph'[m].root = r
                            \/ m \in DOMAIN stored /\ stored[m].root # r
    BY <1>0, WithTreeIs
  <2>3. \A m \in DOMAIN graph' : graph'[m].root = r => m \in DOMAIN s /\ s[m] = graph'[m]
    BY <1>0, WithTreeIs
  <2>4. \A m \in DOMAIN stored : stored[m].root # r =>
          /\ m \in DOMAIN s
          /\ ~(m \in DOMAIN graph' /\ graph'[m].root = r) => s[m] = stored[m]
    BY <1>0, WithTreeIs
  <2> HIDE DEF s
  <2>5. \A m \in DOMAIN s : \/ m \in Present /\ graph[m].root = r
                            \/ m \in DOMAIN stored /\ stored[m].root # r
    BY <1>1, <1>2, <2>2
  <2>6. \A m \in Present : graph[m].root = r => m \in DOMAIN s /\ s[m] = graph'[m]
    BY <1>1, <1>2, <2>3
  <2>7. \A m \in DOMAIN stored : stored[m].root # r => m \in DOMAIN s /\ s[m] = stored[m]
    <3>1. \A m \in DOMAIN stored : m \in DOMAIN graph' => stored[m].root = graph'[m].root
      BY <1>0, <1>1, <1>2
    <3> QED
      BY <2>4, <3>1
  <2> QED
    BY <2>1, <2>5, <2>6, <2>7
<1>4. NodesAreSound(s)
  BY <1>0, <1>1, <1>2, SavedIsSound
<1> HIDE DEF s
<1>5. stored' = s
  BY DEF s
<1>6. Entered(stored)'
  <2>1. Entered(graph) /\ Entered(stored)
    BY DEF TreesInv, AllHaveEntered
  <2>2. \A m \in DOMAIN s : intake[s[m].turn] = "gone"
    BY <1>1, <1>2, <1>3, <2>1 DEF Entered
  <2> QED
    BY <1>5, <2>2 DEF Entered
<1>7. StoreFollows'
  <2>1. \A m \in DOMAIN s : m \in Present => s[m].root = graph[m].root
    BY <1>0, <1>1, <1>3
  <2>2. \A m \in DOMAIN s : s[m].root \notin Touched => m \in Present
    BY <1>0, <1>1, <1>3
  <2> QED
    BY <1>1, <1>5, <2>1, <2>2 DEF TreesInv, StoreFollows
<1>8. ASSUME ~SlowStop PROVE StoreTells'
  <2>1. StoreTells
    BY <1>8 DEF TreesInv, InTime
  <2>2. ASSUME NEW m \in Present, graph[m].root \notin Touched PROVE Tells(stored, m)'
    <3>1. Tells(stored, m) /\ (m \in DOMAIN stored => stored[m].root = graph[m].root)
      BY <1>0, <2>1, <2>2 DEF StoreTells
    <3> QED
      BY <1>1, <1>3, <1>5, <3>1 DEF Tells
  <2>3. \A m \in Present : Tells(command.snapshot, m) => Tells(command.snapshot, m)'
    BY <1>1 DEF Tells
  <2> QED
    BY <1>1, <2>1, <2>2, <2>3 DEF StoreTells
<1> QED
  BY <1>3, <1>4, <1>5, <1>6, <1>7, <1>8

\* A turn that is the active one of its tree.
LEMMA OwnTurn ==
  ASSUME TreesInv, NEW d \in Deliveries, NEW r \in Messages, Owns(d, r)
  PROVE  /\ Message[d] \in Present /\ Message[d] \in Messages
         /\ graph[Message[d]].turn = d /\ graph[Message[d]].root = r /\ active[r] = d /\ ~cancelled[r]
         /\ \A m \in Present : graph[m].turn = d => m = Message[d]
<1>1. \A m \in Present : Message[graph[m].turn] = m
  BY DEF TreesInv, NodesAreSound, NodeIsSound, Present
<1>2. active[r] = d /\ ~cancelled[r] /\ Message[d] \in Present /\ graph[Message[d]].root = r
  BY DEF Owns, IsActive, Tree
<1>3. d # NoClaim /\ Message[d] \in Messages
  BY TreesAssumption DEF TreesAssumption
<1> QED
  BY <1>1, <1>2, <1>3 DEF TreesInv, ClaimsAreSound

\* Some turns of the tree of a runner end: its own, and turns that wait.
LEMMA RunnerKeeps ==
  ASSUME TreesInv, NEW d \in Deliveries, NEW r \in Messages,
         task[d] = "running", Owns(d, r),
         UNCHANGED <<intake, fresh, active, cancelled, command, restarts>>,
         graph' \in Graphs, SameShape(graph, graph'),
         NEW S \in SUBSET Tree(r),
         \A m \in S : /\ m = Message[d] \/ graph[m].state = "pending"
                      /\ graph[m].state # "completed"
                      /\ graph'[m].state \in {"completed", "error"},
         \A m \in Present \ S : graph'[m].state = graph[m].state,
         queue' \in [Messages -> Seq(Messages)],
         \A s \in Messages : /\ Range(queue'[s]) = Range(queue[s]) \ S
                             /\ IsInjective(queue'[s]),
         stored' = WithTree(graph', r),
         \/ task' = task
         \/ /\ task' = [task EXCEPT ![d] = "unwinding"]
            /\ Message[d] \in S \/ graph[Message[d]].state = "completed"
  PROVE  TreesInv'
<1>0. /\ task \in [Deliveries -> Tasks] /\ graph \in Graphs
      /\ active \in [Messages -> Deliveries \cup {NoClaim}] /\ NoClaim \notin Deliveries
      /\ \A s \in Messages : queue[s] \in Seq(Messages)
  BY TreesAssumption DEF TreesInv, Typed, TreesAssumption
<1>1. \A m \in Present : Legible(graph'[m])
  <2> SUFFICES ASSUME NEW m \in Present PROVE Legible(graph'[m])
    OBVIOUS
  <2>1. Legible(graph[m])
    BY DEF TreesInv, NodesAreSound, NodeIsSound, Present
  <2> QED
    BY <2>1 DEF Legible, Interrupted, SameShape, Present
<1>2. /\ Present' = Present /\ NodesAreSound(graph)' /\ Entered(graph)'
      /\ \A s \in Messages : Tree(s)' = Tree(s)
      /\ \A m \in Present : /\ graph'[m].root = graph[m].root /\ graph'[m].turn = graph[m].turn
                            /\ graph'[m].status <=> graph[m].status
  BY <1>1, ShapesStay
<1>3. \A m \in Present : graph[m].state = "completed" => graph'[m].state = "completed"
  OBVIOUS
<1>4. /\ stored' \in Graphs /\ NodesAreSound(stored') /\ Entered(stored)'
      /\ StoreFollows' /\ (~SlowStop => StoreTells')
  BY <1>1, <1>3, RunnerStores
<1>5. /\ Message[d] \in Present /\ graph[Message[d]].turn = d
      /\ \A m \in Present : graph[m].turn = d => m = Message[d]
  BY OwnTurn
<1>6. /\ task' \in [Deliveries -> Tasks]
      /\ \A x \in Deliveries : x # d => task'[x] = task[x]
      /\ task'[d] = "running" \/ task'[d] = "unwinding"
  BY <1>0 DEF Tasks
<1>7. Typed'
  BY <1>4, <1>6 DEF TreesInv, Typed
<1>8. AllHaveEntered' /\ NodesAreSound(command.snapshot)'
  BY <1>2, <1>4, <1>6 DEF TreesInv, AllHaveEntered, Entered
<1>9. \A m \in Present : graph'[m].state \in {"pending", "in_progress"} =>
        m \notin S /\ graph'[m].state = graph[m].state
  OBVIOUS
<1>10. \A m \in Present : graph[m].turn \in Deliveries /\ graph[m].root \in Messages /\ m \in Messages
  BY <1>0, NodesAre DEF Present
<1>11. ClaimsAreSound'
  <2>1. (\A m \in Present : graph[m].state = "pending" => task[graph[m].turn] = "none")'
    <3>1. ASSUME NEW m \in Present, graph'[m].state = "pending"
          PROVE  task'[graph[m].turn] = "none"
      <4>1. graph[m].state = "pending"
        BY <1>9, <3>1
      <4>2. task[graph[m].turn] = "none"
        BY <4>1 DEF TreesInv, ClaimsAreSound
      <4> QED
        BY <1>6, <1>10, <4>2
    <3> QED
      BY <1>2, <3>1
  <2>2. (\A m \in Present :
          task[graph[m].turn] \notin Ended => active[graph[m].root] = graph[m].turn)'
    <3>1. ASSUME NEW m \in Present, task'[graph[m].turn] \notin Ended
          PROVE  active[graph[m].root] = graph[m].turn
      <4>1. task[graph[m].turn] \notin Ended
        BY <1>6, <1>10, <3>1 DEF Ended
      <4> QED
        BY <4>1 DEF TreesInv, ClaimsAreSound
    <3> QED
      BY <1>2, <3>1
  <2>3. (\A q \in Messages : active[q] # NoClaim /\ ~cancelled[q] =>
          /\ Message[active[q]] \in Tree(q)
          /\ graph[Message[active[q]]].turn = active[q])'
    BY <1>2 DEF TreesInv, ClaimsAreSound, Tree
  <2> QED
    BY <2>1, <2>2, <2>3 DEF TreesInv, ClaimsAreSound
<1>12. QueuesMove'
  <2> SUFFICES ASSUME NEW s \in Messages
               PROVE  /\ Range(queue'[s]) = {m \in Tree(s) : graph'[m].state = "pending"}
                      /\ IsInjective(queue'[s])
                      /\ queue'[s] # << >> => active[s] # NoClaim
                      /\ active[s] # NoClaim => task'[active[s]] \notin Ended
    BY <1>2 DEF QueuesMove
  <2>1. /\ Range(queue[s]) = {m \in Tree(s) : graph[m].state = "pending"}
        /\ queue[s] # << >> => active[s] # NoClaim
        /\ active[s] # NoClaim => task[active[s]] \notin Ended
    BY DEF TreesInv, QueuesMove
  <2>2. Range(queue'[s]) = {m \in Tree(s) : graph'[m].state = "pending"}
    <3>1. Range(queue'[s]) = Range(queue[s]) \ S
      OBVIOUS
    <3>2. \A m \in Tree(s) : m \in Present
      BY DEF Tree
    <3>3. \A m \in Tree(s) : graph'[m].state = "pending" <=> graph[m].state = "pending" /\ m \notin S
      BY <1>9, <3>2
    <3> QED
      BY <2>1, <3>1, <3>3
  <2>3. queue'[s] # << >> => queue[s] # << >>
    BY <1>0, EmptyQueue
  <2>4. active[s] # NoClaim => task'[active[s]] \notin Ended
    BY <1>0, <1>6, <2>1 DEF Ended
  <2> QED
    BY <2>1, <2>2, <2>3, <2>4
<1>13. RunnersAreOwned'
  <2>1. ASSUME NEW x \in Deliveries, task'[x] \in {"launched", "running"}
        PROVE  \E s \in Messages : Owns(x, s)'
    <3>1. task[x] \in {"launched", "running"}
      BY <1>6, <2>1
    <3>2. PICK s \in Messages : Owns(x, s)
      BY <3>1 DEF TreesInv, RunnersAreOwned
    <3> QED
      BY <1>2, <3>2 DEF Owns, IsActive
  <2>2. ASSUME NEW m \in Present, graph'[m].state = "in_progress"
        PROVE  task'[graph[m].turn] \in {"launched", "running"}
    <3>1. task[graph[m].turn] \in {"launched", "running"} /\ m \notin S
      BY <1>9, <2>2 DEF TreesInv, RunnersAreOwned
    <3>2. CASE graph[m].turn # d
      BY <1>6, <1>10, <3>1, <3>2
    <3>3. CASE graph[m].turn = d
      BY <1>5, <2>2, <3>1, <3>3
    <3> QED
      BY <3>2, <3>3
  <2> QED
    BY <1>2, <2>1, <2>2 DEF RunnersAreOwned
<1>14. InTime'
  <2> SUFFICES ASSUME ~SlowStop PROVE (StoreTells /\ NobodyIsNameless /\ CancelledIsAwaited /\ WaitingIsFresh)'
    BY DEF InTime
  <2>1. NobodyIsNameless /\ CancelledIsAwaited /\ WaitingIsFresh
    BY DEF TreesInv, InTime
  <2>2. NobodyIsNameless'
    <3>1. ASSUME NEW m \in Present, ~graph[m].status
          PROVE  \/ task'[graph[m].turn] \in Ended
                 \/ command.phase = "draining" /\ graph[m].turn \in command.waits
      <4>1. \/ task[graph[m].turn] \in Ended
            \/ command.phase = "draining" /\ graph[m].turn \in command.waits
        BY <2>1, <3>1 DEF NobodyIsNameless
      <4> QED
        BY <1>6, <1>10, <4>1 DEF Ended
    <3> QED
      BY <1>2, <3>1 DEF NobodyIsNameless
  <2>3. WaitingIsFresh'
    BY <1>2, <1>9, <2>1 DEF WaitingIsFresh
  <2>4. CancelledIsAwaited'
    BY <2>1 DEF CancelledIsAwaited
  <2> QED
    BY <1>4, <2>2, <2>3, <2>4
<1> QED
  BY <1>2, <1>4, <1>7, <1>8, <1>11, <1>12, <1>13, <1>14 DEF TreesInv

\* The queue of a tree has its pending turns, each once.
LEMMA QueueIs ==
  ASSUME TreesInv, NEW s \in Messages
  PROVE  /\ queue[s] \in Seq(Messages) /\ IsInjective(queue[s])
         /\ \A m \in Range(queue[s]) :
              m \in Present /\ graph[m].root = s /\ graph[m].state = "pending"
         /\ \A m \in Present : graph[m].root = s /\ graph[m].state = "pending" => m \in Range(queue[s])
BY DEF TreesInv, Typed, QueuesMove, Tree

\* A node that is set to another, of the same shape.
LEMMA NodeSetIs ==
  ASSUME NEW g \in Graphs, NEW m \in DOMAIN g, NEW node \in Nodes, NEW h,
         h = [g EXCEPT ![m] = node],
         node.turn = g[m].turn, node.root = g[m].root, node.status <=> g[m].status
  PROVE  /\ h \in Graphs /\ SameShape(g, h) /\ h[m] = node
         /\ \A n \in DOMAIN g : n # m => h[n] = g[n]
<1>1. g \in [DOMAIN g -> Nodes] /\ DOMAIN g \subseteq Messages
  BY GraphsAre
<1>2. h \in [DOMAIN g -> Nodes]
  BY <1>1
<1> QED
  BY <1>1, <1>2, GraphsAre DEF SameShape

\* A runner that records its session changes and saves its own node.
LEMMA RecordSessionKeeps ==
  ASSUME TreesInv, NEW d \in Deliveries, NEW r \in Messages, RecordSession(d, r)
  PROVE  TreesInv'
<1>1. /\ task[d] = "running" /\ Owns(d, r) /\ task' = task /\ queue' = queue
      /\ graph' = [graph EXCEPT ![Message[d]].session = TRUE]
      /\ stored' = WithTree(graph', r)
      /\ UNCHANGED <<intake, fresh, active, cancelled, command, restarts>>
  BY DEF RecordSession, Store
<1>2. Message[d] \in Present /\ graph \in Graphs /\ queue \in [Messages -> Seq(Messages)]
  BY <1>1, OwnTurn DEF TreesInv, Typed
<1>3. /\ graph' \in Graphs /\ SameShape(graph, graph')
      /\ \A n \in Present : graph'[n].state = graph[n].state
  <2> DEFINE m == Message[d]
             node == [graph[m] EXCEPT !.session = TRUE]
  <2>1. m \in DOMAIN graph /\ graph[m] \in Nodes
    BY <1>2, NodesAre DEF Present
  <2>2. /\ node \in Nodes /\ node.state = graph[m].state
        /\ node.turn = graph[m].turn /\ node.root = graph[m].root /\ (node.status <=> graph[m].status)
    BY <2>1 DEF Nodes
  <2>3. graph' = [graph EXCEPT ![m] = node]
    BY <1>1
  <2> HIDE DEF m, node
  <2>4. /\ graph' \in Graphs /\ SameShape(graph, graph') /\ graph'[m] = node
        /\ \A n \in DOMAIN graph : n # m => graph'[n] = graph[n]
    BY <1>2, <2>1, <2>2, <2>3, NodeSetIs
  <2> QED
    BY <2>2, <2>4 DEF Present
<1>4. {} \in SUBSET Tree(r) /\ Present \ {} = Present
  OBVIOUS
<1>5. /\ queue' \in [Messages -> Seq(Messages)]
      /\ \A s \in Messages : Range(queue'[s]) = Range(queue[s]) \ {} /\ IsInjective(queue'[s])
  BY <1>1, <1>2, QueueIs
<1> QED
  BY <1>1, <1>3, <1>4, <1>5, RunnerKeeps

\* A runner that completes its turn changes and saves its own node.
LEMMA SucceedKeeps ==
  ASSUME TreesInv, NEW d \in Deliveries, NEW r \in Messages, Succeed(d, r)
  PROVE  TreesInv'
<1> DEFINE m == Message[d]
<1>1. /\ task[d] = "running" /\ Owns(d, r) /\ task' = task /\ queue' = queue
      /\ graph[m].state \in {"in_progress", "error"}
      /\ stored' = WithTree(graph', r)
      /\ UNCHANGED <<intake, fresh, active, cancelled, command, restarts>>
  BY DEF Succeed, Store
<1>2. /\ m \in Present /\ graph[m].root = r /\ graph \in Graphs
      /\ queue \in [Messages -> Seq(Messages)]
  BY <1>1, OwnTurn DEF TreesInv, Typed
<1>3. PICK b \in {TRUE, graph[m].session} :
        graph' = [graph EXCEPT ![m].state = "completed", ![m].session = b]
  BY DEF Succeed
<1>4. b \in BOOLEAN /\ "completed" \in States
  BY <1>2, <1>3, NodesAre DEF Present, States
<1>5. /\ graph' \in Graphs /\ SameShape(graph, graph') /\ graph'[m].state = "completed"
      /\ \A n \in Present : n # m => graph'[n].state = graph[n].state
  <2> DEFINE node == [[graph[m] EXCEPT !.state = "completed"] EXCEPT !.session = b]
  <2>1. m \in DOMAIN graph /\ graph[m] \in Nodes
    BY <1>2, NodesAre DEF Present
  <2>2. /\ node \in Nodes /\ node.state = "completed"
        /\ node.turn = graph[m].turn /\ node.root = graph[m].root /\ (node.status <=> graph[m].status)
    BY <1>4, <2>1 DEF Nodes
  <2>3. graph' = [graph EXCEPT ![m] = node]
    BY <1>2, <1>3, GraphsAre
  <2> HIDE DEF m, node
  <2>4. /\ graph' \in Graphs /\ SameShape(graph, graph') /\ graph'[m] = node
        /\ \A n \in DOMAIN graph : n # m => graph'[n] = graph[n]
    BY <1>2, <2>1, <2>2, <2>3, NodeSetIs
  <2> QED
    BY <2>2, <2>4 DEF Present
<1>6. {m} \in SUBSET Tree(r)
  BY <1>2 DEF Tree
<1>7. /\ queue' \in [Messages -> Seq(Messages)]
      /\ \A s \in Messages : Range(queue'[s]) = Range(queue[s]) \ {m} /\ IsInjective(queue'[s])
  <2>1. \A s \in Messages : m \notin Range(queue[s]) /\ IsInjective(queue[s])
    BY <1>1, QueueIs
  <2> QED
    BY <1>1, <1>2, <2>1
<1> HIDE DEF m
<1>8. \A n \in {m} : /\ n = Message[d] \/ graph[n].state = "pending"
                     /\ graph[n].state # "completed"
                     /\ graph'[n].state \in {"completed", "error"}
  BY <1>1, <1>5 DEF m
<1>9. \A n \in Present \ {m} : graph'[n].state = graph[n].state
  BY <1>5
<1> QED
  BY <1>1, <1>5, <1>6, <1>7, <1>8, <1>9, RunnerKeeps

\* Turns of one tree are taken out of its queue.
LEMMA QueueLoses ==
  ASSUME TreesInv, NEW r \in Messages, NEW S,
         \A m \in S : m \in Present => graph[m].root = r,
         queue' = [queue EXCEPT ![r] = Dequeued(queue[r], S)]
  PROVE  /\ queue' \in [Messages -> Seq(Messages)]
         /\ \A s \in Messages : Range(queue'[s]) = Range(queue[s]) \ S /\ IsInjective(queue'[s])
<1>1. queue \in [Messages -> Seq(Messages)]
  BY DEF TreesInv, Typed
<1>2. /\ Dequeued(queue[r], S) \in Seq(Messages)
      /\ Range(Dequeued(queue[r], S)) = Range(queue[r]) \ S
      /\ IsInjective(Dequeued(queue[r], S))
  BY <1>1, QueueIs, RestOfMessages
<1>3. queue' \in [Messages -> Seq(Messages)]
  BY <1>1, <1>2
<1>4. ASSUME NEW s \in Messages
      PROVE  Range(queue'[s]) = Range(queue[s]) \ S /\ IsInjective(queue'[s])
  <2>1. CASE s = r
    BY <1>1, <1>2, <2>1
  <2>2. CASE s # r
    <3>1. queue'[s] = queue[s] /\ IsInjective(queue[s])
      BY <1>1, <2>2, QueueIs
    <3>2. Range(queue[s]) \ S = Range(queue[s])
      BY <2>2, QueueIs
    <3> QED
      BY <3>1, <3>2
  <2> QED
    BY <2>1, <2>2
<1> QED
  BY <1>3, <1>4

\* A failure marks the turn and, if it is passed on, pending turns below it.
LEMMA FailedTurnsAre ==
  ASSUME TreesInv, NEW d \in Deliveries, NEW r \in Messages, Owns(d, r), NEW propagate
  PROVE  LET S == FailedTurns(Message[d], propagate) IN
         /\ S \subseteq Tree(r)
         /\ \A m \in S : /\ m = Message[d] \/ graph[m].state = "pending"
                         /\ graph[m].state # "completed"
         /\ graph[Message[d]].state # "completed" => Message[d] \in S
<1>1. Message[d] \in Present /\ graph[Message[d]].root = r
  BY OwnTurn
<1> QED
  BY <1>1 DEF FailedTurns, Descendants, Below, Tree

\* fail_claim, whatever follows it.
LEMMA FailKeeps ==
  ASSUME TreesInv, NEW d \in Deliveries, NEW r \in Messages, NEW propagate,
         task[d] = "running", Fail(d, r, propagate),
         UNCHANGED <<intake, fresh, active, cancelled, command, restarts>>,
         task' = task \/ task' = [task EXCEPT ![d] = "unwinding"]
  PROVE  TreesInv'
<1> DEFINE S == FailedTurns(Message[d], propagate)
<1>1. /\ Owns(d, r) /\ graph' = Marked(graph, S)
      /\ queue' = [queue EXCEPT ![r] = Dequeued(queue[r], S)]
      /\ stored' = WithTree(graph', r)
  BY DEF Fail, Store
<1>2. /\ S \subseteq Tree(r)
      /\ \A m \in S : /\ m = Message[d] \/ graph[m].state = "pending"
                      /\ graph[m].state # "completed"
      /\ graph[Message[d]].state # "completed" => Message[d] \in S
  BY <1>1, FailedTurnsAre
<1> HIDE DEF S
<1>3. graph \in Graphs
  BY DEF TreesInv, Typed
<1>4. /\ graph' \in Graphs /\ SameShape(graph, graph')
      /\ \A m \in Present : /\ m \in S => graph'[m].state = "error"
                            /\ m \notin S => graph'[m].state = graph[m].state
  BY <1>1, <1>3, MarkedIs DEF Present
<1>5. \A m \in S : m \in Present /\ graph[m].root = r
  BY <1>2 DEF Tree
<1>6. /\ queue' \in [Messages -> Seq(Messages)]
      /\ \A s \in Messages : Range(queue'[s]) = Range(queue[s]) \ S /\ IsInjective(queue'[s])
  BY <1>1, <1>5, QueueLoses
<1>7. \A m \in S : /\ m = Message[d] \/ graph[m].state = "pending"
                   /\ graph[m].state # "completed"
                   /\ graph'[m].state \in {"completed", "error"}
  BY <1>2, <1>4, <1>5
<1>8. \A m \in Present \ S : graph'[m].state = graph[m].state
  BY <1>4
<1>9. \/ task' = task
      \/ /\ task' = [task EXCEPT ![d] = "unwinding"]
         /\ Message[d] \in S \/ graph[Message[d]].state = "completed"
  BY <1>2
<1> QED
  BY <1>1, <1>2, <1>4, <1>6, <1>7, <1>8, <1>9, RunnerKeeps

\* Whatever a runner does keeps the invariant.
LEMMA RunKeeps ==
  ASSUME TreesInv, NEW d \in Deliveries, NEW r \in Messages, Run(d, r)
  PROVE  TreesInv'
<1>1. CASE RecordSession(d, r)
  BY <1>1, RecordSessionKeeps
<1>2. CASE Succeed(d, r)
  BY <1>2, SucceedKeeps
<1>3. CASE ErrorEvent(d, r)
  BY <1>3, FailKeeps DEF ErrorEvent
<1>4. CASE SessionRefused(d, r)
  BY <1>4, FailKeeps DEF SessionRefused, Move
<1>5. CASE RunnerRaises(d, r)
  BY <1>5, FailKeeps DEF RunnerRaises, Move
<1>6. CASE EndsBadly(d, r)
  BY <1>6, FailKeeps DEF EndsBadly, Move
<1>7. CASE EndsWell(d, r)
  BY <1>7, EndsWellKeeps
<1> QED
  BY <1>1, <1>2, <1>3, <1>4, <1>5, <1>6, <1>7 DEF Run

-----------------------------------------------------------------------------
(* The end of a turn.                                                       *)

\* The store when only states have changed and nothing was saved.
LEMMA StoreStands ==
  ASSUME TreesInv, graph' \in Graphs, SameShape(graph, graph'),
         \A m \in Present : Legible(graph'[m]),
         \A m \in Present : graph[m].state = "completed" => graph'[m].state = "completed",
         UNCHANGED <<stored, command, intake>>
  PROVE  /\ NodesAreSound(stored') /\ Entered(stored)'
         /\ NodesAreSound(command.snapshot)' /\ Entered(command.snapshot)'
         /\ StoreFollows'
         /\ ~SlowStop => StoreTells'
<1>1. /\ Present' = Present /\ Touched' = Touched
      /\ \A m \in Present : /\ graph'[m].root = graph[m].root
                            /\ graph'[m].status <=> graph[m].status
  BY ShapesStay DEF Touched
<1>2. /\ NodesAreSound(stored') /\ Entered(stored)'
      /\ NodesAreSound(command.snapshot)' /\ Entered(command.snapshot)'
  BY DEF TreesInv, AllHaveEntered, Entered
<1>3. StoreFollows'
  BY <1>1 DEF TreesInv, StoreFollows
<1>4. ASSUME ~SlowStop PROVE StoreTells'
  <2>1. StoreTells
    BY <1>4 DEF TreesInv, InTime
  <2>2. \A m \in Present : /\ Tells(stored, m) => Tells(stored, m)'
                           /\ Tells(command.snapshot, m) => Tells(command.snapshot, m)'
    BY <1>1 DEF Tells
  <2> QED
    BY <1>1, <2>1, <2>2 DEF StoreTells
<1> QED
  BY <1>2, <1>3, <1>4

\* The turn at the head of a queue.
LEMMA HeadIs ==
  ASSUME TreesInv, NEW r \in Messages, queue[r] # << >>
  PROVE  /\ 1 \in DOMAIN queue[r] /\ queue[r][1] \in Present
         /\ graph[queue[r][1]].root = r /\ graph[queue[r][1]].state = "pending"
         /\ graph[queue[r][1]].turn \in Deliveries
         /\ Message[graph[queue[r][1]].turn] = queue[r][1]
         /\ task[graph[queue[r][1]].turn] = "none"
         /\ intake[graph[queue[r][1]].turn] = "gone"
         /\ graph[queue[r][1]].status
<1> DEFINE m == queue[r][1]
<1>1. 1 \in DOMAIN queue[r] /\ m \in Range(queue[r])
  BY QueueIs, MessagesBehind DEF Range
<1>2. m \in Present /\ graph[m].root = r /\ graph[m].state = "pending"
  BY <1>1, QueueIs
<1> HIDE DEF m
<1>3. graph[m].turn \in Deliveries /\ graph[m].status \in BOOLEAN
  BY <1>2, NodesAre DEF TreesInv, Typed, Present
<1>4. Message[graph[m].turn] = m /\ graph[m].status
  BY <1>2, <1>3 DEF TreesInv, NodesAreSound, NodeIsSound, Legible, Interrupted, Present
<1>5. task[graph[m].turn] = "none" /\ intake[graph[m].turn] = "gone"
  BY <1>2 DEF TreesInv, ClaimsAreSound, AllHaveEntered, Entered, Present
<1> QED
  BY <1>1, <1>2, <1>3, <1>4, <1>5 DEF m

\* Everything that waits waits: the first of the queue is the first that waits.
LEMMA WaitingIs ==
  ASSUME TreesInv, NEW r \in Messages
  PROVE  Waiting(r) = DOMAIN queue[r]
BY QueueIs DEF Waiting, Range, Tree

\* A task that ends with turns waiting launches the one at the head of the queue.
LEMMA ContinueIs ==
  ASSUME TreesInv, NEW d \in Deliveries, NEW r \in Messages, FinishAndContinue(d, r)
  PROVE  LET m == queue[r][1]  t == graph[m].turn IN
         /\ queue[r] # << >> /\ Finishing(d) /\ active[r] = d
         /\ graph' = [graph EXCEPT ![m].state = "in_progress"]
         /\ queue' = [queue EXCEPT ![r] = SubSeq(queue[r], 2, Len(queue[r]))]
         /\ active' = [active EXCEPT ![r] = t]
         /\ cancelled' = [cancelled EXCEPT ![r] = FALSE]
         /\ task' = [[task EXCEPT ![t] = "launched"] EXCEPT ![d] = "done"]
         /\ UNCHANGED <<intake, fresh, command, stored, restarts>>
<1>1. PICK i \in Waiting(r) : (\A j \in Waiting(r) : i <= j) /\ ClaimNext(d, r, i)
  BY DEF FinishAndContinue
<1>2. queue[r] \in Seq(Messages) /\ IsInjective(queue[r]) /\ i \in DOMAIN queue[r]
  BY <1>1, QueueIs, WaitingIs
<1>3. queue[r] # << >> /\ DOMAIN queue[r] = 1 .. Len(queue[r])
  BY <1>2
<1>4. 1 \in DOMAIN queue[r]
  BY <1>2, <1>3
<1>5. i = 1
  <2>1. i <= 1
    BY <1>1, <1>4, WaitingIs
  <2>2. Len(queue[r]) \in Nat /\ i \in 1 .. Len(queue[r])
    BY <1>2, <1>3
  <2> QED
    BY <2>1, <2>2
<1>6. ClaimNext(d, r, 1) /\ 1 + 1 = 2
  BY <1>1, <1>5
<1>7. /\ graph' = [graph EXCEPT ![queue[r][1]].state = "in_progress"]
      /\ queue' = [queue EXCEPT ![r] = SubSeq(queue[r], 2, Len(queue[r]))]
      /\ active' = [active EXCEPT ![r] = graph[queue[r][1]].turn]
      /\ cancelled' = [cancelled EXCEPT ![r] = FALSE]
      /\ task' = [[task EXCEPT ![graph[queue[r][1]].turn] = "launched"] EXCEPT ![d] = "done"]
  BY <1>6 DEF ClaimNext, Launched
<1> QED
  BY <1>3, <1>7 DEF FinishAndContinue

\* The end of a turn and the launch of the next are one step: the claim passes from the one
\* to the other.
LEMMA FinishAndContinueKeeps ==
  ASSUME TreesInv, NEW d \in Deliveries, NEW r \in Messages, FinishAndContinue(d, r)
  PROVE  TreesInv'
<1> DEFINE m == queue[r][1]
           t == graph[m].turn
<1>1. /\ queue[r] # << >> /\ Finishing(d) /\ active[r] = d
      /\ graph' = [graph EXCEPT ![m].state = "in_progress"]
      /\ queue' = [queue EXCEPT ![r] = SubSeq(queue[r], 2, Len(queue[r]))]
      /\ active' = [active EXCEPT ![r] = t]
      /\ cancelled' = [cancelled EXCEPT ![r] = FALSE]
      /\ task' = [[task EXCEPT ![t] = "launched"] EXCEPT ![d] = "done"]
      /\ UNCHANGED <<intake, fresh, command, stored, restarts>>
  BY ContinueIs
<1>2. /\ m \in Present /\ m \in Messages /\ graph[m].root = r /\ graph[m].state = "pending"
      /\ t \in Deliveries /\ Message[t] = m /\ task[t] = "none" /\ intake[t] = "gone" /\ graph[m].status
  BY <1>1, HeadIs DEF TreesInv, Typed, Graphs, Present
<1>3. task[d] \in {"unwinding", "recovering"} /\ t # d
  BY <1>1, <1>2 DEF Finishing, Recovered
<1>4. /\ task \in [Deliveries -> Tasks] /\ graph \in Graphs
      /\ active \in [Messages -> Deliveries \cup {NoClaim}] /\ NoClaim \notin Deliveries
      /\ cancelled \in [Messages -> BOOLEAN] /\ queue \in [Messages -> Seq(Messages)]
  BY TreesAssumption DEF TreesInv, Typed, TreesAssumption
<1>5. /\ graph' \in Graphs /\ SameShape(graph, graph')
      /\ graph'[m].state = "in_progress"
      /\ \A n \in Present : n # m => graph'[n] = graph[n]
  <2> DEFINE node == [graph[m] EXCEPT !.state = "in_progress"]
  <2>1. m \in DOMAIN graph /\ graph[m] \in Nodes
    BY <1>2, <1>4, NodesAre DEF Present
  <2>2. /\ node \in Nodes /\ node.state = "in_progress"
        /\ node.turn = graph[m].turn /\ node.root = graph[m].root
        /\ node.status <=> graph[m].status
    BY <2>1 DEF Nodes, States
  <2>3. graph' = [graph EXCEPT ![m] = node]
    BY <1>1
  <2> HIDE DEF m, node, t
  <2>4. /\ graph' \in Graphs /\ SameShape(graph, graph') /\ graph'[m] = node
        /\ \A n \in DOMAIN graph : n # m => graph'[n] = graph[n]
    BY <1>4, <2>1, <2>2, <2>3, NodeSetIs
  <2> QED
    BY <2>2, <2>4 DEF Present
<1>6. /\ SubSeq(queue[r], 2, Len(queue[r])) \in Seq(Messages)
      /\ Range(SubSeq(queue[r], 2, Len(queue[r]))) = Range(queue[r]) \ {m}
      /\ IsInjective(SubSeq(queue[r], 2, Len(queue[r])))
  BY <1>1, QueueIs, MessagesBehind
<1> HIDE DEF m, t
<1>7. /\ task' \in [Deliveries -> Tasks] /\ task'[t] = "launched" /\ task'[d] = "done"
      /\ \A x \in Deliveries : x # t /\ x # d => task'[x] = task[x]
  BY <1>1, <1>2, <1>3, <1>4 DEF Tasks, Ended
<1>8. /\ active' \in [Messages -> Deliveries \cup {NoClaim}] /\ active'[r] = t
      /\ \A s \in Messages : s # r => active'[s] = active[s]
      /\ cancelled' \in [Messages -> BOOLEAN] /\ ~cancelled'[r]
      /\ \A s \in Messages : s # r => (cancelled'[s] <=> cancelled[s])
  BY <1>1, <1>2, <1>4
<1>9. /\ queue' \in [Messages -> Seq(Messages)]
      /\ \A s \in Messages : s # r => queue'[s] = queue[s]
      /\ Range(queue'[r]) = Range(queue[r]) \ {m} /\ IsInjective(queue'[r])
  BY <1>1, <1>4, <1>6
<1>10. \A n \in Present : Legible(graph'[n])
  <2>1. \A n \in Present : Legible(graph[n])
    BY DEF TreesInv, NodesAreSound, NodeIsSound, Present
  <2> QED
    BY <1>2, <1>5, <2>1 DEF Legible, SameShape, Present
<1>11. \A n \in Present : graph[n].state = "completed" => graph'[n].state = "completed"
  BY <1>2, <1>5
<1>12. /\ Present' = Present /\ NodesAreSound(graph)' /\ Entered(graph)'
       /\ \A s \in Messages : Tree(s)' = Tree(s)
       /\ \A n \in Present : /\ graph'[n].root = graph[n].root /\ graph'[n].turn = graph[n].turn
                             /\ graph'[n].status <=> graph[n].status
  BY <1>1, <1>5, <1>10, ShapesStay
<1>13. /\ NodesAreSound(stored') /\ Entered(stored)'
       /\ NodesAreSound(command.snapshot)' /\ Entered(command.snapshot)'
       /\ StoreFollows' /\ (~SlowStop => StoreTells')
  BY <1>1, <1>5, <1>10, <1>11, StoreStands
<1>14. Typed'
  BY <1>1, <1>5, <1>7, <1>8, <1>9 DEF TreesInv, Typed
<1>15. AllHaveEntered'
  BY <1>1, <1>2, <1>3, <1>7, <1>12, <1>13 DEF TreesInv, AllHaveEntered
<1>16. \A n \in Present : /\ n \in Messages /\ graph[n].turn \in Deliveries /\ graph[n].root \in Messages
                          /\ n # m => graph[n].turn # t
  <2>1. \A n \in Present : /\ n \in Messages /\ graph[n].turn \in Deliveries /\ graph[n].root \in Messages
                           /\ Message[graph[n].turn] = n
    BY <1>4, NodesAre DEF TreesInv, NodesAreSound, NodeIsSound, Present
  <2> QED
    BY <1>2, <2>1
<1>17. /\ \A s \in Messages : active[s] # NoClaim => task[active[s]] \notin Ended
       /\ \A s \in Messages : active[s] # t /\ (s # r => active[s] # d)
  <2>1. \A s \in Messages : active[s] # NoClaim => task[active[s]] \notin Ended
    BY DEF TreesInv, QueuesMove
  <2>2. \A s \in Messages : s # r => active[s] # d
    BY <1>1, <1>4 DEF TreesInv, ClaimsAreSound
  <2> QED
    BY <1>2, <1>4, <2>1, <2>2 DEF Ended
<1>18. ClaimsAreSound'
  <2>1. ASSUME NEW n \in Present, graph'[n].state = "pending" PROVE task'[graph[n].turn] = "none"
    <3>1. n # m /\ graph[n].state = "pending"
      BY <1>5, <2>1
    <3>2. task[graph[n].turn] = "none"
      BY <3>1 DEF TreesInv, ClaimsAreSound
    <3> QED
      BY <1>3, <1>7, <1>16, <3>1, <3>2
  <2>2. \A s, q \in Messages : active'[s] = active'[q] /\ active'[s] # NoClaim => s = q
    BY <1>8, <1>17 DEF TreesInv, ClaimsAreSound
  <2>3. ASSUME NEW s \in Messages, active'[s] # NoClaim, ~cancelled'[s]
        PROVE  Message[active'[s]] \in Tree(s) /\ graph'[Message[active'[s]]].turn = active'[s]
    <3>1. CASE s = r
      BY <1>2, <1>8, <1>12, <3>1 DEF Tree, t
    <3>2. CASE s # r
      <4>1. Message[active[s]] \in Tree(s) /\ graph[Message[active[s]]].turn = active[s]
        BY <1>8, <2>3, <3>2 DEF TreesInv, ClaimsAreSound
      <4> QED
        BY <1>8, <1>12, <3>2, <4>1 DEF Tree
    <3> QED
      BY <3>1, <3>2
  <2>4. ASSUME NEW n \in Present, task'[graph[n].turn] \notin Ended
        PROVE  active'[graph[n].root] = graph[n].turn
    <3>1. CASE n = m
      BY <1>2, <1>8, <3>1 DEF t
    <3>2. CASE n # m
      <4>1. graph[n].turn # t /\ graph[n].turn # d
        BY <1>7, <1>16, <2>4, <3>2 DEF Ended
      <4>2. active[graph[n].root] = graph[n].turn
        BY <1>7, <1>16, <2>4, <4>1 DEF TreesInv, ClaimsAreSound
      <4> QED
        BY <1>1, <1>8, <1>16, <4>1, <4>2
    <3> QED
      BY <3>1, <3>2
  <2>5. \A s \in Messages : cancelled'[s] => active'[s] # NoClaim
    BY <1>8 DEF TreesInv, ClaimsAreSound
  <2> QED
    BY <1>12, <2>1, <2>2, <2>3, <2>4, <2>5 DEF ClaimsAreSound
<1>19. QueuesMove'
  <2> SUFFICES ASSUME NEW s \in Messages
               PROVE  /\ Range(queue'[s]) = {n \in Tree(s) : graph'[n].state = "pending"}
                      /\ IsInjective(queue'[s])
                      /\ queue'[s] # << >> => active'[s] # NoClaim
                      /\ active'[s] # NoClaim => task'[active'[s]] \notin Ended
    BY <1>12 DEF QueuesMove
  <2>1. /\ Range(queue[s]) = {n \in Tree(s) : graph[n].state = "pending"}
        /\ IsInjective(queue[s])
        /\ queue[s] # << >> => active[s] # NoClaim
        /\ active[s] # NoClaim => task[active[s]] \notin Ended
    BY DEF TreesInv, QueuesMove
  <2>2. \A n \in Tree(s) : n \in Present /\ graph[n].root = s
    BY DEF Tree
  <2>3. CASE s = r
    <3>1. \A n \in Tree(s) : graph'[n].state = "pending" <=> graph[n].state = "pending" /\ n # m
      BY <1>5, <2>2
    <3>2. Range(queue'[s]) = {n \in Tree(s) : graph'[n].state = "pending"}
      BY <1>9, <2>1, <2>3, <3>1
    <3>3. active'[s] = t /\ task'[t] \notin Ended /\ IsInjective(queue'[s])
      BY <1>7, <1>8, <1>9, <2>3 DEF Ended
    <3> QED
      BY <1>2, <1>4, <3>2, <3>3
  <2>4. CASE s # r
    <3>1. \A n \in Tree(s) : graph'[n].state = graph[n].state
      BY <1>2, <1>5, <2>2, <2>4
    <3>2. Range(queue'[s]) = {n \in Tree(s) : graph'[n].state = "pending"}
      BY <1>9, <2>1, <2>4, <3>1
    <3>3. active'[s] = active[s] /\ queue'[s] = queue[s]
      BY <1>8, <1>9, <2>4
    <3>4. active[s] # NoClaim => task'[active[s]] = task[active[s]]
      BY <1>4, <1>7, <1>17, <2>4
    <3> QED
      BY <2>1, <3>2, <3>3, <3>4
  <2> QED
    BY <2>3, <2>4
<1>20. RunnersAreOwned'
  <2>1. ASSUME NEW x \in Deliveries, task'[x] \in {"launched", "running"}
        PROVE  \E s \in Messages : Owns(x, s)'
    <3>1. CASE x = t
      BY <1>2, <1>8, <1>12, <3>1 DEF Owns, IsActive, Tree
    <3>2. CASE x # t
      <4>1. x # d /\ task[x] \in {"launched", "running"}
        BY <1>7, <2>1, <3>2
      <4>2. PICK s \in Messages : Owns(x, s)
        BY <4>1 DEF TreesInv, RunnersAreOwned
      <4>3. s # r
        BY <1>1, <4>1, <4>2 DEF Owns, IsActive
      <4> QED
        BY <1>8, <1>12, <4>2, <4>3 DEF Owns, IsActive
    <3> QED
      BY <3>1, <3>2
  <2>2. ASSUME NEW n \in Present, graph'[n].state = "in_progress"
        PROVE  task'[graph[n].turn] \in {"launched", "running"}
    <3>1. CASE n = m
      BY <1>7, <3>1 DEF t
    <3>2. CASE n # m
      <4>1. task[graph[n].turn] \in {"launched", "running"}
        BY <1>5, <2>2, <3>2 DEF TreesInv, RunnersAreOwned
      <4> QED
        BY <1>3, <1>7, <1>16, <3>2, <4>1
    <3> QED
      BY <3>1, <3>2
  <2> QED
    BY <1>12, <2>1, <2>2 DEF RunnersAreOwned
<1>21. InTime'
  <2> SUFFICES ASSUME ~SlowStop PROVE (StoreTells /\ NobodyIsNameless /\ CancelledIsAwaited /\ WaitingIsFresh)'
    BY DEF InTime
  <2>1. NobodyIsNameless /\ CancelledIsAwaited /\ WaitingIsFresh
    BY DEF TreesInv, InTime
  <2>2. ASSUME NEW n \in Present, ~graph[n].status
        PROVE  \/ task'[graph[n].turn] \in Ended
               \/ command.phase = "draining" /\ graph[n].turn \in command.waits
    <3>1. n # m /\ graph[n].turn # t
      BY <1>2, <1>16, <2>2
    <3>2. \/ task[graph[n].turn] \in Ended
          \/ command.phase = "draining" /\ graph[n].turn \in command.waits
      BY <2>1, <2>2 DEF NobodyIsNameless
    <3> QED
      BY <1>7, <1>16, <3>1, <3>2 DEF Ended
  <2>3. NobodyIsNameless'
    BY <1>1, <1>12, <2>2 DEF NobodyIsNameless
  <2>4. WaitingIsFresh'
    BY <1>1, <1>5, <1>12, <2>1 DEF WaitingIsFresh
  <2>5. CancelledIsAwaited'
    BY <1>1, <1>8, <2>1 DEF CancelledIsAwaited
  <2> QED
    BY <1>13, <2>3, <2>4, <2>5
<1> QED
  BY <1>12, <1>13, <1>14, <1>15, <1>18, <1>19, <1>20, <1>21 DEF TreesInv

\* The end of the last turn of a tree leaves it idle.
LEMMA FinishLastKeeps ==
  ASSUME TreesInv, NEW d \in Deliveries, NEW r \in Messages, FinishLast(d, r)
  PROVE  TreesInv'
<1>1. /\ Finishing(d) /\ active[r] = d /\ Waiting(r) = {}
      /\ queue' = [queue EXCEPT ![r] = << >>]
      /\ active' = [active EXCEPT ![r] = NoClaim]
      /\ cancelled' = [cancelled EXCEPT ![r] = FALSE]
      /\ task' = [task EXCEPT ![d] = "done"]
      /\ UNCHANGED <<intake, fresh, graph, command, stored, restarts>>
  BY DEF FinishLast, Move
<1>2. /\ task \in [Deliveries -> Tasks] /\ graph \in Graphs
      /\ active \in [Messages -> Deliveries \cup {NoClaim}] /\ NoClaim \notin Deliveries
      /\ cancelled \in [Messages -> BOOLEAN] /\ queue \in [Messages -> Seq(Messages)]
  BY TreesAssumption DEF TreesInv, Typed, TreesAssumption
<1>3. task[d] \in {"unwinding", "recovering"}
  BY <1>1 DEF Finishing, Recovered
<1>4. queue[r] = << >>
  <2>1. DOMAIN queue[r] = {}
    BY <1>1, WaitingIs
  <2> QED
    BY <1>2, <2>1, EmptyQueue DEF Range
<1>5. queue' = queue /\ Present' = Present /\ \A s \in Messages : Tree(s)' = Tree(s)
  BY <1>1, <1>2, <1>4 DEF Present, Tree
<1>6. /\ task' \in [Deliveries -> Tasks] /\ task'[d] = "done"
      /\ \A x \in Deliveries : x # d => task'[x] = task[x]
  BY <1>1, <1>2 DEF Tasks, Ended
<1>7. /\ active' \in [Messages -> Deliveries \cup {NoClaim}] /\ active'[r] = NoClaim
      /\ \A s \in Messages : s # r => active'[s] = active[s] /\ active[s] # d
      /\ cancelled' \in [Messages -> BOOLEAN] /\ ~cancelled'[r]
      /\ \A s \in Messages : s # r => (cancelled'[s] <=> cancelled[s])
  BY <1>1, <1>2 DEF TreesInv, ClaimsAreSound
<1>8. /\ NodesAreSound(graph)' /\ NodesAreSound(stored)' /\ NodesAreSound(command.snapshot)'
      /\ StoreFollows'
  BY <1>1 DEF TreesInv, StoreFollows, Present, Touched
<1>9. Typed'
  BY <1>1, <1>5, <1>6, <1>7 DEF TreesInv, Typed
<1>10. AllHaveEntered'
  BY <1>1, <1>3, <1>6 DEF TreesInv, AllHaveEntered, Entered
<1>11. \A n \in Present : /\ graph[n].turn \in Deliveries /\ graph[n].root \in Messages
                          /\ graph[n].state \in {"pending", "in_progress"} => graph[n].turn # d
  <2>1. \A n \in Present : graph[n].turn \in Deliveries /\ graph[n].root \in Messages
    BY <1>2, NodesAre DEF Present
  <2>2. \A n \in Present : /\ graph[n].state = "pending" => task[graph[n].turn] = "none"
                           /\ graph[n].state = "in_progress" =>
                                task[graph[n].turn] \in {"launched", "running"}
    BY DEF TreesInv, ClaimsAreSound, RunnersAreOwned
  <2> QED
    BY <1>3, <2>1, <2>2
<1>12. ClaimsAreSound'
  <2>1. \A n \in Present : graph[n].state = "pending" => task'[graph[n].turn] = "none"
    BY <1>6, <1>11 DEF TreesInv, ClaimsAreSound
  <2>2. /\ \A s, q \in Messages : active'[s] = active'[q] /\ active'[s] # NoClaim => s = q
        /\ \A s \in Messages : cancelled'[s] => active'[s] # NoClaim
    BY <1>7 DEF TreesInv, ClaimsAreSound
  <2>3. ASSUME NEW s \in Messages, active'[s] # NoClaim, ~cancelled'[s]
        PROVE  Message[active'[s]] \in Tree(s) /\ graph[Message[active'[s]]].turn = active'[s]
    BY <1>7, <2>3 DEF TreesInv, ClaimsAreSound
  <2>4. ASSUME NEW n \in Present, task'[graph[n].turn] \notin Ended
        PROVE  active'[graph[n].root] = graph[n].turn
    <3>1. graph[n].turn # d
      BY <1>6, <2>4 DEF Ended
    <3>2. active[graph[n].root] = graph[n].turn
      BY <1>6, <1>11, <2>4, <3>1 DEF TreesInv, ClaimsAreSound
    <3> QED
      BY <1>1, <1>7, <1>11, <3>1, <3>2
  <2> QED
    BY <1>1, <1>5, <2>1, <2>2, <2>3, <2>4 DEF ClaimsAreSound
<1>13. QueuesMove'
  <2> SUFFICES ASSUME NEW s \in Messages
               PROVE  /\ Range(queue[s]) = {n \in Tree(s) : graph[n].state = "pending"}
                      /\ IsInjective(queue[s])
                      /\ queue[s] # << >> => active'[s] # NoClaim
                      /\ active'[s] # NoClaim => task'[active'[s]] \notin Ended
    BY <1>1, <1>5 DEF QueuesMove
  <2>1. /\ Range(queue[s]) = {n \in Tree(s) : graph[n].state = "pending"}
        /\ IsInjective(queue[s])
        /\ queue[s] # << >> => active[s] # NoClaim
        /\ active[s] # NoClaim => task[active[s]] \notin Ended
    BY DEF TreesInv, QueuesMove
  <2>2. CASE s = r
    BY <1>4, <1>7, <2>1, <2>2
  <2>3. CASE s # r
    BY <1>2, <1>6, <1>7, <2>1, <2>3
  <2> QED
    BY <2>2, <2>3
<1>14. RunnersAreOwned'
  <2>1. ASSUME NEW x \in Deliveries, task'[x] \in {"launched", "running"}
        PROVE  \E s \in Messages : Owns(x, s)'
    <3>1. x # d /\ task[x] \in {"launched", "running"}
      BY <1>6, <2>1
    <3>2. PICK s \in Messages : Owns(x, s)
      BY <3>1 DEF TreesInv, RunnersAreOwned
    <3>3. s # r
      BY <1>1, <3>1, <3>2 DEF Owns, IsActive
    <3> QED
      BY <1>5, <1>7, <3>2, <3>3 DEF Owns, IsActive
  <2>2. \A n \in Present : graph[n].state = "in_progress" =>
          task'[graph[n].turn] \in {"launched", "running"}
    BY <1>6, <1>11 DEF TreesInv, RunnersAreOwned
  <2> QED
    BY <1>1, <1>5, <2>1, <2>2 DEF RunnersAreOwned
<1>15. InTime'
  <2> SUFFICES ASSUME ~SlowStop PROVE (StoreTells /\ NobodyIsNameless /\ CancelledIsAwaited /\ WaitingIsFresh)'
    BY DEF InTime
  <2>1. StoreTells /\ NobodyIsNameless /\ CancelledIsAwaited /\ WaitingIsFresh
    BY DEF TreesInv, InTime
  <2>2. StoreTells' /\ WaitingIsFresh'
    BY <1>1, <2>1 DEF StoreTells, WaitingIsFresh, Tells, Present, Touched
  <2>3. NobodyIsNameless'
    BY <1>1, <1>5, <1>6, <1>11, <2>1 DEF NobodyIsNameless, Ended
  <2>4. CancelledIsAwaited'
    BY <1>1, <1>7, <2>1 DEF CancelledIsAwaited
  <2> QED
    BY <2>2, <2>3, <2>4
<1> QED
  BY <1>8, <1>9, <1>10, <1>12, <1>13, <1>14, <1>15 DEF TreesInv

-----------------------------------------------------------------------------
(* Admission.                                                               *)

\* The tree that a delivery would join.
TreeFor(d) == IF intake[d] = "reply" THEN graph[ReplyTo[Message[d]].message].root ELSE Message[d]
\* The node of a turn that has just been admitted.
NewTurn(d, r) == [turn |-> d, root |-> r, status |-> TRUE, session |-> FALSE,
                  state |-> IF Idle(r) THEN "in_progress" ELSE "pending"]

\* An admissible reply joins the tree of the message it replies to, anything else
\* starts a tree of its own.
LEMMA TreeForIs ==
  ASSUME TreesInv, NEW d \in Deliveries, intake[d] \in Provisional, Admissible(d)
  PROVE  /\ Message[d] \in Messages \ Present
         /\ TreeFor(d) \in Messages
         /\ TreeFor(d) # Message[d] =>
              /\ ReplyTo[Message[d]] \in References
              /\ ReplyTo[Message[d]].message \in Present
              /\ graph[ReplyTo[Message[d]].message].root = TreeFor(d)
              /\ ReplyTo[Message[d]].kind = "status" => graph[ReplyTo[Message[d]].message].status
              /\ PromptOf(TreeFor(d)) \in Above[Message[d]]
              /\ TreeFor(d) \in Present /\ graph[TreeFor(d)].root = TreeFor(d)
<1> DEFINE m == Message[d]
           p == ReplyTo[Message[d]].message
<1>1. m \in Messages \ Present
  BY TreesAssumption DEF TreesAssumption, Admissible
<1>2. CASE intake[d] = "reply"
  <2>1. ReplyTo[m] \in References /\ Resolves(ReplyTo[m])
    BY <1>2 DEF TreesInv, AllHaveEntered, Admissible
  <2>2. /\ p \in Present /\ p \in Messages /\ (ReplyTo[m].kind = "status" => graph[p].status)
        /\ TreeFor(d) = graph[p].root
    BY <1>2, <2>1 DEF Resolves, References, TreeFor
  <2>3. NodeIsSound(graph, p) /\ graph[p].root \in Messages
    BY <2>2, NodesAre DEF TreesInv, Typed, NodesAreSound, Present
  <2>4. /\ TreeFor(d) \in Present /\ graph[TreeFor(d)].root = TreeFor(d)
        /\ p # TreeFor(d) => PromptOf(TreeFor(d)) \in Above[p]
    BY <2>2, <2>3 DEF NodeIsSound, Present
  <2>5. PromptOf(p) \in Above[m] /\ Above[p] \subseteq Above[m]
    BY <1>1, <2>1, AboveOfReply
  <2>6. PromptOf(TreeFor(d)) \in Above[m]
    BY <2>4, <2>5
  <2> QED
    BY <1>1, <2>1, <2>2, <2>3, <2>4, <2>6
<1>3. CASE intake[d] # "reply"
  BY <1>1, <1>3 DEF TreeFor
<1> QED
  BY <1>2, <1>3

\* What a graph with a new turn is.
LEMMA AddTurnIs ==
  ASSUME TreesInv, NEW d \in Deliveries, intake[d] \in Provisional, Admissible(d)
  PROVE  LET g == AddTurn(d, TreeFor(d)) IN
         /\ g \in Graphs /\ NodesAreSound(g)
         /\ DOMAIN g = Present \cup {Message[d]}
         /\ g[Message[d]] = NewTurn(d, TreeFor(d))
         /\ \A n \in Present : g[n] = graph[n] /\ n # Message[d]
<1> DEFINE m == Message[d]
           r == TreeFor(d)
           one == [x \in {m} |-> NewTurn(d, r)]
           g == Joined(graph, one)
<1>1. m \in Messages \ Present /\ r \in Messages
  BY TreeForIs
<1>2. graph \in Graphs /\ NodesAreSound(graph) /\ DOMAIN graph = Present
  BY DEF TreesInv, Typed, Present
<1>3. NewTurn(d, r) \in Nodes
  BY <1>1 DEF NewTurn, Nodes, States
<1>4. one \in Graphs /\ DOMAIN one = {m} /\ one[m] = NewTurn(d, r)
  BY <1>1, <1>3, GraphsAre
<1> HIDE DEF one
<1>5. /\ g \in Graphs /\ DOMAIN g = Present \cup {m} /\ g[m] = NewTurn(d, r)
      /\ \A n \in Present : g[n] = graph[n] /\ n # m
  BY <1>1, <1>2, <1>4, JoinedIs
<1>6. AddTurn(d, r) = g
  BY DEF AddTurn, NewTurn, one
<1> HIDE DEF g
<1>7. ASSUME NEW n \in Present PROVE NodeIsSound(g, n)
  BY <1>2, <1>5, SoundInside
<1>8. NodeIsSound(g, m)
  <2>1. /\ g[m].turn = d /\ g[m].root = r /\ g[m].status
    BY <1>5 DEF NewTurn
  <2>2. r \in DOMAIN g /\ g[r].root = r
    BY <1>5, <2>1, TreeForIs
  <2>3. m # r => /\ ReplyTo[m] \in References
                 /\ ReplyTo[m].message \in DOMAIN g
                 /\ g[ReplyTo[m].message].root = r
                 /\ ReplyTo[m].kind = "status" => g[ReplyTo[m].message].status
                 /\ PromptOf(r) \in Above[m]
    BY <1>5, TreeForIs
  <2> HIDE DEF r
  <2> QED
    BY <2>1, <2>2, <2>3 DEF NodeIsSound, Legible
<1> QED
  BY <1>5, <1>6, <1>7, <1>8 DEF NodesAreSound

\* An admission publishes a sound node, launches it or queues it, and saves its tree.
LEMMA AdmitKeeps ==
  ASSUME TreesInv, NEW d \in Deliveries, Admit(d)
  PROVE  TreesInv'
<1>0. PICK r \in Messages : r = TreeFor(d)
  BY TreeForIs DEF Admit
<1> DEFINE m == Message[d]
           node == NewTurn(d, r)
<1>1. /\ command.phase = "none" /\ intake[d] \in Provisional /\ Admissible(d) /\ d \in fresh
      /\ intake' = [intake EXCEPT ![d] = "gone"]
      /\ graph' = AddTurn(d, r)
      /\ stored' = WithTree(graph', r)
      /\ EnqueueOrClaim(d, r)
      /\ UNCHANGED <<fresh, cancelled, command, restarts>>
  BY <1>0 DEF Admit, StateLockFree, TreeFor, Admissible
<1>2. /\ m \in Messages \ Present /\ r \in Messages
      /\ graph' \in Graphs /\ NodesAreSound(graph')
      /\ DOMAIN graph' = Present \cup {m} /\ graph'[m] = node
      /\ \A n \in Present : graph'[n] = graph[n] /\ n # m
  BY <1>0, <1>1, TreeForIs, AddTurnIs
<1>3. /\ node.turn = d /\ node.root = r /\ node.status
      /\ node.state = IF Idle(r) THEN "in_progress" ELSE "pending"
  BY DEF NewTurn
<1> HIDE DEF m, node
<1>4. /\ task \in [Deliveries -> Tasks] /\ graph \in Graphs /\ stored \in Graphs
      /\ intake \in [Deliveries -> {"away", "gone"} \cup Provisional]
      /\ active \in [Messages -> Deliveries \cup {NoClaim}] /\ NoClaim \notin Deliveries
      /\ cancelled \in [Messages -> BOOLEAN] /\ queue \in [Messages -> Seq(Messages)]
  BY TreesAssumption DEF TreesInv, Typed, TreesAssumption
<1>5. /\ \A n \in Present : /\ n \in Messages /\ graph[n].turn \in Deliveries
                            /\ graph[n].root \in Messages /\ graph[n].turn # d
                            /\ intake[graph[n].turn] = "gone"
      /\ task[d] = "none"
  <2>1. intake[d] # "gone"
    BY <1>1 DEF Provisional
  <2> QED
    BY <1>4, <2>1, NodesAre DEF TreesInv, AllHaveEntered, Entered, Present
<1>6. /\ intake' \in [Deliveries -> {"away", "gone"} \cup Provisional] /\ intake'[d] = "gone"
      /\ \A x \in Deliveries : x # d => intake'[x] = intake[x]
  BY <1>1, <1>4
<1>7. Present' = Present \cup {m} /\ Touched' = {} /\ Touched = {} /\ DOMAIN command.snapshot = {}
  BY <1>1, <1>2, CommandIs DEF Present, Touched
<1>8. /\ \A s \in Messages : s # r => Tree(s)' = Tree(s)
      /\ Tree(r)' = Tree(r) \cup {m}
  <2>1. \A n \in Present : graph'[n].root = graph[n].root
    BY <1>2
  <2>2. graph'[m].root = r
    BY <1>2, <1>3
  <2>3. Tree(r)' = Tree(r) \cup {m}
    BY <1>7, <2>1, <2>2 DEF Tree
  <2>4. ASSUME NEW s \in Messages, s # r PROVE Tree(s)' = Tree(s)
    BY <1>7, <2>1, <2>2, <2>4 DEF Tree
  <2> QED
    BY <2>3, <2>4
<1>9. \A s \in Messages : active[s] # d
  BY <1>4, <1>5 DEF TreesInv, QueuesMove, Ended
<1>10. /\ Idle(r) => /\ active'[r] = d /\ task'[d] = "launched" /\ queue'[r] = queue[r]
       /\ ~Idle(r) => /\ active'[r] = active[r] /\ task'[d] = task[d]
                      /\ queue'[r] = Append(queue[r], m)
       /\ \A s \in Messages : s # r => active'[s] = active[s] /\ queue'[s] = queue[s]
       /\ \A x \in Deliveries : x # d => task'[x] = task[x]
       /\ active' \in [Messages -> Deliveries \cup {NoClaim}]
       /\ task' \in [Deliveries -> Tasks] /\ queue' \in [Messages -> Seq(Messages)]
  <2>1. CASE Idle(r)
    BY <1>1, <1>2, <1>4, <2>1 DEF EnqueueOrClaim, Launched, Tasks, m
  <2>2. CASE ~Idle(r)
    <3>1. Append(queue[r], m) \in Seq(Messages)
      BY <1>2, <1>4
    <3>2. queue' = [queue EXCEPT ![r] = Append(queue[r], m)] /\ active' = active /\ task' = task
      BY <1>1, <2>2 DEF EnqueueOrClaim, m
    <3> QED
      BY <1>2, <1>4, <2>2, <3>1, <3>2
  <2> QED
    BY <2>1, <2>2
<1>11. \A n \in DOMAIN stored : n \in Present /\ n # m /\ stored[n].root = graph[n].root
  BY <1>2, <1>7 DEF TreesInv, StoreFollows
<1> DEFINE w == WithTree(graph', r)
<1>12. /\ w \in Graphs
       /\ \A n \in DOMAIN w : \/ n \in Present' /\ graph'[n].root = r /\ w[n] = graph'[n]
                              \/ n \in DOMAIN stored /\ stored[n].root # r /\ w[n] = stored[n]
       /\ \A n \in Present' : graph'[n].root = r => n \in DOMAIN w /\ w[n] = graph'[n]
       /\ \A n \in DOMAIN stored : stored[n].root # r => n \in DOMAIN w /\ w[n] = stored[n]
  <2>1. w \in Graphs
    BY <1>2, <1>4, WithTreeIs
  <2>2. \A n \in DOMAIN w : \/ n \in DOMAIN graph' /\ graph'[n].root = r
                            \/ n \in DOMAIN stored /\ stored[n].root # r
    BY <1>2, <1>4, WithTreeIs
  <2>3. \A n \in DOMAIN graph' : graph'[n].root = r => n \in DOMAIN w /\ w[n] = graph'[n]
    BY <1>2, <1>4, WithTreeIs
  <2>4. \A n \in DOMAIN stored : stored[n].root # r =>
          /\ n \in DOMAIN w
          /\ ~(n \in DOMAIN graph' /\ graph'[n].root = r) => w[n] = stored[n]
    BY <1>2, <1>4, WithTreeIs
  <2> HIDE DEF w
  <2>5. \A n \in DOMAIN stored : stored[n].root # r => ~(n \in DOMAIN graph' /\ graph'[n].root = r)
    BY <1>2, <1>11
  <2>6. DOMAIN graph' = Present'
    BY DEF Present
  <2> QED
    BY <2>1, <2>2, <2>3, <2>4, <2>5, <2>6
<1>13. NodesAreSound(w)
  <2>1. \A n \in DOMAIN stored : n \in DOMAIN graph' => stored[n].root = graph'[n].root
    BY <1>2, <1>11
  <2>2. NodesAreSound(stored)
    BY DEF TreesInv
  <2> QED
    BY <1>2, <1>4, <2>1, <2>2, SavedIsSound
<1> HIDE DEF w
<1>14. stored' = w
  BY <1>1 DEF w
<1>15. Typed'
  BY <1>1, <1>2, <1>6, <1>10, <1>12, <1>14 DEF TreesInv, Typed
<1>16. AllHaveEntered'
  <2>1. \A n \in Present' : intake'[graph'[n].turn] = "gone"
    BY <1>2, <1>3, <1>5, <1>6, <1>7
  <2>2. \A n \in DOMAIN stored : stored[n].turn \in Deliveries /\ intake[stored[n].turn] = "gone"
    BY <1>4, NodesAre DEF TreesInv, AllHaveEntered, Entered
  <2>3. \A n \in DOMAIN w : intake'[w[n].turn] = "gone"
    BY <1>6, <1>12, <2>1, <2>2
  <2>4. \A x \in Deliveries : task'[x] # "none" => intake'[x] = "gone"
    BY <1>6, <1>10 DEF TreesInv, AllHaveEntered
  <2>5. \A x \in Deliveries : intake'[x] = "reply" => ReplyTo[Message[x]] \in References
    BY <1>6 DEF TreesInv, AllHaveEntered
  <2> QED
    BY <1>1, <1>7, <1>14, <2>1, <2>3, <2>4, <2>5 DEF AllHaveEntered, Entered, Present
<1>17. StoreFollows'
  <2>1. \A n \in DOMAIN w : n \in Present' /\ w[n].root = graph'[n].root
    BY <1>2, <1>7, <1>11, <1>12
  <2> QED
    BY <1>1, <1>7, <1>14, <2>1 DEF TreesInv, StoreFollows
<1>22. \A n \in Present : graph[n].turn # d /\ task'[graph[n].turn] = task[graph[n].turn]
  BY <1>5, <1>10
<1>18. ClaimsAreSound'
  <2>1. ASSUME NEW n \in Present', graph'[n].state = "pending" PROVE task'[graph'[n].turn] = "none"
    <3>1. CASE n = m
      <4>1. ~Idle(r)
        BY <1>2, <1>3, <2>1, <3>1
      <4> QED
        BY <1>2, <1>3, <1>5, <1>10, <3>1, <4>1
    <3>2. CASE n # m
      <4>1. n \in Present /\ graph'[n] = graph[n]
        BY <1>2, <1>7, <3>2
      <4> QED
        BY <1>5, <1>10, <2>1, <4>1 DEF TreesInv, ClaimsAreSound
    <3> QED
      BY <3>1, <3>2
  <2>2. \A s, q \in Messages : active'[s] = active'[q] /\ active'[s] # NoClaim => s = q
    <3>1. \A s, q \in Messages : active[s] = active[q] /\ active[s] # NoClaim => s = q
      BY DEF TreesInv, ClaimsAreSound
    <3>2. CASE Idle(r)
      BY <1>9, <1>10, <3>1, <3>2
    <3>3. CASE ~Idle(r)
      <4>1. \A s \in Messages : active'[s] = active[s]
        BY <1>10, <3>3
      <4> QED
        BY <3>1, <4>1
    <3> QED
      BY <3>2, <3>3
  <2>3. \A s \in Messages : cancelled'[s] => active'[s] # NoClaim
    BY <1>1, <1>4, <1>10 DEF TreesInv, ClaimsAreSound, Idle
  <2>4. ASSUME NEW s \in Messages, active'[s] # NoClaim, ~cancelled'[s]
        PROVE  Message[active'[s]] \in Tree(s)' /\ graph'[Message[active'[s]]].turn = active'[s]
    <3>1. CASE s = r /\ Idle(r)
      BY <1>2, <1>3, <1>8, <1>10, <3>1 DEF m
    <3>2. CASE ~(s = r /\ Idle(r))
      <4>1. active'[s] = active[s] /\ ~cancelled[s]
        BY <1>1, <1>10, <2>4, <3>2
      <4>2. Message[active[s]] \in Tree(s) /\ graph[Message[active[s]]].turn = active[s]
        BY <2>4, <4>1 DEF TreesInv, ClaimsAreSound
      <4>3. Message[active[s]] \in Present
        BY <4>2 DEF Tree
      <4> QED
        BY <1>2, <1>8, <4>1, <4>2, <4>3
    <3> QED
      BY <3>1, <3>2
  <2>5. ASSUME NEW n \in Present', task'[graph'[n].turn] \notin Ended
        PROVE  active'[graph'[n].root] = graph'[n].turn
    <3>1. CASE n = m
      <4>1. Idle(r)
        BY <1>2, <1>3, <1>5, <1>10, <2>5, <3>1 DEF Ended
      <4> QED
        BY <1>2, <1>3, <1>10, <3>1, <4>1
    <3>2. CASE n # m
      <4>1. n \in Present /\ graph'[n] = graph[n]
        BY <1>2, <1>7, <3>2
      <4>2. active[graph[n].root] = graph[n].turn
        BY <1>22, <2>5, <4>1 DEF TreesInv, ClaimsAreSound
      <4>3. graph[n].root = r => ~Idle(r)
        BY <1>4, <1>5, <4>1, <4>2 DEF Idle
      <4> QED
        BY <1>5, <1>10, <4>1, <4>2, <4>3
    <3> QED
      BY <3>1, <3>2
  <2> QED
    BY <2>1, <2>2, <2>3, <2>4, <2>5 DEF ClaimsAreSound
<1>19. QueuesMove'
  <2> SUFFICES ASSUME NEW s \in Messages
               PROVE  /\ Range(queue'[s]) = {n \in Tree(s)' : graph'[n].state = "pending"}
                      /\ IsInjective(queue'[s])
                      /\ queue'[s] # << >> => active'[s] # NoClaim
                      /\ active'[s] # NoClaim => task'[active'[s]] \notin Ended
    BY DEF QueuesMove
  <2>1. /\ Range(queue[s]) = {n \in Tree(s) : graph[n].state = "pending"}
        /\ IsInjective(queue[s])
        /\ queue[s] # << >> => active[s] # NoClaim
        /\ active[s] # NoClaim => task[active[s]] \notin Ended
    BY DEF TreesInv, QueuesMove
  <2>2. \A n \in Tree(s) : n \in Present /\ graph'[n] = graph[n]
    BY <1>2 DEF Tree
  <2>3. CASE s # r
    <3>1. {n \in Tree(s)' : graph'[n].state = "pending"} = {n \in Tree(s) : graph[n].state = "pending"}
      BY <1>8, <2>2, <2>3
    <3>2. active'[s] = active[s] /\ queue'[s] = queue[s]
      BY <1>10, <2>3
    <3>3. active[s] # NoClaim => task'[active[s]] = task[active[s]]
      BY <1>4, <1>9, <1>10
    <3> QED
      BY <2>1, <3>1, <3>2, <3>3
  <2>4. CASE s = r /\ Idle(r)
    <3>1. {n \in Tree(s)' : graph'[n].state = "pending"} = {n \in Tree(s) : graph[n].state = "pending"}
      BY <1>2, <1>3, <1>8, <2>2, <2>4
    <3>2. active'[s] = d /\ task'[d] \notin Ended /\ queue'[s] = queue[s]
      BY <1>10, <2>4 DEF Ended
    <3> QED
      BY <1>4, <2>1, <3>1, <3>2
  <2>5. CASE s = r /\ ~Idle(r)
    <3>1. {n \in Tree(s)' : graph'[n].state = "pending"}
            = {n \in Tree(s) : graph[n].state = "pending"} \cup {m}
      BY <1>2, <1>3, <1>8, <2>2, <2>5
    <3>2. m \notin Range(queue[s])
      BY <1>2, <2>1, <2>2
    <3>3. Range(Append(queue[s], m)) = Range(queue[s]) \cup {m} /\ IsInjective(Append(queue[s], m))
      BY <1>2, <1>4, <2>1, <3>2, OneMoreMessage
    <3>4. active'[s] = active[s] /\ active[s] # NoClaim /\ queue'[s] = Append(queue[s], m)
      BY <1>10, <2>5 DEF Idle
    <3>5. task'[active[s]] = task[active[s]]
      BY <1>4, <1>9, <1>10, <3>4
    <3> QED
      BY <2>1, <3>1, <3>3, <3>4, <3>5
  <2> QED
    BY <2>3, <2>4, <2>5
<1>20. RunnersAreOwned'
  <2>1. ASSUME NEW x \in Deliveries, task'[x] \in {"launched", "running"}
        PROVE  \E s \in Messages : Owns(x, s)'
    <3>1. CASE x = d
      <4>1. Idle(r)
        BY <1>5, <1>10, <2>1, <3>1
      <4>2. ~cancelled'[r]
        BY <1>1, <1>2, <4>1 DEF TreesInv, ClaimsAreSound, Idle
      <4> QED
        BY <1>2, <1>8, <1>10, <3>1, <4>1, <4>2 DEF Owns, IsActive, m
    <3>2. CASE x # d
      <4>1. task[x] \in {"launched", "running"}
        BY <1>10, <2>1, <3>2
      <4>2. PICK s \in Messages : Owns(x, s)
        BY <4>1 DEF TreesInv, RunnersAreOwned
      <4>3. active'[s] = active[s]
        BY <1>4, <1>10, <4>2 DEF Owns, IsActive, Idle
      <4> QED
        BY <1>1, <1>8, <4>2, <4>3 DEF Owns, IsActive
    <3> QED
      BY <3>1, <3>2
  <2>2. ASSUME NEW n \in Present', graph'[n].state = "in_progress"
        PROVE  task'[graph'[n].turn] \in {"launched", "running"}
    <3>1. CASE n = m
      <4>1. Idle(r)
        BY <1>2, <1>3, <2>2, <3>1
      <4> QED
        BY <1>2, <1>3, <1>10, <3>1, <4>1
    <3>2. CASE n # m
      <4>1. n \in Present /\ graph'[n] = graph[n]
        BY <1>2, <1>7, <3>2
      <4> QED
        BY <1>22, <2>2, <4>1 DEF TreesInv, RunnersAreOwned
    <3> QED
      BY <3>1, <3>2
  <2> QED
    BY <2>1, <2>2 DEF RunnersAreOwned
<1>21. InTime'
  <2> SUFFICES ASSUME ~SlowStop PROVE (StoreTells /\ NobodyIsNameless /\ CancelledIsAwaited /\ WaitingIsFresh)'
    BY DEF InTime
  <2>1. StoreTells /\ NobodyIsNameless /\ CancelledIsAwaited /\ WaitingIsFresh
    BY DEF TreesInv, InTime
  <2>2. ASSUME NEW n \in Present' PROVE Tells(stored, n)'
    <3>1. CASE graph'[n].root = r
      BY <1>12, <1>14, <3>1 DEF Tells
    <3>2. CASE graph'[n].root # r
      <4>1. n \in Present /\ graph'[n] = graph[n]
        BY <1>2, <1>3, <1>7, <3>2
      <4>2. Tells(stored, n)
        BY <1>7, <2>1, <4>1 DEF StoreTells
      <4>3. n \in DOMAIN stored /\ stored[n].root # r
        BY <1>11, <3>2, <4>1, <4>2 DEF Tells
      <4> QED
        BY <1>12, <1>14, <4>1, <4>2, <4>3 DEF Tells
    <3> QED
      BY <3>1, <3>2
  <2>3. StoreTells'
    BY <1>1, <1>7, <2>2 DEF StoreTells, Touched
  <2>4. ASSUME NEW n \in Present', ~graph'[n].status PROVE task'[graph'[n].turn] \in Ended
    <3>1. n \in Present /\ graph'[n] = graph[n]
      BY <1>2, <1>3, <1>7, <2>4
    <3> QED
      BY <1>1, <1>22, <2>1, <2>4, <3>1 DEF NobodyIsNameless
  <2>5. NobodyIsNameless'
    BY <2>4 DEF NobodyIsNameless
  <2>6. WaitingIsFresh'
    BY <1>1, <1>2, <1>3, <1>7, <2>1 DEF WaitingIsFresh
  <2>7. CancelledIsAwaited'
    BY <1>1, <2>1 DEF CancelledIsAwaited
  <2> QED
    BY <2>3, <2>5, <2>6, <2>7
<1> QED
  BY <1>1, <1>2, <1>7, <1>13, <1>14, <1>15, <1>16, <1>17, <1>18, <1>19, <1>20, <1>21
     DEF TreesInv, NodesAreSound

-----------------------------------------------------------------------------
(* Stop and clear.                                                          *)

\* A cancelled task is one that has not ended yet.
LEMMA HaltedIs ==
  ASSUME NEW t \in Tasks
  PROVE  /\ Halted(t) \in Tasks
         /\ Halted(t) \in Ended <=> t \in Ended
         /\ Halted(t) = "none" <=> t = "none"
         /\ Halted(t) \notin {"launched", "running"}
BY DEF Halted, Tasks, Ended

\* What a stop or clear does to the nodes: of the trees in R none is left, of the
\* others some go or end, and with the claims that are cancelled their turns.
NodesHalt(claims, R) ==
  /\ graph' \in Graphs /\ NodesAreSound(graph')
  /\ \A n \in Present' :
       /\ n \in Present /\ graph'[n].turn = graph[n].turn /\ graph'[n].root = graph[n].root
       /\ graph[n].root \notin R
       /\ graph'[n].state = "pending" => graph[n].state = "pending"
       /\ graph'[n].state = "in_progress" =>
            graph[n].state = "in_progress" /\ graph[n].turn \notin claims

\* The trees of R lose their claims, and other trees keep cancelled ones; a claim that
\* is not cancelled keeps its node.
ClaimsHalt(claims, R) ==
  /\ CancelTasks(claims)
  /\ active' \in [Messages -> Deliveries \cup {NoClaim}]
  /\ \A s \in Messages : active'[s] = IF s \in R THEN NoClaim ELSE active[s]
  /\ cancelled' \in [Messages -> BOOLEAN]
  /\ \A s \in Messages :
       cancelled'[s] <=> (s \notin R /\ (cancelled[s] \/ active[s] \in claims))
  /\ \A s \in Messages : active[s] # NoClaim /\ ~cancelled[s] /\ active[s] \notin claims =>
       s \notin R /\ Message[active[s]] \in Present'

\* The queues hold what still waits.
QueuesHalt ==
  /\ queue' \in [Messages -> Seq(Messages)]
  /\ \A s \in Messages :
       /\ IsInjective(queue'[s])
       /\ \A n \in Range(queue'[s]) :
            n \in Present' /\ graph'[n].root = s /\ graph'[n].state = "pending"
       /\ \A n \in Present' :
            graph'[n].root = s /\ graph'[n].state = "pending" => n \in Range(queue'[s])

\* The command at work touches the trees whose nodes go or tell something else.
CommandHalts(claims) ==
  /\ command' \in Commands /\ DOMAIN command'.snapshot = {}
  /\ command'.phase # "saving"
  /\ command'.phase = "none" => command' = NoCommand
  /\ \A n \in Present : n \notin Present' => graph[n].root \in Touched'
  /\ \A n \in Present' : graph'[n].root \notin Touched' =>
       /\ graph'[n].status <=> graph[n].status
       /\ graph[n].state = "completed" => graph'[n].state = "completed"
  /\ \A n \in Present' : ~graph'[n].status =>
       ~graph[n].status \/ task[graph[n].turn] \in Ended \/ graph[n].turn \in claims

\* With CLIs that end in time, the command awaits the claims it has cancelled and leaves
\* nothing waiting that came before it.
HaltsInTime(claims) ==
  /\ claims = {} \/ (command'.phase = "draining" /\ command'.waits = claims)
  /\ \A n \in Present' : graph[n].root \notin command'.removed
  /\ \A n \in Present' : graph'[n].state = "pending" => graph[n].turn \in fresh'

\* Whatever does no more than this keeps the invariant; each stop and clear is shown to.
LEMMA HaltKeeps ==
  ASSUME TreesInv, command.phase = "none", UNCHANGED <<intake, stored, restarts>>,
         fresh' \in SUBSET Deliveries,
         NEW claims \in SUBSET Deliveries, NEW R \in SUBSET Messages,
         NodesHalt(claims, R), ClaimsHalt(claims, R), QueuesHalt, CommandHalts(claims),
         ~SlowStop => HaltsInTime(claims)
  PROVE  TreesInv'
<1> USE DEF NodesHalt, ClaimsHalt, QueuesHalt, CommandHalts, HaltsInTime
<1>0. /\ task \in [Deliveries -> Tasks] /\ graph \in Graphs /\ stored \in Graphs
      /\ active \in [Messages -> Deliveries \cup {NoClaim}] /\ NoClaim \notin Deliveries
      /\ cancelled \in [Messages -> BOOLEAN] /\ queue \in [Messages -> Seq(Messages)]
  BY TreesAssumption DEF TreesInv, Typed, TreesAssumption
<1>1. /\ task' \in [Deliveries -> Tasks]
      /\ \A d \in Deliveries : /\ d \notin claims => task'[d] = task[d]
                               /\ task'[d] \in Ended <=> task[d] \in Ended
                               /\ task'[d] = "none" <=> task[d] = "none"
                               /\ task'[d] \in {"launched", "running"} =>
                                    task[d] = task'[d] /\ d \notin claims
  BY <1>0, HaltedIs DEF CancelTasks
<1>2. \A n \in Present : graph[n].turn \in Deliveries /\ graph[n].root \in Messages /\ n \in Messages
  BY <1>0, NodesAre DEF Present
<1>3. DOMAIN graph' = Present' /\ DOMAIN graph = Present /\ Touched = {}
  BY CommandIs DEF Present
<1>4. \A s \in Messages : Tree(s)' = {n \in Tree(s) : n \in Present'}
  BY DEF Tree
<1>5. Typed'
  BY <1>1 DEF TreesInv, Typed
<1>6. (NodesAreSound(stored) /\ NodesAreSound(command.snapshot))'
  BY DEF TreesInv, NodesAreSound
<1>7. AllHaveEntered'
  <2>1. \A n \in Present' : intake[graph'[n].turn] = "gone"
    BY <1>3 DEF TreesInv, AllHaveEntered, Entered
  <2>2. \A d \in Deliveries : task'[d] # "none" => intake[d] = "gone"
    BY <1>1 DEF TreesInv, AllHaveEntered
  <2> QED
    BY <1>3, <2>1, <2>2 DEF TreesInv, AllHaveEntered, Entered
<1>8. ClaimsAreSound'
  <2>1. ASSUME NEW n \in Present', graph'[n].state = "pending" PROVE task'[graph'[n].turn] = "none"
    <3>1. n \in Present /\ graph[n].state = "pending" /\ graph'[n].turn = graph[n].turn
      BY <2>1
    <3>2. task[graph[n].turn] = "none"
      BY <3>1 DEF TreesInv, ClaimsAreSound
    <3> QED
      BY <1>1, <1>2, <3>1, <3>2
  <2>2. \A s, q \in Messages : active'[s] = active'[q] /\ active'[s] # NoClaim => s = q
    BY DEF TreesInv, ClaimsAreSound
  <2>3. \A s \in Messages : cancelled'[s] => active'[s] # NoClaim
    BY <1>0 DEF TreesInv, ClaimsAreSound
  <2>4. ASSUME NEW s \in Messages, active'[s] # NoClaim, ~cancelled'[s]
        PROVE  Message[active'[s]] \in Tree(s)' /\ graph'[Message[active'[s]]].turn = active'[s]
    <3>1. active'[s] = active[s] /\ ~cancelled[s] /\ active[s] \notin claims
      BY <2>4
    <3>2. Message[active[s]] \in Tree(s) /\ graph[Message[active[s]]].turn = active[s]
      BY <2>4, <3>1 DEF TreesInv, ClaimsAreSound
    <3>3. Message[active[s]] \in Present'
      BY <2>4, <3>1
    <3> QED
      BY <1>4, <3>1, <3>2, <3>3
  <2>5. ASSUME NEW n \in Present', task'[graph'[n].turn] \notin Ended
        PROVE  active'[graph'[n].root] = graph'[n].turn
    <3>1. n \in Present /\ graph'[n].turn = graph[n].turn /\ graph'[n].root = graph[n].root
      OBVIOUS
    <3>2. active[graph[n].root] = graph[n].turn
      BY <1>1, <1>2, <2>5, <3>1 DEF TreesInv, ClaimsAreSound
    <3> QED
      BY <1>2, <3>1, <3>2
  <2> QED
    BY <2>1, <2>2, <2>3, <2>4, <2>5 DEF ClaimsAreSound
<1>9. QueuesMove'
  <2> SUFFICES ASSUME NEW s \in Messages
               PROVE  /\ Range(queue'[s]) = {n \in Tree(s)' : graph'[n].state = "pending"}
                      /\ IsInjective(queue'[s])
                      /\ queue'[s] # << >> => active'[s] # NoClaim
                      /\ active'[s] # NoClaim => task'[active'[s]] \notin Ended
    BY DEF QueuesMove
  <2>1. Range(queue'[s]) = {n \in Tree(s)' : graph'[n].state = "pending"}
    BY DEF Tree
  <2>2. ASSUME queue'[s] # << >> PROVE active'[s] # NoClaim
    <3>1. PICK n \in Range(queue'[s]) : TRUE
      BY <2>2, EmptyQueue
    <3>2. n \in Present' /\ n \in Present /\ graph[n].root = s /\ graph[n].state = "pending" /\ s \notin R
      BY <3>1
    <3>3. n \in Range(queue[s])
      BY <3>2, QueueIs
    <3>4. queue[s] # << >>
      BY <1>0, <3>3, EmptyQueue
    <3>5. active[s] # NoClaim
      BY <3>4 DEF TreesInv, QueuesMove
    <3> QED
      BY <3>2, <3>5
  <2>3. ASSUME active'[s] # NoClaim PROVE task'[active'[s]] \notin Ended
    <3>1. active'[s] = active[s] /\ active[s] \in Deliveries
      BY <1>0, <2>3
    <3>2. task[active[s]] \notin Ended
      BY <2>3, <3>1 DEF TreesInv, QueuesMove
    <3> QED
      BY <1>1, <3>1, <3>2
  <2> QED
    BY <2>1, <2>2, <2>3
<1>10. RunnersAreOwned'
  <2>1. ASSUME NEW x \in Deliveries, task'[x] \in {"launched", "running"}
        PROVE  \E s \in Messages : Owns(x, s)'
    <3>1. task[x] \in {"launched", "running"} /\ x \notin claims
      BY <1>1, <2>1
    <3>2. PICK s \in Messages : Owns(x, s)
      BY <3>1 DEF TreesInv, RunnersAreOwned
    <3>3. active[s] = x /\ ~cancelled[s] /\ Message[x] \in Tree(s) /\ active[s] # NoClaim
      BY <1>0, <3>2 DEF Owns, IsActive
    <3>4. s \notin R /\ Message[x] \in Present'
      BY <3>1, <3>3
    <3>5. active'[s] = x /\ ~cancelled'[s] /\ Message[x] \in Tree(s)'
      BY <1>4, <3>1, <3>3, <3>4
    <3> QED
      BY <3>5 DEF Owns, IsActive
  <2>2. ASSUME NEW n \in Present', graph'[n].state = "in_progress"
        PROVE  task'[graph'[n].turn] \in {"launched", "running"}
    <3>1. /\ n \in Present /\ graph[n].state = "in_progress" /\ graph[n].turn \notin claims
          /\ graph'[n].turn = graph[n].turn
      BY <2>2
    <3>2. task[graph[n].turn] \in {"launched", "running"}
      BY <3>1 DEF TreesInv, RunnersAreOwned
    <3> QED
      BY <1>1, <1>2, <3>1, <3>2
  <2> QED
    BY <2>1, <2>2 DEF RunnersAreOwned
<1>11. \A n \in DOMAIN stored : n \in Present /\ stored[n].root = graph[n].root
  BY <1>3 DEF TreesInv, StoreFollows
<1>12. StoreFollows'
  <2>1. \A n \in DOMAIN stored : n \in Present' => stored[n].root = graph'[n].root
    BY <1>11
  <2>2. \A n \in DOMAIN stored : stored[n].root \notin Touched' => n \in Present'
    BY <1>11
  <2> QED
    BY <2>1, <2>2 DEF StoreFollows
<1>13. InTime'
  <2> SUFFICES ASSUME ~SlowStop PROVE (StoreTells /\ NobodyIsNameless /\ CancelledIsAwaited /\ WaitingIsFresh)'
    BY DEF InTime
  <2>1. StoreTells /\ NobodyIsNameless /\ CancelledIsAwaited
    BY DEF TreesInv, InTime
  <2>2. ASSUME NEW n \in Present', graph'[n].root \notin Touched' PROVE Tells(stored, n)'
    <3>1. n \in Present /\ graph[n].root \notin Touched'
      BY <2>2
    <3>2. Tells(stored, n)
      BY <1>3, <2>1, <3>1 DEF StoreTells
    <3>3. /\ graph'[n].status <=> graph[n].status
          /\ graph[n].state = "completed" => graph'[n].state = "completed"
      BY <3>1
    <3> QED
      BY <3>2, <3>3 DEF Tells
  <2>3. StoreTells'
    BY <2>2 DEF StoreTells
  <2>4. ASSUME NEW n \in Present', ~graph'[n].status
        PROVE  \/ task'[graph'[n].turn] \in Ended
               \/ command'.phase = "draining" /\ graph'[n].turn \in command'.waits
    <3>1. n \in Present /\ graph'[n].turn = graph[n].turn /\ graph[n].turn \in Deliveries
      BY <1>2
    <3>2. task[graph[n].turn] \in Ended \/ graph[n].turn \in claims
      BY <2>1, <2>4, <3>1 DEF NobodyIsNameless
    <3> QED
      BY <1>1, <3>1, <3>2
  <2>5. NobodyIsNameless'
    BY <2>4 DEF NobodyIsNameless
  <2>6. CancelledIsAwaited'
    <3>1. \A s \in Messages : ~cancelled[s]
      BY <2>1 DEF CancelledIsAwaited
    <3>2. \A s \in Messages : cancelled'[s] => active[s] \in claims /\ active'[s] = active[s]
      BY <3>1
    <3> QED
      BY <3>2 DEF CancelledIsAwaited
  <2>7. WaitingIsFresh'
    BY DEF WaitingIsFresh
  <2> QED
    BY <2>3, <2>5, <2>6, <2>7
<1> QED
  BY <1>5, <1>6, <1>7, <1>8, <1>9, <1>10, <1>12, <1>13 DEF TreesInv

\* The command that drains.
LEMMA DrainingIs ==
  ASSUME NEW claims \in SUBSET Deliveries, NEW R \in SUBSET Messages, NEW gone \in SUBSET Messages,
         Draining(claims, R, gone)
  PROVE  /\ command' \in Commands /\ command'.phase = "draining" /\ command'.waits = claims
         /\ command'.roots = R /\ command'.removed = gone /\ DOMAIN command'.snapshot = {}
         /\ Touched' = R \cup gone
<1>0. << >> \in Graphs
  <2>1. << >> \in [{} -> Nodes]
    OBVIOUS
  <2> QED
    BY <2>1 DEF Graphs
<1>1. command' = [phase |-> "draining", waits |-> claims, roots |-> R,
                  snapshot |-> << >>, removed |-> gone]
  BY DEF Draining, NoCommand
<1>2. command' \in Commands
  BY <1>0, <1>1 DEF Commands
<1>3. DOMAIN command'.snapshot = {}
  BY <1>1
<1> QED
  BY <1>1, <1>2, <1>3 DEF Touched

\* /stop as a reply cancels one turn, waiting or active.
LEMMA StopReplyKeeps ==
  ASSUME TreesInv, NEW m \in Messages, StopReply(m) PROVE TreesInv'
<1>0. PICK r \in Messages : m \in Present /\ r = graph[m].root
  BY NodesAre DEF TreesInv, Typed, StopReply, Present
<1> DEFINE claims == IF RunsOne(r, {m}) THEN {active[r]} ELSE {}
<1>1. /\ command.phase = "none" /\ CancelNode(m, r, claims) /\ CancelTasks(claims)
      /\ Draining(claims, {r}, {})
      /\ UNCHANGED <<intake, fresh, active, stored, restarts>>
  BY <1>0 DEF StopReply, StateLockFree
<1>2. /\ graph \in Graphs /\ fresh \in SUBSET Deliveries
      /\ active \in [Messages -> Deliveries \cup {NoClaim}] /\ NoClaim \notin Deliveries
      /\ cancelled \in [Messages -> BOOLEAN]
      /\ DOMAIN graph = Present
  BY TreesAssumption DEF TreesInv, Typed, TreesAssumption, Present
<1>3. /\ claims \in SUBSET Deliveries
      /\ claims # {} => active[r] \in claims /\ Message[active[r]] = m
      /\ \A s \in Messages : active[s] \in claims => s = r
  BY <1>2 DEF RunsOne, TreesInv, ClaimsAreSound
<1>4. active[r] # NoClaim /\ Message[active[r]] = m => active[r] \in claims
  BY DEF RunsOne
<1> HIDE DEF claims
<1>5. /\ command' \in Commands /\ command'.phase = "draining" /\ command'.waits = claims
      /\ command'.removed = {} /\ DOMAIN command'.snapshot = {} /\ Touched' = {r}
  <2>1. {r} \in SUBSET Messages /\ {} \in SUBSET Messages /\ {r} \cup {} = {r}
    OBVIOUS
  <2> QED
    BY <1>1, <1>3, <2>1, DrainingIs
<1> DEFINE S == IF Runnable(m) THEN {m} ELSE {}
<1>6. /\ graph' \in Graphs /\ SameShape(graph, graph')
      /\ \A n \in Present : /\ n \in S => graph'[n].state = "error"
                            /\ n \notin S => graph'[n].state = graph[n].state
  <2>1. CASE Runnable(m)
    <3>1. graph' = Marked(graph, {m}) /\ S = {m}
      BY <1>1, <2>1 DEF CancelNode
    <3> QED
      BY <1>2, <3>1, MarkedIs
  <2>2. CASE ~Runnable(m)
    BY <1>1, <1>2, <2>2 DEF CancelNode, SameShape
  <2> QED
    BY <2>1, <2>2
<1>7. S \subseteq {m} /\ (graph[m].state \in {"pending", "in_progress"} => m \in S)
  BY DEF Runnable
<1> HIDE DEF S
<1>8. \A n \in Present : Legible(graph'[n])
  <2>1. \A n \in Present : Legible(graph[n])
    BY DEF TreesInv, NodesAreSound, NodeIsSound, Present
  <2> QED
    BY <1>2, <1>6, <2>1 DEF Legible, SameShape, Interrupted
<1>9. /\ Present' = Present /\ NodesAreSound(graph')
      /\ \A n \in Present : /\ graph'[n].root = graph[n].root /\ graph'[n].turn = graph[n].turn
                            /\ graph'[n].status <=> graph[n].status
  BY <1>1, <1>6, <1>8, ShapesStay
<1>18. PICK R \in SUBSET Messages : R = {}
  OBVIOUS
<1>10. \A n \in Present' :
         /\ n \in Present /\ graph'[n].turn = graph[n].turn /\ graph'[n].root = graph[n].root
         /\ graph[n].root \notin R
         /\ graph'[n].state = "pending" => graph[n].state = "pending"
         /\ graph'[n].state = "in_progress" =>
              graph[n].state = "in_progress" /\ graph[n].turn \notin claims
  <2> SUFFICES ASSUME NEW n \in Present
               PROVE  /\ graph'[n].state = "pending" => graph[n].state = "pending"
                      /\ graph'[n].state = "in_progress" =>
                           graph[n].state = "in_progress" /\ graph[n].turn \notin claims
    BY <1>9, <1>18
  <2>1. Message[graph[n].turn] = n /\ graph[n].turn \in Deliveries
    BY <1>2, NodesAre DEF TreesInv, NodesAreSound, NodeIsSound
  <2>2. n = m => graph'[n].state \notin {"pending", "in_progress"}
    BY <1>0, <1>6, <1>7
  <2>3. \A x \in claims : x = active[r] /\ Message[x] = m
    BY <1>3 DEF claims
  <2> QED
    BY <1>6, <1>7, <2>1, <2>2, <2>3
<1>11. /\ active' \in [Messages -> Deliveries \cup {NoClaim}]
       /\ \A s \in Messages : active'[s] = IF s \in R THEN NoClaim ELSE active[s]
  BY <1>1, <1>2, <1>18
<1>12. /\ cancelled' \in [Messages -> BOOLEAN]
       /\ \A s \in Messages :
            cancelled'[s] <=> (s \notin R /\ (cancelled[s] \/ active[s] \in claims))
  <2>1. cancelled' = [cancelled EXCEPT ![r] = cancelled[r] \/ claims # {}]
    BY <1>1 DEF CancelNode
  <2>2. /\ cancelled' \in [Messages -> BOOLEAN]
        /\ cancelled'[r] <=> (cancelled[r] \/ claims # {})
        /\ \A s \in Messages : s # r => (cancelled'[s] <=> cancelled[s])
    BY <1>2, <2>1
  <2> QED
    BY <1>3, <1>18, <2>2
<1>13. \A s \in Messages : active[s] # NoClaim /\ ~cancelled[s] /\ active[s] \notin claims =>
         s \notin R /\ Message[active[s]] \in Present'
  BY <1>9, <1>18 DEF TreesInv, ClaimsAreSound, Tree
<1>14. /\ queue' \in [Messages -> Seq(Messages)]
       /\ \A s \in Messages :
            /\ IsInjective(queue'[s])
            /\ \A n \in Range(queue'[s]) :
                 n \in Present' /\ graph'[n].root = s /\ graph'[n].state = "pending"
            /\ \A n \in Present' :
                 graph'[n].root = s /\ graph'[n].state = "pending" => n \in Range(queue'[s])
  <2>1. queue' = [queue EXCEPT ![r] = Dequeued(queue[r], {m})]
    BY <1>1 DEF CancelNode
  <2>2. /\ queue' \in [Messages -> Seq(Messages)]
        /\ \A s \in Messages : Range(queue'[s]) = Range(queue[s]) \ {m} /\ IsInjective(queue'[s])
    BY <1>0, <2>1, QueueLoses
  <2>3. ASSUME NEW s \in Messages, NEW n \in Range(queue'[s])
        PROVE  n \in Present' /\ graph'[n].root = s /\ graph'[n].state = "pending"
    <3>1. n \in Range(queue[s]) /\ n # m
      BY <2>2, <2>3
    <3>2. n \in Present /\ graph[n].root = s /\ graph[n].state = "pending"
      BY <3>1, QueueIs
    <3> QED
      BY <1>6, <1>7, <1>9, <3>1, <3>2
  <2>4. ASSUME NEW s \in Messages, NEW n \in Present', graph'[n].root = s, graph'[n].state = "pending"
        PROVE  n \in Range(queue'[s])
    <3>1. n \in Present /\ graph[n].root = s /\ graph[n].state = "pending" /\ n # m
      BY <1>0, <1>6, <1>7, <1>9, <2>4
    <3> QED
      BY <2>2, <3>1, QueueIs
  <2> QED
    BY <2>2, <2>3, <2>4
<1>15. /\ \A n \in Present : n \notin Present' => graph[n].root \in Touched'
       /\ \A n \in Present' : graph'[n].root \notin Touched' =>
            /\ graph'[n].status <=> graph[n].status
            /\ graph[n].state = "completed" => graph'[n].state = "completed"
       /\ \A n \in Present' : ~graph'[n].status =>
            ~graph[n].status \/ task[graph[n].turn] \in Ended \/ graph[n].turn \in claims
  BY <1>0, <1>5, <1>6, <1>7, <1>9
<1>16. ~SlowStop => /\ claims = {} \/ (command'.phase = "draining" /\ command'.waits = claims)
                    /\ \A n \in Present' : graph[n].root \notin command'.removed
                    /\ \A n \in Present' : graph'[n].state = "pending" =>
                         graph[n].turn \in fresh'
  BY <1>1, <1>5, <1>9, <1>10 DEF TreesInv, InTime, WaitingIsFresh
<1>17. fresh' \in SUBSET Deliveries /\ UNCHANGED <<intake, stored, restarts>>
       /\ command'.phase # "saving" /\ command'.phase # "none"
  BY <1>1, <1>2, <1>5
<1>19. NodesHalt(claims, R)
  BY <1>6, <1>9, <1>10 DEF NodesHalt
<1>20. ClaimsHalt(claims, R)
  BY <1>1, <1>11, <1>12, <1>13 DEF ClaimsHalt
<1>21. QueuesHalt
  BY <1>14 DEF QueuesHalt
<1>22. CommandHalts(claims)
  BY <1>5, <1>15, <1>17 DEF CommandHalts
<1>23. ~SlowStop => HaltsInTime(claims)
  BY <1>16 DEF HaltsInTime
<1> QED
  BY <1>1, <1>3, <1>17, <1>19, <1>20, <1>21, <1>22, <1>23, HaltKeeps

\* With every CLI ending in time, no active turn is without its status when a command starts.
LEMMA EveryoneIsNamed ==
  ASSUME TreesInv, ~SlowStop, command.phase = "none", NEW r \in Messages
  PROVE  ~Nameless(r)
<1> SUFFICES ASSUME Nameless(r) PROVE FALSE
  OBVIOUS
<1> DEFINE n == Message[active[r]]
<1>1. active[r] # NoClaim /\ n \in Tree(r) /\ n \in Present /\ ~graph[n].status
  BY DEF Nameless, RunsOne, Tree
<1>2. NobodyIsNameless /\ ~cancelled[r]
  BY DEF TreesInv, InTime, CancelledIsAwaited
<1>3. graph[n].turn = active[r]
  BY <1>1, <1>2 DEF TreesInv, ClaimsAreSound
<1>4. task[active[r]] \notin Ended
  BY <1>1 DEF TreesInv, QueuesMove
<1> QED
  BY <1>1, <1>2, <1>3, <1>4 DEF NobodyIsNameless

\* Then a stop or clear of everything reaches every tree.
LEMMA EverythingIsReached ==
  ASSUME TreesInv, ~SlowStop, command.phase = "none", NEW R, Reached(R)
  PROVE  R = Roots
<1>1. Roots \subseteq Messages
  BY DEF Roots, Present, TreesInv, Typed, Graphs
<1>2. \A r \in Roots : ~Nameless(r)
  BY <1>1, EveryoneIsNamed
<1> QED
  BY <1>2 DEF Reached

\* The claims that are active in some trees.
LEMMA ActiveOfIs ==
  ASSUME TreesInv, NEW R \in SUBSET Messages
  PROVE  /\ ActiveOf(R) \in SUBSET Deliveries
         /\ \A s \in Messages : active[s] \in ActiveOf(R) <=> (s \in R /\ active[s] # NoClaim)
         /\ \A n \in Present : graph[n].root \notin R /\ graph[n].state = "in_progress" =>
              graph[n].turn \notin ActiveOf(R)
<1>1. /\ active \in [Messages -> Deliveries \cup {NoClaim}] /\ NoClaim \notin Deliveries
      /\ \A s, q \in Messages : active[s] = active[q] /\ active[s] # NoClaim => s = q
      /\ \A n \in Present : graph[n].root \in Messages
  BY TreesAssumption, NodesAre DEF TreesInv, Typed, ClaimsAreSound, TreesAssumption, Present
<1>2. /\ ActiveOf(R) \in SUBSET Deliveries
      /\ \A s \in Messages : active[s] \in ActiveOf(R) <=> (s \in R /\ active[s] # NoClaim)
  BY <1>1 DEF ActiveOf
<1>3. ASSUME NEW n \in Present, graph[n].root \notin R, graph[n].state = "in_progress"
      PROVE  graph[n].turn \notin ActiveOf(R)
  <2>1. task[graph[n].turn] \notin Ended
    BY <1>3 DEF TreesInv, RunnersAreOwned, Ended
  <2>2. active[graph[n].root] = graph[n].turn
    BY <2>1 DEF TreesInv, ClaimsAreSound
  <2> QED
    BY <1>1, <1>2, <1>3, <2>2
<1> QED
  BY <1>2, <1>3

\* Every tree has its root among the roots.
LEMMA RootsAre ==
  ASSUME TreesInv
  PROVE  /\ Roots \in SUBSET Messages /\ Roots \subseteq Present
         /\ \A n \in Present : graph[n].root \in Roots
BY DEF TreesInv, Typed, Graphs, NodesAreSound, NodeIsSound, Roots, Present

\* /stop marks and cancels every turn of the trees, and makes older admissions stale.
LEMMA StopAllKeeps == ASSUME TreesInv, StopAll PROVE TreesInv'
<1>0. PICK R \in SUBSET Roots :
        /\ Reached(R) /\ CancelTrees(R)
        /\ IF R = Roots THEN Draining(ActiveOf(R), R, {}) ELSE UNCHANGED command
  BY DEF StopAll, CancelAll
<1> DEFINE claims == ActiveOf(R)
<1>1. /\ command.phase = "none" /\ fresh' = {} /\ UNCHANGED <<intake, active, stored, restarts>>
      /\ graph' = Marked(graph, RunnablesOf(R))
      /\ queue' = [r \in Messages |-> IF r \in R THEN << >> ELSE queue[r]]
      /\ cancelled' = [r \in Messages |-> cancelled[r] \/ (r \in R /\ active[r] # NoClaim)]
      /\ CancelTasks(claims)
  BY <1>0 DEF StopAll, StateLockFree, CancelTrees
<1>2. R \in SUBSET Messages /\ graph \in Graphs /\ DOMAIN graph = Present
      /\ queue \in [Messages -> Seq(Messages)]
      /\ active \in [Messages -> Deliveries \cup {NoClaim}] /\ cancelled \in [Messages -> BOOLEAN]
  BY RootsAre DEF TreesInv, Typed, Present
<1>3. /\ claims \in SUBSET Deliveries
      /\ \A s \in Messages : active[s] \in claims <=> (s \in R /\ active[s] # NoClaim)
      /\ \A n \in Present : graph[n].root \notin R /\ graph[n].state = "in_progress" =>
           graph[n].turn \notin claims
  BY <1>2, ActiveOfIs
<1> DEFINE S == RunnablesOf(R)
<1>4. \A n \in Present : n \in S <=> (graph[n].root \in R /\ graph[n].state \in {"pending", "in_progress"})
  BY DEF RunnablesOf, Runnable
<1>5. /\ graph' \in Graphs /\ SameShape(graph, graph')
      /\ \A n \in Present : /\ n \in S => graph'[n].state = "error"
                            /\ n \notin S => graph'[n].state = graph[n].state
  BY <1>1, <1>2, MarkedIs
<1> HIDE DEF S, claims
<1>6. \A n \in Present : Legible(graph'[n])
  <2>1. \A n \in Present : Legible(graph[n])
    BY DEF TreesInv, NodesAreSound, NodeIsSound, Present
  <2> QED
    BY <1>2, <1>5, <2>1 DEF Legible, SameShape, Interrupted
<1>7. /\ Present' = Present /\ NodesAreSound(graph')
      /\ \A n \in Present : /\ graph'[n].root = graph[n].root /\ graph'[n].turn = graph[n].turn
                            /\ graph'[n].status <=> graph[n].status
  BY <1>1, <1>5, <1>6, ShapesStay
<1>8. PICK E \in SUBSET Messages : E = {}
  OBVIOUS
<1>9. \A n \in Present : graph'[n].state \in {"pending", "in_progress"} =>
        graph[n].root \notin R /\ graph'[n].state = graph[n].state
  BY <1>4, <1>5
<1>10. NodesHalt(claims, E)
  BY <1>3, <1>5, <1>7, <1>8, <1>9 DEF NodesHalt
<1>11. ClaimsHalt(claims, E)
  <2>1. /\ active' \in [Messages -> Deliveries \cup {NoClaim}]
        /\ \A s \in Messages : active'[s] = IF s \in E THEN NoClaim ELSE active[s]
    BY <1>1, <1>2, <1>8
  <2>2. /\ cancelled' \in [Messages -> BOOLEAN]
        /\ \A s \in Messages :
             cancelled'[s] <=> (s \notin E /\ (cancelled[s] \/ active[s] \in claims))
    BY <1>1, <1>2, <1>3, <1>8
  <2>3. \A s \in Messages : active[s] # NoClaim /\ ~cancelled[s] /\ active[s] \notin claims =>
          s \notin E /\ Message[active[s]] \in Present'
    BY <1>7, <1>8 DEF TreesInv, ClaimsAreSound, Tree
  <2> QED
    BY <1>1, <2>1, <2>2, <2>3 DEF ClaimsHalt
<1>12. QueuesHalt
  <2>1. queue' \in [Messages -> Seq(Messages)]
    BY <1>1, <1>2
  <2>2. ASSUME NEW s \in Messages
        PROVE  /\ IsInjective(queue'[s])
               /\ \A n \in Range(queue'[s]) :
                    n \in Present' /\ graph'[n].root = s /\ graph'[n].state = "pending"
               /\ \A n \in Present' :
                    graph'[n].root = s /\ graph'[n].state = "pending" => n \in Range(queue'[s])
    <3>1. CASE s \in R
      <4>1. queue'[s] = << >>
        BY <1>1, <3>1
      <4>2. IsInjective(queue'[s]) /\ Range(queue'[s]) = {}
        BY <4>1 DEF IsInjective, Range
      <4> QED
        BY <1>7, <1>9, <3>1, <4>2
    <3>2. CASE s \notin R
      <4>1. queue'[s] = queue[s]
        BY <1>1, <3>2
      <4>2. \A n \in Present : graph[n].root = s => graph'[n].state = graph[n].state
        BY <1>4, <1>5, <3>2
      <4>3. /\ IsInjective(queue[s])
            /\ \A n \in Range(queue[s]) :
                 n \in Present /\ graph[n].root = s /\ graph[n].state = "pending"
            /\ \A n \in Present : graph[n].root = s /\ graph[n].state = "pending" => n \in Range(queue[s])
        BY QueueIs
      <4> QED
        BY <1>7, <4>1, <4>2, <4>3
    <3> QED
      BY <3>1, <3>2
  <2> QED
    BY <2>1, <2>2 DEF QueuesHalt
<1>13. /\ command' \in Commands /\ DOMAIN command'.snapshot = {} /\ command'.phase # "saving"
       /\ command'.phase = "none" => command' = NoCommand
       /\ command'.removed = {}
       /\ R = Roots => command'.phase = "draining" /\ command'.waits = claims
  <2>1. CASE R = Roots
    <3>1. Draining(claims, R, {})
      BY <1>0, <2>1 DEF claims
    <3>2. {} \in SUBSET Messages
      OBVIOUS
    <3> QED
      BY <1>2, <1>3, <3>1, <3>2, DrainingIs
  <2>2. CASE R # Roots
    <3>1. command' = command
      BY <1>0, <2>2
    <3> QED
      BY <1>1, <2>2, <3>1, CommandIs DEF TreesInv, Typed, StoreFollows
  <2> QED
    BY <2>1, <2>2
<1>14. CommandHalts(claims)
  BY <1>5, <1>4, <1>7, <1>13 DEF CommandHalts
<1>15. ASSUME ~SlowStop PROVE HaltsInTime(claims)
  <2>1. R = Roots
    BY <1>0, <1>1, <1>15, EverythingIsReached
  <2>2. \A n \in Present' : graph'[n].state # "pending"
    BY <1>7, <1>9, <2>1, RootsAre
  <2> QED
    BY <1>13, <2>1, <2>2 DEF HaltsInTime
<1>16. fresh' \in SUBSET Deliveries /\ UNCHANGED <<intake, stored, restarts>>
  BY <1>1
<1> QED
  BY <1>1, <1>3, <1>10, <1>11, <1>12, <1>14, <1>15, <1>16, HaltKeeps

\* /clear takes the trees of the chat away with their queues and claims.
LEMMA ClearChatKeeps == ASSUME TreesInv, ClearChat PROVE TreesInv'
<1>0. PICK R \in SUBSET Roots :
        /\ Reached(R)
        /\ graph' = SnapshotOf(graph, Roots \ R)
        /\ queue' = [r \in Messages |-> IF r \in R THEN << >> ELSE queue[r]]
        /\ active' = [r \in Messages |-> IF r \in R THEN NoClaim ELSE active[r]]
        /\ cancelled' = [r \in Messages |-> r \notin R /\ cancelled[r]]
        /\ CancelTasks(ActiveOf(R))
        /\ Draining(IF R = Roots THEN ActiveOf(R) ELSE {}, {}, Messages)
  BY DEF ClearChat, ClearScope
<1> DEFINE claims == ActiveOf(R)
           waits  == IF R = Roots THEN claims ELSE {}
<1>1. /\ command.phase = "none" /\ fresh' = {} /\ UNCHANGED <<intake, stored, restarts>>
      /\ CancelTasks(claims) /\ Draining(waits, {}, Messages)
  BY <1>0 DEF ClearChat, StateLockFree
<1>2. /\ R \in SUBSET Messages /\ graph \in Graphs /\ DOMAIN graph = Present
      /\ queue \in [Messages -> Seq(Messages)]
      /\ active \in [Messages -> Deliveries \cup {NoClaim}] /\ cancelled \in [Messages -> BOOLEAN]
      /\ \A n \in Present : graph[n].root \in Messages
  BY RootsAre, NodesAre DEF TreesInv, Typed, Present
<1>3. /\ claims \in SUBSET Deliveries
      /\ \A s \in Messages : active[s] \in claims <=> (s \in R /\ active[s] # NoClaim)
      /\ \A n \in Present : graph[n].root \notin R /\ graph[n].state = "in_progress" =>
           graph[n].turn \notin claims
  BY <1>2, ActiveOfIs
<1> HIDE DEF claims
<1>4. /\ command' \in Commands /\ command'.phase = "draining" /\ command'.waits = waits
      /\ DOMAIN command'.snapshot = {} /\ Touched' = Messages
  <2>1. waits \in SUBSET Deliveries /\ {} \in SUBSET Messages /\ Messages \in SUBSET Messages
    BY <1>3
  <2> HIDE DEF waits
  <2>2. {} \cup Messages = Messages
    OBVIOUS
  <2> QED
    BY <1>1, <2>1, <2>2, DrainingIs
<1>5. /\ graph' \in Graphs
      /\ DOMAIN graph' = {n \in Present : graph[n].root \in Roots \ R}
      /\ \A n \in Present : graph[n].root \in Roots \ R => graph'[n] = graph[n]
  BY <1>0, <1>2, SnapshotIs
<1>6. /\ Present' = {n \in Present : graph[n].root \notin R}
      /\ \A n \in Present : graph[n].root \notin R => n \in Present' /\ graph'[n] = graph[n]
  BY <1>5, RootsAre DEF Present
<1>7. NodesAreSound(graph')
  BY <1>0, <1>2, SnapshotIsSound DEF TreesInv
<1>8. NodesHalt(claims, R)
  BY <1>3, <1>5, <1>6, <1>7 DEF NodesHalt
<1>9. ClaimsHalt(claims, R)
  <2>1. /\ active' \in [Messages -> Deliveries \cup {NoClaim}]
        /\ \A s \in Messages : active'[s] = IF s \in R THEN NoClaim ELSE active[s]
    BY <1>0, <1>2
  <2>2. /\ cancelled' \in [Messages -> BOOLEAN]
        /\ \A s \in Messages : cancelled'[s] <=> (s \notin R /\ cancelled[s])
    BY <1>0, <1>2
  <2>3. \A s \in Messages :
          cancelled'[s] <=> (s \notin R /\ (cancelled[s] \/ active[s] \in claims))
    BY <1>3, <2>2
  <2>4. \A s \in Messages : active[s] # NoClaim /\ ~cancelled[s] /\ active[s] \notin claims =>
          s \notin R /\ Message[active[s]] \in Present'
    BY <1>3, <1>6 DEF TreesInv, ClaimsAreSound, Tree
  <2> QED
    BY <1>1, <2>1, <2>2, <2>3, <2>4 DEF ClaimsHalt
<1>10. QueuesHalt
  <2>1. queue' \in [Messages -> Seq(Messages)]
    BY <1>0, <1>2
  <2>2. ASSUME NEW s \in Messages
        PROVE  /\ IsInjective(queue'[s])
               /\ \A n \in Range(queue'[s]) :
                    n \in Present' /\ graph'[n].root = s /\ graph'[n].state = "pending"
               /\ \A n \in Present' :
                    graph'[n].root = s /\ graph'[n].state = "pending" => n \in Range(queue'[s])
    <3>1. CASE s \in R
      <4>1. queue'[s] = << >>
        BY <1>0, <1>2, <3>1
      <4>2. IsInjective(queue'[s]) /\ Range(queue'[s]) = {}
        BY <4>1 DEF IsInjective, Range
      <4> QED
        BY <1>6, <3>1, <4>2
    <3>2. CASE s \notin R
      <4>1. queue'[s] = queue[s]
        BY <1>0, <3>2
      <4>3. /\ IsInjective(queue[s])
            /\ \A n \in Range(queue[s]) :
                 n \in Present /\ graph[n].root = s /\ graph[n].state = "pending"
            /\ \A n \in Present : graph[n].root = s /\ graph[n].state = "pending" => n \in Range(queue[s])
        BY QueueIs
      <4> QED
        BY <1>6, <3>2, <4>1, <4>3
    <3> QED
      BY <3>1, <3>2
  <2> QED
    BY <2>1, <2>2 DEF QueuesHalt
<1>11. CommandHalts(claims)
  BY <1>2, <1>4, <1>6 DEF CommandHalts
<1>12. ASSUME ~SlowStop PROVE HaltsInTime(claims)
  <2>1. R = Roots
    BY <1>0, <1>1, <1>12, EverythingIsReached
  <2>2. Present' = {}
    BY <1>6, <2>1, RootsAre
  <2> QED
    BY <1>4, <2>1, <2>2 DEF HaltsInTime
<1>13. fresh' \in SUBSET Deliveries /\ UNCHANGED <<intake, stored, restarts>>
  BY <1>1
<1> QED
  BY <1>1, <1>2, <1>3, <1>8, <1>9, <1>10, <1>11, <1>12, <1>13, HaltKeeps

\* A clear that raises has ended some turns of a tree and changed nothing else.
LEMMA ClearAbortsKeeps ==
  ASSUME TreesInv, command.phase = "none", UNCHANGED <<intake, fresh, stored, restarts>>,
         NEW r \in Messages, NEW affected \in SUBSET Tree(r), ClearAborts(r, affected)
  PROVE  TreesInv'
<1>0. PICK S \in SUBSET affected :
        /\ graph' = Marked(graph, {m \in S : Runnable(m)})
        /\ queue' = [queue EXCEPT ![r] = Dequeued(@, S)]
        /\ UNCHANGED <<active, cancelled, task, command>>
  BY DEF ClearAborts
<1> DEFINE M == {m \in S : Runnable(m)}
<1>1. /\ graph \in Graphs /\ DOMAIN graph = Present /\ fresh \in SUBSET Deliveries
      /\ active \in [Messages -> Deliveries \cup {NoClaim}] /\ NoClaim \notin Deliveries
      /\ cancelled \in [Messages -> BOOLEAN] /\ task \in [Deliveries -> Tasks]
  BY TreesAssumption DEF TreesInv, Typed, TreesAssumption, Present
<1>2. \A n \in Present : graph[n].state \in {"pending", "in_progress"} => (n \in M <=> n \in S)
  BY DEF Runnable
<1>3. /\ graph' \in Graphs /\ SameShape(graph, graph')
      /\ \A n \in Present : /\ n \in M => graph'[n].state = "error"
                            /\ n \notin M => graph'[n].state = graph[n].state
  BY <1>0, <1>1, MarkedIs
<1>4. M \subseteq S /\ \A n \in Present : n \in M => graph[n].state \in {"pending", "in_progress"}
  BY DEF Runnable
<1> HIDE DEF M
<1>5. \A n \in Present : Legible(graph'[n])
  <2>1. \A n \in Present : Legible(graph[n])
    BY DEF TreesInv, NodesAreSound, NodeIsSound, Present
  <2> QED
    BY <1>1, <1>3, <2>1 DEF Legible, SameShape, Interrupted
<1>6. /\ Present' = Present /\ NodesAreSound(graph')
      /\ \A n \in Present : /\ graph'[n].root = graph[n].root /\ graph'[n].turn = graph[n].turn
                            /\ graph'[n].status <=> graph[n].status
  BY <1>3, <1>5, ShapesStay
<1>7. PICK E \in SUBSET Messages : E = {}
  OBVIOUS
<1>8. PICK claims \in SUBSET Deliveries : claims = {}
  OBVIOUS
<1>9. NodesHalt(claims, E)
  BY <1>3, <1>6, <1>7, <1>8 DEF NodesHalt
<1>10. ClaimsHalt(claims, E)
  <2>1. CancelTasks(claims)
    BY <1>0, <1>1, <1>8 DEF CancelTasks
  <2>2. \A s \in Messages : active[s] # NoClaim /\ ~cancelled[s] /\ active[s] \notin claims =>
          s \notin E /\ Message[active[s]] \in Present'
    BY <1>6, <1>7 DEF TreesInv, ClaimsAreSound, Tree
  <2> QED
    BY <1>0, <1>1, <1>7, <1>8, <2>1, <2>2 DEF ClaimsHalt
<1>11. QueuesHalt
  <2>1. \A n \in S : n \in Present => graph[n].root = r
    BY DEF Tree
  <2>2. queue' = [queue EXCEPT ![r] = Dequeued(queue[r], S)]
    BY <1>0
  <2>3. /\ queue' \in [Messages -> Seq(Messages)]
        /\ \A s \in Messages : Range(queue'[s]) = Range(queue[s]) \ S /\ IsInjective(queue'[s])
    BY <2>1, <2>2, QueueLoses
  <2>4. ASSUME NEW s \in Messages, NEW n \in Range(queue'[s])
        PROVE  n \in Present' /\ graph'[n].root = s /\ graph'[n].state = "pending"
    <3>1. n \in Range(queue[s]) /\ n \notin S
      BY <2>3, <2>4
    <3>2. n \in Present /\ graph[n].root = s /\ graph[n].state = "pending"
      BY <3>1, QueueIs
    <3> QED
      BY <1>3, <1>4, <1>6, <3>1, <3>2
  <2>5. ASSUME NEW s \in Messages, NEW n \in Present', graph'[n].root = s, graph'[n].state = "pending"
        PROVE  n \in Range(queue'[s])
    <3>1. n \in Present /\ graph[n].root = s /\ graph[n].state = "pending" /\ n \notin S
      BY <1>2, <1>3, <1>6, <2>5
    <3> QED
      BY <2>3, <3>1, QueueIs
  <2> QED
    BY <2>3, <2>4, <2>5 DEF QueuesHalt
<1>12. /\ command' = NoCommand /\ command' \in Commands /\ DOMAIN command'.snapshot = {}
       /\ command'.phase = "none" /\ command'.removed = {}
  BY <1>0, CommandIs DEF TreesInv, Typed, StoreFollows
<1>13. CommandHalts(claims)
  BY <1>3, <1>4, <1>6, <1>12 DEF CommandHalts
<1>14. ~SlowStop => HaltsInTime(claims)
  BY <1>3, <1>4, <1>6, <1>8, <1>12 DEF HaltsInTime, TreesInv, InTime, WaitingIsFresh
<1> QED
  BY <1>1, <1>9, <1>10, <1>11, <1>13, <1>14, HaltKeeps

-----------------------------------------------------------------------------
(* A reply's /clear.                                                        *)

\* What is below a reference of a tree.
LEMMA BelowIs ==
  ASSUME TreesInv, NEW ref \in References, Resolves(ref)
  PROVE  LET m == ref.message  r == graph[m].root IN
         /\ m \in Present /\ r \in Messages /\ m \in Tree(r)
         /\ Below(ref) \subseteq Tree(r)
         /\ ref.kind = "prompt" => m \in Below(ref)
         /\ ref.kind # "prompt" => m \notin Below(ref)
         /\ r \in Below(ref) => Below(ref) = Tree(r) /\ ref = PromptOf(r)
<1> DEFINE m == ref.message
           r == graph[m].root
<1>1. m \in Present /\ m \in Messages /\ r \in Messages /\ m \in Tree(r)
  BY NodesAre DEF Resolves, TreesInv, Typed, Present, References, Tree
<1>2. Below(ref) = {n \in Tree(r) : ref \in Above[n] \/ (ref.kind = "prompt" /\ n = m)}
  BY DEF Below
<1>3. ref \notin Above[m]
  BY <1>1, NothingIsAboveItself
<1>4. ASSUME r \in Below(ref) PROVE Below(ref) = Tree(r) /\ ref = PromptOf(r)
  <2>1. NodeIsSound(graph, m)
    BY <1>1 DEF TreesInv, NodesAreSound, Present
  <2>2. m = r
    <3> SUFFICES ASSUME m # r PROVE FALSE
      OBVIOUS
    <3>1. PromptOf(r) \in Above[m]
      BY <2>1 DEF NodeIsSound
    <3>2. ref \in Above[r]
      BY <1>2, <1>4
    <3>3. PromptOf(r).message = r
      BY DEF PromptOf
    <3>4. Above[r] \subseteq Above[m]
      BY <1>1, <3>1, <3>3, AboveIsTransitive
    <3> QED
      BY <1>3, <3>2, <3>4
  <2>3. ref.kind = "prompt"
    BY <1>2, <1>3, <1>4, <2>2
  <2>4. ref = PromptOf(r)
    BY <2>2, <2>3 DEF References, PromptOf
  <2>5. ASSUME NEW n \in Tree(r), n # r PROVE ref \in Above[n]
    <3>1. n \in Present /\ graph[n].root = r
      BY DEF Tree
    <3>2. NodeIsSound(graph, n)
      BY <3>1 DEF TreesInv, NodesAreSound, Present
    <3> QED
      BY <2>4, <2>5, <3>1, <3>2 DEF NodeIsSound
  <2> QED
    BY <1>2, <2>2, <2>3, <2>4, <2>5
<1> QED
  BY <1>1, <1>2, <1>3, <1>4

\* The nodes when a reference of one has been taken away.
Unreferred(g, m, kind) ==
  IF kind = "status"
  THEN [g EXCEPT ![m].status = FALSE, ![m].session = FALSE, ![m].state = "error"]
  ELSE g

\* Without its status message a node has failed, and stays where it is.
LEMMA UnreferredIs ==
  ASSUME NEW g \in Graphs, NEW m \in DOMAIN g, NEW kind
  PROVE  LET left == Unreferred(g, m, kind) IN
         /\ left \in Graphs /\ DOMAIN left = DOMAIN g
         /\ \A n \in DOMAIN g : /\ left[n].turn = g[n].turn /\ left[n].root = g[n].root
                                /\ n # m => left[n] = g[n]
         /\ kind = "status" => left[m].state = "error" /\ ~left[m].status /\ ~left[m].session
<1> DEFINE left == Unreferred(g, m, kind)
           node == [[[g[m] EXCEPT !.status = FALSE] EXCEPT !.session = FALSE] EXCEPT !.state = "error"]
<1>1. g[m] \in Nodes /\ g \in [DOMAIN g -> Nodes] /\ DOMAIN g \subseteq Messages
  BY NodesAre, GraphsAre
<1>2. /\ node \in Nodes /\ node.turn = g[m].turn /\ node.root = g[m].root
      /\ node.state = "error" /\ ~node.status /\ ~node.session
  BY <1>1 DEF Nodes, States
<1>3. CASE kind = "status"
  <2>1. left = [g EXCEPT ![m] = node]
    BY <1>1, <1>3 DEF Unreferred
  <2> HIDE DEF node, left
  <2>2. left \in [DOMAIN g -> Nodes] /\ left[m] = node /\ \A n \in DOMAIN g : n # m => left[n] = g[n]
    BY <1>1, <1>2, <2>1
  <2>3. left \in Graphs /\ DOMAIN left = DOMAIN g
    BY <1>1, <2>2, GraphsAre
  <2> QED
    BY <1>2, <2>2, <2>3 DEF left
<1>4. CASE kind # "status"
  BY <1>4 DEF Unreferred
<1> QED
  BY <1>3, <1>4

\* The nodes that a clear of a subtree leaves.
LEMMA RemainsAre ==
  ASSUME TreesInv, NEW ref \in References, Resolves(ref),
         NEW r \in Messages, r = graph[ref.message].root,
         NEW left \in Graphs, DOMAIN left = Present,
         \A n \in Present : /\ left[n].turn = graph[n].turn /\ left[n].root = graph[n].root
                            /\ n # ref.message => left[n] = graph[n],
         ref.kind = "status" =>
           /\ left[ref.message].state = "error"
           /\ ~left[ref.message].status /\ ~left[ref.message].session,
         graph' = Kept(left, Below(ref))
  PROVE  /\ graph' \in Graphs /\ Present' = Present \ Below(ref)
         /\ \A n \in Present' :
              /\ graph'[n].turn = graph[n].turn /\ graph'[n].root = graph[n].root
              /\ n # ref.message => graph'[n] = graph[n]
              /\ n = ref.message =>
                   graph'[n].state = "error" /\ ~graph'[n].status /\ ~graph'[n].session
         /\ NodesAreSound(graph')
<1> DEFINE m == ref.message
           gone == Below(ref)
<1>1. /\ m \in Present /\ m \in Tree(r) /\ gone \subseteq Tree(r)
      /\ ref.kind = "prompt" => m \in gone
      /\ r \in gone => gone = Tree(r)
  BY BelowIs
<1>2. graph \in Graphs /\ DOMAIN graph = Present
  BY DEF TreesInv, Typed, Present
<1>3. ref.kind = "prompt" \/ ref.kind = "status"
  BY DEF References
<1>4. /\ left \in Graphs /\ DOMAIN left = Present
      /\ \A n \in Present : /\ left[n].turn = graph[n].turn /\ left[n].root = graph[n].root
                            /\ n # m => left[n] = graph[n]
      /\ ref.kind = "status" => left[m].state = "error" /\ ~left[m].status /\ ~left[m].session
  OBVIOUS
<1> HIDE DEF m, gone
<1>5. /\ graph' \in Graphs /\ DOMAIN graph' = Present \ gone
      /\ \A n \in Present \ gone : graph'[n] = left[n]
  <2>1. graph' = Kept(left, gone)
    BY DEF gone
  <2>2. /\ Kept(left, gone) \in Graphs /\ DOMAIN Kept(left, gone) = DOMAIN left \ gone
        /\ \A n \in DOMAIN left \ gone : Kept(left, gone)[n] = left[n]
    BY KeptIs
  <2> QED
    BY <1>4, <2>1, <2>2
<1>6. Present' = Present \ gone
  BY <1>5 DEF Present
<1>7. \A n \in Present' :
        /\ graph'[n].turn = graph[n].turn /\ graph'[n].root = graph[n].root
        /\ n # m => graph'[n] = graph[n]
        /\ n = m => graph'[n].state = "error" /\ ~graph'[n].status /\ ~graph'[n].session
  <2>1. \A n \in Present' : n = m => ref.kind = "status"
    BY <1>1, <1>3, <1>6
  <2> QED
    BY <1>1, <1>4, <1>5, <1>6, <2>1
<1>8. ASSUME NEW n \in Present' PROVE NodeIsSound(graph', n)
  <2> DEFINE p == ReplyTo[n].message
             s == graph[n].root
  <2>1. n \in Present /\ n \notin gone /\ n \in Messages
    BY <1>2, <1>6, NodesAre
  <2>2. NodeIsSound(graph, n)
    BY <2>1 DEF TreesInv, NodesAreSound, Present
  <2>3. Message[graph'[n].turn] = n /\ Legible(graph'[n])
    <3>1. Message[graph[n].turn] = n /\ Legible(graph[n])
      BY <2>2 DEF NodeIsSound
    <3> QED
      BY <1>7, <3>1 DEF Legible, Interrupted
  <2>4. s \in Present /\ graph[s].root = s
    BY <1>2, <2>2 DEF NodeIsSound
  <2>5. s \in Present'
    <3> SUFFICES ASSUME s \in gone PROVE FALSE
      BY <1>6, <2>4
    <3>1. s = r
      BY <1>1, <2>4 DEF Tree
    <3>2. n \in Tree(r)
      BY <2>1, <3>1 DEF Tree
    <3> QED
      BY <1>1, <2>1, <3>1, <3>2
  <2>6. ASSUME n # s
        PROVE  /\ ReplyTo[n] \in References /\ p \in Present' /\ graph'[p].root = s
               /\ ReplyTo[n].kind = "status" => graph'[p].status
               /\ PromptOf(s) \in Above[n]
    <3>1. /\ ReplyTo[n] \in References /\ p \in Present /\ graph[p].root = s
          /\ ReplyTo[n].kind = "status" => graph[p].status
          /\ PromptOf(s) \in Above[n]
      BY <1>2, <2>2, <2>6 DEF NodeIsSound
    <3>2. ReplyTo[n] \in Above[n] /\ PromptOf(p) \in Above[n] /\ Above[p] \subseteq Above[n]
      BY <2>1, <3>1, AboveOfReply
    <3>3. ref \in Above[n] /\ s = r => FALSE
      <4>1. ref \in Above[n] /\ s = r => n \in gone
        BY <2>1 DEF gone, Below, Tree
      <4> QED
        BY <2>1, <4>1
    <3>4. p \notin gone
      <4> SUFFICES ASSUME p \in gone PROVE FALSE
        OBVIOUS
      <4>1. s = r /\ (ref \in Above[p] \/ (ref.kind = "prompt" /\ p = m))
        BY <1>1, <3>1 DEF gone, Below, Tree, m
      <4>2. ref.kind = "prompt" /\ p = m => ref = PromptOf(p)
        BY DEF References, PromptOf, m
      <4> QED
        BY <3>2, <3>3, <4>1, <4>2
    <3>5. ReplyTo[n].kind = "status" => p # m
      <4> SUFFICES ASSUME ReplyTo[n].kind = "status", p = m PROVE FALSE
        OBVIOUS
      <4>1. ref.kind = "status"
        BY <1>1, <1>3, <3>4
      <4>2. ref = ReplyTo[n]
        BY <3>1, <4>1 DEF References, m
      <4>3. s = r
        BY <3>1 DEF m
      <4> QED
        BY <3>2, <3>3, <4>2, <4>3
    <3>6. p \in Present' /\ graph'[p].root = s /\ (ReplyTo[n].kind = "status" => graph'[p].status)
      BY <1>6, <1>7, <3>1, <3>4, <3>5
    <3> QED
      BY <3>1, <3>6
  <2>7. graph'[n].root = s /\ graph'[s].root = s
    BY <1>7, <2>4, <2>5
  <2>8. DOMAIN graph' = Present'
    BY <1>5, <1>6
  <2> HIDE DEF s
  <2> QED
    BY <2>3, <2>5, <2>6, <2>7, <2>8 DEF NodeIsSound
<1>9. NodesAreSound(graph')
  BY <1>5, <1>6, <1>8 DEF NodesAreSound
<1> QED
  BY <1>5, <1>6, <1>7, <1>9 DEF m, gone

\* A clear of a subtree that does not raise.
LEMMA RemoveSubtreeKeeps ==
  ASSUME TreesInv, command.phase = "none", UNCHANGED <<intake, fresh, stored, restarts>>,
         NEW ref \in References, Resolves(ref), NEW r \in Messages, r = graph[ref.message].root,
         NEW affected, affected = Below(ref) \cup {ref.message},
         NEW claims, claims = IF RunsOne(r, affected) THEN {active[r]} ELSE {},
         RemoveSubtree(ref, r, affected, claims), CancelTasks(claims),
         Draining(claims, IF r \in Below(ref) THEN {} ELSE {r}, IF r \in Below(ref) THEN {r} ELSE {})
  PROVE  /\ TreesInv'
         /\ \A n \in Present' :
              /\ graph'[n].state = graph[n].state \/ ~graph'[n].status
              /\ graph'[n].session => graph[n].session
<1> DEFINE m == ref.message
           gone == Below(ref)
           whole == r \in gone
<1>1. /\ m \in Present /\ m \in Tree(r) /\ gone \subseteq Tree(r)
      /\ ref.kind = "prompt" => m \in gone
      /\ r \in gone => gone = Tree(r) /\ ref = PromptOf(r)
  BY BelowIs
<1>2. /\ graph \in Graphs /\ DOMAIN graph = Present /\ fresh \in SUBSET Deliveries
      /\ active \in [Messages -> Deliveries \cup {NoClaim}] /\ NoClaim \notin Deliveries
      /\ cancelled \in [Messages -> BOOLEAN]
      /\ \A n \in Present : graph[n].root \in Messages /\ graph[n].turn \in Deliveries
  BY TreesAssumption, NodesAre DEF TreesInv, Typed, TreesAssumption, Present
<1>3. PICK left : left = Unreferred(graph, m, ref.kind)
  OBVIOUS
<1>4. /\ graph' = Kept(left, Below(ref))
      /\ queue' = [queue EXCEPT ![r] = Dequeued(queue[r], affected)]
      /\ active' = [active EXCEPT ![r] = IF r \in gone THEN NoClaim ELSE active[r]]
      /\ cancelled' = [cancelled EXCEPT ![r] = r \notin gone /\ (cancelled[r] \/ claims # {})]
  BY <1>3 DEF RemoveSubtree, Unreferred
<1>5. /\ left \in Graphs /\ DOMAIN left = Present
      /\ \A n \in Present : /\ left[n].turn = graph[n].turn /\ left[n].root = graph[n].root
                            /\ n # m => left[n] = graph[n]
      /\ ref.kind = "status" => left[m].state = "error" /\ ~left[m].status /\ ~left[m].session
  <2> HIDE DEF m
  <2> QED
    BY <1>1, <1>2, <1>3, UnreferredIs
<1>6. /\ graph' \in Graphs /\ Present' = Present \ gone /\ NodesAreSound(graph')
      /\ \A n \in Present' :
           /\ graph'[n].turn = graph[n].turn /\ graph'[n].root = graph[n].root
           /\ n # m => graph'[n] = graph[n]
           /\ n = m => graph'[n].state = "error" /\ ~graph'[n].status /\ ~graph'[n].session
  BY <1>4, <1>5, RemainsAre
<1>7. /\ claims \in SUBSET Deliveries
      /\ \A x \in claims : x = active[r] /\ Message[x] \in affected
      /\ active[r] # NoClaim /\ Message[active[r]] \in affected => active[r] \in claims
  BY <1>2 DEF RunsOne
<1>8. \A s \in Messages : active[s] \in claims => s = r
  BY <1>2, <1>7 DEF TreesInv, ClaimsAreSound
<1>9. m \in affected /\ gone \subseteq affected /\ affected \subseteq Tree(r)
  BY <1>1
<1>10. whole => affected = Tree(r)
  BY <1>1
<1>11. \A n \in affected : n \in Present' => n = m
  BY <1>6
<1>12. PICK R \in SUBSET Messages : R = IF whole THEN {r} ELSE {}
  OBVIOUS
<1>13. /\ command' \in Commands /\ command'.phase = "draining" /\ command'.waits = claims
       /\ DOMAIN command'.snapshot = {} /\ Touched' = {r} /\ command'.removed = R
  <2>1. CASE whole
    <3>1. Draining(claims, {}, {r}) /\ {} \in SUBSET Messages /\ {r} \in SUBSET Messages
      BY <2>1
    <3>2. {} \cup {r} = {r}
      OBVIOUS
    <3> QED
      BY <1>7, <1>12, <2>1, <3>1, <3>2, DrainingIs
  <2>2. CASE ~whole
    <3>1. Draining(claims, {r}, {}) /\ {} \in SUBSET Messages /\ {r} \in SUBSET Messages
      BY <2>2
    <3>2. {r} \cup {} = {r}
      OBVIOUS
    <3> QED
      BY <1>7, <1>12, <2>2, <3>1, <3>2, DrainingIs
  <2> QED
    BY <2>1, <2>2
<1> HIDE DEF m, gone
<1>14. \A n \in Present' :
         graph'[n].state \in {"pending", "in_progress"} =>
           n \notin affected /\ graph'[n] = graph[n]
  BY <1>6, <1>11
<1>15. NodesHalt(claims, R)
  <2>1. ASSUME NEW n \in Present', graph'[n].state = "in_progress"
        PROVE  graph[n].turn \notin claims
    <3>1. Message[graph[n].turn] = n
      BY <1>2, <1>6 DEF TreesInv, NodesAreSound, NodeIsSound
    <3> QED
      BY <1>7, <1>14, <2>1, <3>1
  <2>2. \A n \in Present' : graph[n].root \notin R
    BY <1>1, <1>6, <1>12 DEF Tree
  <2> QED
    BY <1>6, <1>14, <2>1, <2>2 DEF NodesHalt
<1>16. \A s \in Messages : active[s] # NoClaim /\ ~cancelled[s] /\ active[s] \notin claims =>
         s \notin R /\ Message[active[s]] \in Present'
  <2> SUFFICES ASSUME NEW s \in Messages, active[s] # NoClaim, ~cancelled[s], active[s] \notin claims
               PROVE  s \notin R /\ Message[active[s]] \in Present'
    OBVIOUS
  <2>1. Message[active[s]] \in Tree(s) /\ Message[active[s]] \in Present
    BY DEF TreesInv, ClaimsAreSound, Tree
  <2>2. CASE s = r
    <3>1. Message[active[s]] \notin affected
      BY <1>7, <2>2
    <3> QED
      BY <1>6, <1>9, <1>10, <1>12, <2>1, <2>2, <3>1
  <2>3. CASE s # r
    <3>1. Message[active[s]] \notin gone
      BY <1>1, <2>1, <2>3 DEF Tree
    <3> QED
      BY <1>6, <1>12, <2>1, <2>3, <3>1
  <2> QED
    BY <2>2, <2>3
<1>17. ClaimsHalt(claims, R)
  <2>1. /\ active' \in [Messages -> Deliveries \cup {NoClaim}]
        /\ \A s \in Messages : active'[s] = IF s \in R THEN NoClaim ELSE active[s]
    BY <1>2, <1>4, <1>12
  <2>2. /\ cancelled' \in [Messages -> BOOLEAN]
        /\ cancelled'[r] <=> (~whole /\ (cancelled[r] \/ claims # {}))
        /\ \A s \in Messages : s # r => (cancelled'[s] <=> cancelled[s])
    BY <1>2, <1>4
  <2>3. claims # {} <=> active[r] \in claims
    BY <1>7
  <2>4. \A s \in Messages :
          cancelled'[s] <=> (s \notin R /\ (cancelled[s] \/ active[s] \in claims))
    BY <1>8, <1>12, <2>2, <2>3
  <2> QED
    BY <1>16, <2>1, <2>2, <2>4 DEF ClaimsHalt
<1>18. QueuesHalt
  <2>1. \A n \in affected : n \in Present => graph[n].root = r
    BY <1>9 DEF Tree
  <2>2. /\ queue' \in [Messages -> Seq(Messages)]
        /\ \A s \in Messages : Range(queue'[s]) = Range(queue[s]) \ affected /\ IsInjective(queue'[s])
    BY <1>4, <2>1, QueueLoses
  <2>3. ASSUME NEW s \in Messages, NEW n \in Range(queue'[s])
        PROVE  n \in Present' /\ graph'[n].root = s /\ graph'[n].state = "pending"
    <3>1. n \in Range(queue[s]) /\ n \notin affected
      BY <2>2, <2>3
    <3>2. n \in Present /\ graph[n].root = s /\ graph[n].state = "pending"
      BY <3>1, QueueIs
    <3> QED
      BY <1>6, <1>9, <3>1, <3>2
  <2>4. ASSUME NEW s \in Messages, NEW n \in Present', graph'[n].root = s, graph'[n].state = "pending"
        PROVE  n \in Range(queue'[s])
    <3>1. n \in Present /\ graph[n].root = s /\ graph[n].state = "pending" /\ n \notin affected
      BY <1>6, <1>14, <2>4
    <3> QED
      BY <2>2, <3>1, QueueIs
  <2> QED
    BY <2>2, <2>3, <2>4 DEF QueuesHalt
<1>19. CommandHalts(claims)
  <2>1. \A n \in Present : n \notin Present' => graph[n].root \in Touched'
    BY <1>1, <1>6, <1>13 DEF Tree
  <2>2. \A n \in Present' : graph'[n].root \notin Touched' =>
          /\ graph'[n].status <=> graph[n].status
          /\ graph[n].state = "completed" => graph'[n].state = "completed"
    BY <1>1, <1>6, <1>13 DEF Tree
  <2>3. ASSUME NEW n \in Present', ~graph'[n].status
        PROVE  ~graph[n].status \/ task[graph[n].turn] \in Ended \/ graph[n].turn \in claims
    <3>1. CASE n # m
      BY <1>6, <2>3, <3>1
    <3>2. CASE n = m /\ task[graph[n].turn] \notin Ended
      <4>1. graph[n].root = r /\ Message[graph[n].turn] = n
        BY <1>1, <1>2, <3>2 DEF Tree, TreesInv, NodesAreSound, NodeIsSound
      <4>2. active[r] = graph[n].turn
        BY <1>1, <3>2, <4>1 DEF TreesInv, ClaimsAreSound
      <4> QED
        BY <1>1, <1>2, <1>7, <1>9, <3>2, <4>1, <4>2
    <3> QED
      BY <3>1, <3>2
  <2> QED
    BY <1>13, <2>1, <2>2, <2>3 DEF CommandHalts
<1>20. ASSUME ~SlowStop PROVE HaltsInTime(claims)
  <2>1. \A n \in Present' : graph[n].root \notin command'.removed
    BY <1>13, <1>15 DEF NodesHalt
  <2>2. WaitingIsFresh
    BY <1>20 DEF TreesInv, InTime
  <2> QED
    BY <1>6, <1>13, <1>14, <2>1, <2>2 DEF HaltsInTime, WaitingIsFresh
<1>21. TreesInv'
  BY <1>2, <1>7, <1>15, <1>17, <1>18, <1>19, <1>20, HaltKeeps
<1>22. \A n \in Present' :
         /\ graph'[n].state = graph[n].state \/ ~graph'[n].status
         /\ graph'[n].session => graph[n].session
  BY <1>6
<1> QED
  BY <1>21, <1>22

\* /clear as a reply removes a subtree, or a whole tree with its root.
LEMMA ClearReplyKeeps ==
  ASSUME TreesInv, NEW ref \in References, ClearReply(ref) PROVE TreesInv'
<1>1. /\ command.phase = "none" /\ Resolves(ref)
      /\ UNCHANGED <<intake, fresh, stored, restarts>>
  BY DEF ClearReply, StateLockFree
<1>2. PICK r \in Messages : r = graph[ref.message].root
  BY <1>1, BelowIs
<1>3. PICK affected : affected = Below(ref) \cup {ref.message}
  OBVIOUS
<1>4. PICK claims : claims = IF RunsOne(r, affected) THEN {active[r]} ELSE {}
  OBVIOUS
<1>5. IF claims # {} /\ Nameless(r)
      THEN ClearAborts(r, affected)
      ELSE /\ RemoveSubtree(ref, r, affected, claims)
           /\ CancelTasks(claims)
           /\ Draining(claims, IF r \in Below(ref) THEN {} ELSE {r},
                       IF r \in Below(ref) THEN {r} ELSE {})
  BY <1>2, <1>3, <1>4 DEF ClearReply
<1>6. affected \in SUBSET Tree(r)
  BY <1>1, <1>2, <1>3, BelowIs
<1>7. CASE claims # {} /\ Nameless(r)
  BY <1>1, <1>5, <1>6, <1>7, ClearAbortsKeeps
<1>8. CASE ~(claims # {} /\ Nameless(r))
  BY <1>1, <1>2, <1>3, <1>4, <1>5, <1>8, RemoveSubtreeKeeps
<1> QED
  BY <1>7, <1>8

-----------------------------------------------------------------------------
(* Crash and restart.                                                       *)

\* from_snapshot refuses no tree of a sound store.
LEMMA SoundIsWellFormed ==
  ASSUME NEW g \in Graphs, NodesAreSound(g), NEW r
  PROVE  WellFormed(g, r)
BY DEF NodesAreSound, NodeIsSound, WellFormed

\* So a restart restores all that is stored, and what was interrupted has failed.
LEMMA RestoredIs ==
  ASSUME stored \in Graphs, NodesAreSound(stored)
  PROVE  /\ Restored \in Graphs /\ SameShape(stored, Restored) /\ NodesAreSound(Restored)
         /\ \A m \in DOMAIN stored :
              /\ Restored[m].state \notin {"pending", "in_progress"}
              /\ Restored[m].state # "error" => Restored[m].state = stored[m].state
<1> DEFINE kept == Kept(stored, {m \in DOMAIN stored : ~WellFormed(stored, stored[m].root)})
           cut  == {m \in DOMAIN kept : kept[m].state \in Interrupted}
<1>1. {m \in DOMAIN stored : ~WellFormed(stored, stored[m].root)} = {}
  BY SoundIsWellFormed
<1>2. kept \in Graphs /\ DOMAIN kept = DOMAIN stored /\ \A m \in DOMAIN stored : kept[m] = stored[m]
  BY <1>1, KeptIs
<1>3. Restored = Marked(kept, cut)
  BY DEF Restored, Reconciled
<1>4. \A m \in DOMAIN stored : m \notin cut => stored[m].state \notin {"pending", "in_progress"}
  BY <1>2 DEF Interrupted
<1> HIDE DEF kept, cut
<1>5. /\ Restored \in Graphs /\ SameShape(kept, Restored)
      /\ \A m \in DOMAIN kept : /\ m \in cut => Restored[m].state = "error"
                                /\ m \notin cut => Restored[m].state = kept[m].state
  BY <1>2, <1>3, MarkedIs
<1>6. SameShape(stored, Restored)
  BY <1>2, <1>5 DEF SameShape
<1>7. \A m \in DOMAIN stored :
        /\ Restored[m].state \notin {"pending", "in_progress"}
        /\ Restored[m].state # "error" => Restored[m].state = stored[m].state
  BY <1>2, <1>4, <1>5
<1>8. NodesAreSound(Restored)
  <2>1. \A m \in DOMAIN Restored : Legible(Restored[m])
    BY <1>6, <1>7 DEF Legible, Interrupted, SameShape
  <2> QED
    BY <1>5, <1>6, <2>1, ShapeIsSound
<1> QED
  BY <1>5, <1>6, <1>7, <1>8

\* A restart publishes what is stored and launches nothing.
LEMMA RestartKeeps == ASSUME TreesInv, Restart PROVE TreesInv'
<1>0. /\ stored \in Graphs /\ NodesAreSound(stored) /\ restarts \in 0 .. MaxRestarts /\ MaxRestarts \in Nat
      /\ intake \in [Deliveries -> {"away", "gone"} \cup Provisional]
      /\ task \in [Deliveries -> Tasks]
  BY TreesAssumption DEF TreesInv, Typed, TreesAssumption
<1> DEFINE g == Restored
<1>1. /\ g \in Graphs /\ SameShape(stored, g) /\ NodesAreSound(g)
      /\ \A m \in DOMAIN g : g[m].state \notin {"pending", "in_progress"}
  BY <1>0, RestoredIs DEF SameShape
<1>2. /\ graph' = g /\ stored' = g /\ fresh' = {} /\ command' = NoCommand
      /\ queue' = [r \in Messages |-> << >>]
      /\ active' = [r \in Messages |-> NoClaim]
      /\ cancelled' = [r \in Messages |-> FALSE]
      /\ task' = [d \in Deliveries |-> IF task[d] = "none" THEN "none" ELSE "done"]
      /\ intake' = [d \in Deliveries |->
           IF intake[d] \in Provisional THEN "gone" ELSE intake[d]]
      /\ restarts' = restarts + 1 /\ restarts < MaxRestarts
  BY DEF Restart
<1> HIDE DEF g
<1>3. NoCommand \in Commands /\ DOMAIN NoCommand.snapshot = {} /\ NoCommand.phase = "none"
      /\ NoCommand.removed = {} /\ NoCommand.roots = {}
  <2>1. << >> \in [{} -> Nodes]
    OBVIOUS
  <2>2. << >> \in Graphs
    BY <2>1 DEF Graphs
  <2> QED
    BY <2>2 DEF Commands, NoCommand
<1>4. \A d \in Deliveries : task'[d] \in Ended /\ (task'[d] # "none" => task[d] # "none")
  BY <1>2 DEF Ended
<1>5. \A d \in Deliveries : /\ intake[d] = "gone" => intake'[d] = "gone"
                            /\ intake'[d] # "reply"
  BY <1>2 DEF Provisional
<1>6. Typed'
  <2>1. intake' \in [Deliveries -> {"away", "gone"} \cup Provisional]
    BY <1>0, <1>2
  <2>2. task' \in [Deliveries -> Tasks]
    BY <1>0, <1>2 DEF Tasks, Ended
  <2>3. queue' \in [Messages -> Seq(Messages)] /\ cancelled' \in [Messages -> BOOLEAN]
    BY <1>2
  <2>4. restarts' \in 0 .. MaxRestarts
    BY <1>0, <1>2
  <2>5. active' \in [Messages -> Deliveries \cup {NoClaim}]
    BY <1>2
  <2> QED
    BY <1>1, <1>2, <1>3, <2>1, <2>2, <2>3, <2>4, <2>5 DEF Typed
<1>7. (NodesAreSound(graph) /\ NodesAreSound(stored) /\ NodesAreSound(command.snapshot))'
  BY <1>1, <1>2, <1>3 DEF NodesAreSound
<1>8. \A m \in DOMAIN g : g[m].turn \in Deliveries /\ intake'[g[m].turn] = "gone"
  BY <1>1, <1>5, NodesAre DEF TreesInv, AllHaveEntered, Entered, SameShape
<1>9. AllHaveEntered'
  BY <1>2, <1>3, <1>4, <1>5, <1>8 DEF TreesInv, AllHaveEntered, Entered
<1>10. Present' = DOMAIN g
  BY <1>2 DEF Present
<1>11. ClaimsAreSound'
  BY <1>1, <1>2, <1>4, <1>8, <1>10 DEF ClaimsAreSound
<1>12. QueuesMove'
  <2>1. \A r \in Messages : queue'[r] = << >> /\ active'[r] = NoClaim
    BY <1>2
  <2>2. Range(<< >>) = {} /\ IsInjective(<< >>)
    BY DEF Range, IsInjective
  <2>3. \A r \in Messages : {m \in Tree(r)' : graph'[m].state = "pending"} = {}
    BY <1>1, <1>2, <1>10 DEF Tree
  <2> QED
    BY <2>1, <2>2, <2>3 DEF QueuesMove
<1>13. RunnersAreOwned'
  BY <1>1, <1>2, <1>4, <1>10 DEF RunnersAreOwned, Ended
<1>14. StoreFollows'
  BY <1>2, <1>3, <1>10 DEF StoreFollows
<1>15. InTime'
  <2>1. StoreTells'
    BY <1>2, <1>3, <1>10 DEF StoreTells, Tells
  <2>2. NobodyIsNameless'
    BY <1>2, <1>4, <1>8, <1>10 DEF NobodyIsNameless
  <2>3. CancelledIsAwaited'
    BY <1>2 DEF CancelledIsAwaited
  <2>4. WaitingIsFresh'
    BY <1>1, <1>2, <1>10 DEF WaitingIsFresh
  <2> QED
    BY <2>1, <2>2, <2>3, <2>4 DEF InTime
<1> QED
  BY <1>6, <1>7, <1>9, <1>11, <1>12, <1>13, <1>14, <1>15 DEF TreesInv

-----------------------------------------------------------------------------
(* Every step.                                                              *)

\* However a task ends, the invariant is kept.
LEMMA FinishKeeps ==
  ASSUME TreesInv, NEW d \in Deliveries, Finish(d) PROVE TreesInv'
BY FinishDetachedKeeps, FinishAndContinueKeeps, FinishLastKeeps DEF Finish

\* So it is by every stop and clear.
LEMMA CommandKeeps == ASSUME TreesInv, Command PROVE TreesInv'
<1>1. Clearable \subseteq References
  BY TreesAssumption DEF TreesAssumption
<1>2. CASE StopAll
  BY <1>2, StopAllKeeps
<1>3. CASE ClearChat
  BY <1>3, ClearChatKeeps
<1>4. CASE \E m \in Messages : StopReply(m)
  BY <1>4, StopReplyKeeps
<1>5. CASE \E ref \in Clearable : ClearReply(ref)
  BY <1>1, <1>5, ClearReplyKeeps
<1> QED
  BY <1>2, <1>3, <1>4, <1>5 DEF Command

\* And so by every step: the invariant is inductive.
LEMMA StepKeeps == ASSUME TreesInv, [Next]_vars PROVE TreesInv'
<1>1. CASE UNCHANGED vars
  <2>1. UNCHANGED <<intake, fresh, trees, task, command, stored, restarts>>
    BY <1>1 DEF vars
  <2>2. /\ intake \in [Deliveries -> {"away", "gone"} \cup Provisional] /\ fresh \in SUBSET Deliveries
        /\ \A d \in Deliveries : intake[d] = "reply" => ReplyTo[Message[d]] \in References
    BY DEF TreesInv, Typed, AllHaveEntered
  <2> QED
    BY <2>1, <2>2, IntakeKeeps
<1>2. ASSUME NEW d \in Deliveries, Receive(d) PROVE TreesInv'
  BY <1>2, ReceiveKeeps
<1>3. ASSUME NEW d \in Deliveries, SendFails(d) PROVE TreesInv'
  BY <1>3, SendFailsKeeps
<1>4. ASSUME NEW d \in Deliveries, Reject(d) PROVE TreesInv'
  BY <1>4, RejectKeeps
<1>5. ASSUME NEW d \in Deliveries, Admit(d) PROVE TreesInv'
  BY <1>5, AdmitKeeps
<1>6. ASSUME NEW d \in Deliveries, Start(d) PROVE TreesInv'
  BY <1>6, StartKeeps
<1>7. ASSUME NEW d \in Deliveries, Finish(d) PROVE TreesInv'
  BY <1>7, FinishKeeps
<1>8. ASSUME NEW d \in Deliveries, NEW r \in Messages, Run(d, r) PROVE TreesInv'
  BY <1>8, RunKeeps
<1>9. CASE Command
  BY <1>9, CommandKeeps
<1>10. CASE Drained
  BY <1>10, DrainedKeeps
<1>11. CASE Save
  BY <1>11, SaveKeeps
<1>12. CASE Restart
  BY <1>12, RestartKeeps
<1> QED
  BY <1>1, <1>2, <1>3, <1>4, <1>5, <1>6, <1>7, <1>8, <1>9, <1>10, <1>11, <1>12 DEF Next

\* Turns, commands, saves and restarts in any order keep the trees, their queues, their
\* claims, their tasks and their store together, for any messages and any replies.
THEOREM TreesStayWhole == Spec => []TreesInv
<1>1. Init => TreesInv
  BY InitIsSound
<1>2. TreesInv /\ [Next]_vars => TreesInv'
  BY StepKeeps
<1> QED
  BY <1>1, <1>2, PTL DEF Spec

\* Queues, claims and tasks are never parted: MessageNodeQueue holds what is pending, the
\* claim of TreeQueueProcessor is on the turn whose task runs, and no turn in progress is
\* without a task that will end it.
THEOREM TreesStaySound == Spec => []TreesAreSound
<1>1. TreesInv => TreesAreSound
  <2> SUFFICES ASSUME TreesInv PROVE TypeOK
    BY DEF TreesInv, TreesAreSound
  <2>1. Typed
    BY DEF TreesInv
  <2>2. graph \in [Present -> Nodes] /\ Present \subseteq Messages
    BY <2>1, GraphsAre DEF Typed, Present
  <2>3. DOMAIN stored \subseteq Messages /\ \A m \in DOMAIN stored : stored[m] \in Nodes
    BY <2>1, NodesAre DEF Typed
  <2>4. /\ command.phase \in {"none", "draining", "saving"} /\ command.waits \subseteq Deliveries
        /\ command.roots \cup command.removed \subseteq Messages
    BY CommandIs
  <2> QED
    BY <2>1, <2>2, <2>3, <2>4 DEF Typed, TypeOK
<1> QED
  BY <1>1, TreesStayWhole, PTL

\* Whatever CLIs do, every tree of the store can be restored: a crash at any time leaves no
\* orphan, cycle or foreign node that from_snapshot would refuse.
THEOREM EveryTreeCanBeRestored ==
  Spec => [](\A m \in DOMAIN stored : WellFormed(stored, stored[m].root))
<1>1. TreesInv => \A m \in DOMAIN stored : WellFormed(stored, stored[m].root)
  BY SoundIsWellFormed DEF TreesInv, Typed
<1> QED
  BY <1>1, TreesStayWhole, PTL

\* If every CLI ends within CANCEL_TASK_DRAIN_TIMEOUT_S, the store and the published trees
\* agree whenever no command is at work: save_tree_snapshot of a runner and the saves of
\* stops and clears neither lose a turn nor bring one back, also after a restart.
THEOREM StoreKeepsUp ==
  ASSUME ~SlowStop
  PROVE  Spec => []StoreMatchesTrees
<1>1. TreesInv => StoreMatchesTrees
  <2> SUFFICES ASSUME TreesInv PROVE StoreMatchesTrees
    OBVIOUS
  <2>1. StoreTells /\ StoreFollows /\ stored \in Graphs /\ NodesAreSound(stored)
    BY DEF TreesInv, InTime, Typed
  <2>2. ASSUME command.phase = "none"
        PROVE  /\ DOMAIN stored = Present
               /\ \A m \in Present :
                    /\ stored[m].root = graph[m].root
                    /\ stored[m].status = graph[m].status
                    /\ stored[m].state = "completed" => graph[m].state = "completed"
    <3>1. Touched = {}
      BY <2>2, CommandIs
    <3>2. \A m \in Present : Tells(stored, m)
      BY <2>1, <3>1 DEF StoreTells
    <3>3. \A m \in DOMAIN stored : m \in Present /\ stored[m].root = graph[m].root
      BY <2>1, <3>1 DEF StoreFollows
    <3>4. ASSUME NEW m \in Present PROVE stored[m].status = graph[m].status
      <4>1. stored[m].status \in BOOLEAN /\ graph[m].status \in BOOLEAN
        BY <2>1, <3>2, NodesAre DEF Tells, TreesInv, Typed, Present
      <4>2. stored[m].status <=> graph[m].status
        BY <3>2 DEF Tells
      <4> QED
        BY <4>1, <4>2
    <3> QED
      BY <3>2, <3>3, <3>4 DEF Tells
  <2>3. \A m \in DOMAIN stored : WellFormed(stored, stored[m].root)
    BY <2>1, SoundIsWellFormed
  <2> QED
    BY <2>2, <2>3 DEF StoreMatchesTrees
<1> QED
  BY <1>1, TreesStayWhole, PTL

-----------------------------------------------------------------------------
(* Launches.                                                                *)

\* Only an admission and the end of another turn launch a task.
LEMMA MovesLaunchNobody ==
  ASSUME TreesInv, NEW d \in Deliveries, task[d] = "none", task'[d] = "launched"
  PROVE  /\ task' # task
         /\ \A x \in Deliveries, t \in Tasks :
              task' = [task EXCEPT ![x] = t] => x = d /\ t = "launched"
         /\ \A claims \in SUBSET Deliveries : ~CancelTasks(claims)
<1>1. task \in [Deliveries -> Tasks]
  BY DEF TreesInv, Typed
<1>2. task' # task
  OBVIOUS
<1>3. \A x \in Deliveries, t \in Tasks : task' = [task EXCEPT ![x] = t] => x = d /\ t = "launched"
  BY <1>1
<1>4. \A claims \in SUBSET Deliveries : ~CancelTasks(claims)
  BY <1>1, HaltedIs DEF CancelTasks
<1> QED
  BY <1>2, <1>3, <1>4

\* A runner launches no task.
LEMMA RunLaunchesNobody ==
  ASSUME TreesInv, NEW d \in Deliveries, task[d] = "none", task'[d] = "launched",
         NEW x \in Deliveries, NEW r \in Messages
  PROVE  ~Run(x, r)
<1>1. "unwinding" \in Tasks
  BY DEF Tasks
<1>2. task' # task /\ task' # [task EXCEPT ![x] = "unwinding"]
  BY <1>1, MovesLaunchNobody
<1> QED
  BY <1>2 DEF Run, RecordSession, Succeed, ErrorEvent, SessionRefused, RunnerRaises, EndsBadly,
     EndsWell, Move, trees

\* A stop or clear launches no task.
LEMMA CommandLaunchesNobody ==
  ASSUME TreesInv, NEW d \in Deliveries, task[d] = "none", task'[d] = "launched"
  PROVE  ~Command
<1>1. /\ task' # task /\ \A claims \in SUBSET Deliveries : ~CancelTasks(claims)
      /\ active \in [Messages -> Deliveries \cup {NoClaim}]
      /\ Clearable \subseteq References
  BY MovesLaunchNobody, TreesAssumption DEF TreesInv, Typed, TreesAssumption
<1>2. ASSUME NEW R \in SUBSET Roots PROVE ~CancelTasks(ActiveOf(R))
  <2>1. R \in SUBSET Messages
    BY RootsAre
  <2> QED
    BY <1>1, <2>1, ActiveOfIs
<1>3. \A r, S : r \in Messages => ~CancelTasks(IF RunsOne(r, S) THEN {active[r]} ELSE {})
  BY <1>1 DEF RunsOne
<1>4. ~StopAll
  BY <1>2 DEF StopAll, CancelAll, CancelTrees
<1>5. ~ClearChat
  BY <1>2 DEF ClearChat, ClearScope
<1>6. ASSUME NEW m \in Messages PROVE ~StopReply(m)
  <2> SUFFICES ASSUME StopReply(m) PROVE FALSE
    OBVIOUS
  <2>1. m \in Present /\ graph[m].root \in Messages
    BY NodesAre DEF StopReply, TreesInv, Typed, Present
  <2>2. CancelTasks(IF RunsOne(graph[m].root, {m}) THEN {active[graph[m].root]} ELSE {})
    BY DEF StopReply
  <2> QED
    BY <1>3, <2>1, <2>2
<1>7. ASSUME NEW ref \in References PROVE ~ClearReply(ref)
  <2> SUFFICES ASSUME ClearReply(ref) PROVE FALSE
    OBVIOUS
  <2>1. graph[ref.message].root \in Messages
    BY BelowIs DEF ClearReply
  <2>2. PICK r \in Messages : r = graph[ref.message].root
    BY <2>1
  <2>3. PICK S : S = Below(ref) \cup {ref.message}
    OBVIOUS
  <2>4. CancelTasks(IF RunsOne(r, S) THEN {active[r]} ELSE {}) \/ task' = task
    BY <2>2, <2>3 DEF ClearReply, ClearAborts
  <2> QED
    BY <1>1, <1>3, <2>4
<1> QED
  BY <1>1, <1>4, <1>5, <1>6, <1>7 DEF Command

\* A launched turn has not been passed by a stop of everything or a clear of its chat.
LEMMA LaunchedAreFresh ==
  ASSUME TreesInv, ~SlowStop, [Next]_vars, NEW d \in Deliveries,
         task[d] = "none", task'[d] = "launched"
  PROVE  d \in fresh
<1>1. /\ task' # task /\ task \in [Deliveries -> Tasks]
      /\ \A x \in Deliveries, t \in Tasks :
           task' = [task EXCEPT ![x] = t] => x = d /\ t = "launched"
  BY MovesLaunchNobody DEF TreesInv, Typed
<1>2. "running" \in Tasks /\ "done" \in Tasks
  BY DEF Tasks, Ended
<1>3. ~UNCHANGED vars /\ ~Drained /\ ~Save
  BY <1>1 DEF vars, Drained, Save
<1>4. ~Restart
  <2>1. Restart => task'[d] # "launched"
    BY DEF Restart
  <2> QED
    BY <2>1
<1>5. \A x \in Deliveries : ~Receive(x) /\ ~SendFails(x) /\ ~Reject(x)
  BY <1>1 DEF Receive, SendFails, Reject
<1>6. \A x \in Deliveries : ~Start(x) /\ ~FinishDetached(x)
  BY <1>1, <1>2 DEF Start, FinishDetached, Move
<1>7. \A x \in Deliveries, r \in Messages : ~FinishLast(x, r)
  BY <1>1, <1>2 DEF FinishLast, Move
<1>8. ASSUME NEW x \in Deliveries, Admit(x) PROVE d \in fresh
  <2>1. PICK r : EnqueueOrClaim(x, r) /\ x \in fresh
    BY <1>8 DEF Admit, Admissible
  <2>2. task' = [task EXCEPT ![x] = "launched"]
    BY <1>1, <2>1 DEF EnqueueOrClaim, Launched
  <2>3. "launched" \in Tasks
    BY DEF Tasks
  <2> QED
    BY <1>1, <2>1, <2>2, <2>3
<1>9. ASSUME NEW x \in Deliveries, NEW r \in Messages, FinishAndContinue(x, r) PROVE d \in fresh
  <2>1. PICK i \in Waiting(r) : ClaimNext(x, r, i)
    BY <1>9 DEF FinishAndContinue
  <2>2. PICK m : m = queue[r][i]
    OBVIOUS
  <2>3. m \in Present /\ graph[m].state = "pending"
    BY <2>1, <2>2 DEF Waiting, Tree
  <2>4. PICK t : t = graph[m].turn
    OBVIOUS
  <2>5. task' = [[task EXCEPT ![t] = "launched"] EXCEPT ![x] = "done"]
    BY <2>1, <2>2, <2>4 DEF ClaimNext, Launched
  <2>6. d = t
    BY <1>1, <2>5
  <2>7. WaitingIsFresh
    BY DEF TreesInv, InTime
  <2> QED
    BY <2>3, <2>4, <2>6, <2>7 DEF WaitingIsFresh
<1>10. ~Command
  BY CommandLaunchesNobody
<1>11. \A x \in Deliveries, r \in Messages : ~Run(x, r)
  BY RunLaunchesNobody
<1>12. PICK x \in Deliveries : Admit(x) \/ Finish(x)
  BY <1>3, <1>4, <1>5, <1>6, <1>10, <1>11 DEF Next
<1>13. CASE Admit(x)
  BY <1>8, <1>13
<1>14. CASE Finish(x)
  BY <1>6, <1>7, <1>9, <1>14 DEF Finish
<1> QED
  BY <1>12, <1>13, <1>14

\* If every CLI ends within the drain, a turn that came before a stop of everything or a
\* clear of its chat is not launched after it: the admission checks its token, and the
\* queue has been emptied by cancel_all before the end of the active turn can claim a next.
THEOREM StopsAreBoundaries ==
  ASSUME ~SlowStop
  PROVE  Spec => StopIsABoundary
<1>1. TreesInv /\ [Next]_vars =>
        [\A d \in Deliveries : task[d] = "none" /\ task'[d] = "launched" => d \in fresh]_vars
  BY LaunchedAreFresh
<1> QED
  BY <1>1, TreesStayWhole, PTL DEF Spec, StopIsABoundary

-----------------------------------------------------------------------------
(* Outcomes.                                                                *)

\* Where a turn is that has told its outcome.
Over == {"unwinding", "recovering", "done"}

\* The node of m tells what it told, or has lost its status.
Stays(m) ==
  /\ graph'[m].state = graph[m].state \/ ~graph'[m].status
  /\ graph'[m].session => graph[m].session

\* The node of such a turn is neither pending nor in progress.
LEMMA OverIs ==
  ASSUME TreesInv, NEW m \in Present, task[graph[m].turn] \in Over
  PROVE  /\ graph[m].state \notin {"pending", "in_progress"}
         /\ Message[graph[m].turn] = m
         /\ graph \in Graphs /\ DOMAIN graph = Present
BY DEF TreesInv, Typed, ClaimsAreSound, RunnersAreOwned, NodesAreSound, NodeIsSound, Present, Over

\* Marking other nodes.
LEMMA MarkedStays ==
  ASSUME TreesInv, NEW m \in Present, NEW S, m \notin S, graph' = Marked(graph, S)
  PROVE  Stays(m)
BY MarkedIs DEF TreesInv, Typed, Present, Stays

\* A runner leaves the outcomes of other turns.
LEMMA RunStays ==
  ASSUME TreesInv, NEW m \in Present, task[graph[m].turn] \in Over,
         NEW d \in Deliveries, NEW r \in Messages, Run(d, r)
  PROVE  Stays(m)
<1>1. task[d] = "running" /\ Owns(d, r)
  BY DEF Run, RecordSession, Succeed, ErrorEvent, SessionRefused, RunnerRaises, EndsBadly,
    EndsWell, Fail
<1>2. Message[d] \in Present /\ graph[Message[d]].turn = d /\ m # Message[d]
  BY <1>1, OwnTurn DEF Over
<1>3. /\ graph \in Graphs /\ DOMAIN graph = Present /\ graph \in [Present -> Nodes]
      /\ graph[m].state \notin {"pending", "in_progress"}
  BY OverIs, GraphsAre
<1>4. CASE RecordSession(d, r)
  BY <1>2, <1>3, <1>4 DEF RecordSession, Stays
<1>5. CASE Succeed(d, r)
  BY <1>2, <1>3, <1>5 DEF Succeed, Stays
<1>6. ASSUME NEW propagate, Fail(d, r, propagate) PROVE Stays(m)
  <2>1. m \notin FailedTurns(Message[d], propagate)
    BY <1>1, <1>2, <1>3, FailedTurnsAre
  <2> QED
    BY <1>6, <2>1, MarkedStays DEF Fail
<1>7. CASE EndsWell(d, r)
  BY <1>7 DEF EndsWell, trees, Stays
<1> QED
  BY <1>4, <1>5, <1>6, <1>7 DEF Run, ErrorEvent, SessionRefused, RunnerRaises, EndsBadly

\* The end of a turn, and the launch of the next, leave the outcomes there are.
LEMMA FinishStays ==
  ASSUME TreesInv, NEW m \in Present, task[graph[m].turn] \in Over,
         NEW d \in Deliveries, Finish(d)
  PROVE  Stays(m)
<1>1. CASE FinishDetached(d)
  BY <1>1 DEF FinishDetached, trees, Stays
<1>2. ASSUME NEW r \in Messages, FinishLast(d, r) PROVE Stays(m)
  BY <1>2 DEF FinishLast, Stays
<1>3. ASSUME NEW r \in Messages, FinishAndContinue(d, r) PROVE Stays(m)
  <2>1. PICK i \in Waiting(r) : ClaimNext(d, r, i)
    BY <1>3 DEF FinishAndContinue
  <2>2. PICK n : n = queue[r][i]
    OBVIOUS
  <2>3. n # m
    BY <2>1, <2>2, OverIs DEF Waiting
  <2>4. graph' = [graph EXCEPT ![n].state = "in_progress"]
    BY <2>1, <2>2 DEF ClaimNext
  <2> QED
    BY <2>3, <2>4, OverIs, GraphsAre DEF Stays
<1> QED
  BY <1>1, <1>2, <1>3 DEF Finish

\* A stop or clear leaves the outcomes there are, or takes the status message away.
LEMMA CommandStays ==
  ASSUME TreesInv, NEW m \in Present, task[graph[m].turn] \in Over, Command, m \in Present'
  PROVE  Stays(m)
<1>1. graph[m].state \notin {"pending", "in_progress"} /\ ~Runnable(m)
  BY OverIs DEF Runnable
<1>2. CASE StopAll
  <2>1. PICK R : graph' = Marked(graph, RunnablesOf(R))
    BY <1>2 DEF StopAll, CancelAll, CancelTrees
  <2>2. m \notin RunnablesOf(R)
    BY <1>1 DEF RunnablesOf
  <2> QED
    BY <2>1, <2>2, MarkedStays
<1>3. CASE ClearChat
  <2>1. PICK R : graph' = SnapshotOf(graph, R)
    BY <1>3 DEF ClearChat, ClearScope
  <2>2. /\ DOMAIN graph' = {n \in Present : graph[n].root \in R}
        /\ \A n \in Present : graph[n].root \in R => graph'[n] = graph[n]
    <3>1. graph \in Graphs /\ DOMAIN graph = Present
      BY OverIs
    <3>2. /\ DOMAIN SnapshotOf(graph, R) = {n \in DOMAIN graph : graph[n].root \in R}
          /\ \A n \in DOMAIN graph : graph[n].root \in R => SnapshotOf(graph, R)[n] = graph[n]
      BY <3>1, SnapshotIs
    <3> QED
      BY <2>1, <3>1, <3>2
  <2>3. graph'[m] = graph[m]
    BY <2>2 DEF Present
  <2> QED
    BY <2>3 DEF Stays
<1>4. ASSUME NEW x \in Messages, StopReply(x) PROVE Stays(m)
  <2>1. graph' = IF Runnable(x) THEN Marked(graph, {x}) ELSE graph
    BY <1>4 DEF StopReply, CancelNode
  <2>2. CASE Runnable(x)
    BY <1>1, <2>1, <2>2, MarkedStays
  <2>3. CASE ~Runnable(x)
    BY <2>1, <2>3 DEF Stays
  <2> QED
    BY <2>2, <2>3
<1>5. ASSUME NEW ref \in References, ClearReply(ref) PROVE Stays(m)
  <2>1. command.phase = "none" /\ Resolves(ref) /\ UNCHANGED <<intake, fresh, stored, restarts>>
    BY <1>5 DEF ClearReply, StateLockFree
  <2>2. PICK r \in Messages : r = graph[ref.message].root
    BY <2>1, BelowIs
  <2>3. PICK affected : affected = Below(ref) \cup {ref.message}
    OBVIOUS
  <2>4. PICK claims : claims = IF RunsOne(r, affected) THEN {active[r]} ELSE {}
    OBVIOUS
  <2>5. \/ ClearAborts(r, affected)
        \/ /\ RemoveSubtree(ref, r, affected, claims)
           /\ CancelTasks(claims)
           /\ Draining(claims, IF r \in Below(ref) THEN {} ELSE {r},
                       IF r \in Below(ref) THEN {r} ELSE {})
    BY <1>5, <2>2, <2>3, <2>4 DEF ClearReply
  <2>6. CASE ClearAborts(r, affected)
    <3>1. PICK S : graph' = Marked(graph, {x \in S : Runnable(x)})
      BY <2>6 DEF ClearAborts
    <3>2. m \notin {x \in S : Runnable(x)}
      BY <1>1
    <3> QED
      BY <3>1, <3>2, MarkedStays
  <2>7. CASE /\ RemoveSubtree(ref, r, affected, claims)
             /\ CancelTasks(claims)
             /\ Draining(claims, IF r \in Below(ref) THEN {} ELSE {r},
                         IF r \in Below(ref) THEN {r} ELSE {})
    BY <2>1, <2>2, <2>3, <2>4, <2>7, RemoveSubtreeKeeps DEF Stays
  <2> QED
    BY <2>5, <2>6, <2>7
<1>6. Clearable \subseteq References
  BY TreesAssumption DEF TreesAssumption
<1> QED
  BY <1>2, <1>3, <1>4, <1>5, <1>6 DEF Command

\* Until the next restart nothing changes an outcome that has been told.
LEMMA OutcomesStay ==
  ASSUME TreesInv, [Next]_vars, NEW m \in Present
  PROVE  OutcomeKept(m)
<1> SUFFICES ASSUME task[graph[m].turn] \in Over, m \in Present', restarts' = restarts
             PROVE  Stays(m)
  BY DEF OutcomeKept, Stays, Over, Present
<1> USE DEF trees
<1>1. CASE graph' = graph
  BY <1>1 DEF Stays
<1>2. ASSUME NEW d \in Deliveries, Admit(d) PROVE Stays(m)
  <2>1. graph' = AddTurn(d, TreeFor(d)) /\ intake[d] \in Provisional /\ Admissible(d)
    BY <1>2 DEF Admit, TreeFor
  <2>2. graph'[m] = graph[m]
    BY <2>1, AddTurnIs
  <2> QED
    BY <2>2 DEF Stays
<1>3. ~Restart
  <2>1. restarts \in Nat
    BY TreesAssumption DEF TreesInv, Typed, TreesAssumption
  <2> QED
    BY <2>1 DEF Restart
<1>4. ASSUME NEW d \in Deliveries, Receive(d) \/ SendFails(d) \/ Reject(d) \/ Start(d)
      PROVE  graph' = graph
  BY <1>4 DEF Receive, SendFails, Reject, Start
<1>5. UNCHANGED vars \/ Drained \/ Save => graph' = graph
  BY DEF vars, Drained, Save
<1>6. ASSUME NEW d \in Deliveries, Finish(d) PROVE Stays(m)
  BY <1>6, FinishStays
<1>7. ASSUME NEW d \in Deliveries, NEW r \in Messages, Run(d, r) PROVE Stays(m)
  BY <1>7, RunStays
<1>8. Command => Stays(m)
  BY CommandStays
<1> QED
  BY <1>1, <1>2, <1>3, <1>4, <1>5, <1>6, <1>7, <1>8 DEF Next

\* A task that has not ended is the active one of its tree, and there is one such claim.
LEMMA TurnsRunAlone == TreesInv => OneTurnPerTree
<1> SUFFICES ASSUME TreesInv, NEW m \in Present, NEW n \in Present, graph[m].root = graph[n].root,
                    task[graph[m].turn] \in {"launched", "running", "unwinding"},
                    task[graph[n].turn] \in {"launched", "running", "unwinding"}
             PROVE  m = n
  BY DEF OneTurnPerTree
<1>1. graph[m].turn = graph[n].turn
  BY DEF TreesInv, ClaimsAreSound, Ended
<1>2. Message[graph[m].turn] = m /\ Message[graph[n].turn] = n
  BY DEF TreesInv, NodesAreSound, NodeIsSound, Present
<1> QED
  BY <1>1, <1>2

\* The turns of a tree run one after the other and keep the outcome they ended with,
\* however long a CLI outlasts a stop: the claim of a cancelled turn is kept until its
\* task has ended, and late events of its runner find the claim gone or not theirs.
THEOREM TurnsStayOrderly == Spec => TurnsAreOrderly
<1>1. TreesInv /\ TreesInv' /\ [Next]_vars =>
        [OneTurnPerTree' /\ \A m \in Present : OutcomeKept(m)]_vars
  <2>1. TreesInv' => OneTurnPerTree'
    BY TurnsRunAlone, PTL
  <2> QED
    BY <2>1, OutcomesStay
<1>2. TreesInv /\ [Next]_vars => TreesInv'
  BY StepKeeps
<1> QED
  BY <1>1, <1>2, TreesStayWhole, PTL DEF Spec, TurnsAreOrderly
=============================================================================
