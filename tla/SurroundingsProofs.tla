-------------------------- MODULE SurroundingsProofs --------------------------
(***************************************************************************)
(* What surrounds the conversations, for any number of notes, prompts,      *)
(* commands, processes, calls, generations and attempts to sign in: who     *)
(* owns what arrives in a chat, how a sign-in finds its own tab, and what   *)
(* the processes that share an account's credentials do to one another; and *)
(* for any names, keys, settings, sources, accounts and exceptions, and any *)
(* number of changes, failed writes, damaged files, restarts and failing    *)
(* closes: what a server is set up with, what it lists, what it makes of a  *)
(* failure, and the server itself.                                          *)
(***************************************************************************)
EXTENDS MCSurroundings, TLAPS

(***************************************************************************)
(* The chat: what arrives, is stopped and is cleared.                       *)
(***************************************************************************)

FlowPlaces == {"idle", "posting", "binding", "waiting", "transcribing", "handler", "done"}
TurnPlaces == {"idle", "received", "admitting", "rejected", "orphaned", "over", "failed"}
OpPlaces == {"idle", "asked", "joining", "joined", "deleting", "done"}
OpKinds == {"none", "stop", "clear", "stopReply", "clearReply"}
NoticePlaces == {"idle", "sending", "delivered", "discarding", "done"}

ChatTyped ==
  /\ flow \in [Flows -> FlowPlaces]
  /\ registry \subseteq Flows
  /\ turn \in [Turns -> TurnPlaces]
  /\ node \in [Turns -> {"none", "live", "stopped", "removed"}]
  /\ token \in [Turns -> Nat \X Nat]
  /\ op \in [Callers -> [at : OpPlaces, kind : OpKinds, target : Turns \cup {NoTurn}]]
  /\ joins \in [Callers -> SUBSET Flows]
  /\ DOMAIN deletes = Callers
  /\ notice \in [at : NoticePlaces, gen : Nat]
  /\ stopGen \in Nat /\ clearGen \in Nat
  /\ cancelled \subseteq dropped
  /\ ended \subseteq Turns

\* A turn was received under generations that are past or present, and its
\* intake is over once it is in a tree.
Turnwise(x) ==
  /\ token[x][1] <= stopGen /\ token[x][2] <= clearGen
  /\ node[x] # "none" => turn[x] = "over"

\* A note is a turn or a command only in its handoff, and has no claim before it came.
Flowwise(f) ==
  /\ flow[f] # "handler" => Idle(f)
  /\ flow[f] \in {"idle", "posting", "binding", "waiting", "transcribing"} => turn[f] = "idle"
  /\ f \in registry => flow[f] # "idle"

\* No handoff of the note can begin any more, or the one it has is cancelled.
Doomed(f) ==
  /\ f \notin registry
  /\ flow[f] # "idle"
  /\ flow[f] = "handler" => f \in cancelled

\* What a command took over is doomed, has ended once it was waited for, and is what
\* the command was about.
Joining(c) ==
  \A f \in joins[c] :
    /\ op[c].at \notin {"idle", "asked"}
    /\ Doomed(f)
    /\ op[c].at = "joined" => turn[f] \in {"idle", "over", "failed"}
    /\ op[c].kind \in {"stop", "clear"} \/ Note[f] = UserMessage(op[c].target)[2]

\* What was ended is not live and cannot become so: its admission would find a later
\* generation, or its handoff does not begin.
Dead(x) ==
  /\ node[x] # "live"
  /\ turn[x] \in {"received", "admitting"} => ~NotCrossed(x)
  /\ turn[x] = "idle" => x \in Flows /\ Doomed(x)

\* A command has still to delete m.
Deleting(c, m) ==
  \/ op[c].at = "deleting" /\ m \in deletes[c]
  \/ op[c].at \in {"asked", "joining", "joined"} /\ op[c].kind = "clear" /\ m = UserMessage(c)

Kept(m) == m \in onChat => m \in tracked \cup refused \/ \E c \in Callers : Deleting(c, m)

\* From the intake of a turn on, its messages are kept.
MessagesKept(x) ==
  /\ turn[x] # "idle" => Kept(UserMessage(x))
  /\ turn[x] \in {"admitting", "rejected", "orphaned", "over"} /\ x \notin dropped => Kept(Status(x))

NoticeKept == notice.at \notin {"delivered", "discarding"} => Kept(Notice)

ChatInvariant ==
  /\ ChatTyped
  /\ \A x \in Turns : Turnwise(x)
  /\ \A f \in Flows : Flowwise(f)
  /\ \A c \in Callers : Joining(c)
  /\ \A x \in ended : Dead(x)
  /\ \A x \in Turns : MessagesKept(x)
  /\ NoticeKept

-----------------------------------------------------------------------------
LEMMA Messages ==
  /\ \A x, y : UserMessage(x) # Status(y) /\ UserMessage(x) # Notice /\ Status(x) # Notice
  /\ \A x, y : Status(x) = Status(y) => x = y
  /\ \A x \in Flows : UserMessage(x) = <<"user", Note[x]>>
  /\ \A x : x \notin Flows => UserMessage(x) = <<"user", x>>
BY DEF UserMessage, Status, Notice

\* A message that is deleted is gone, or was refused.
LEMMA Deleted ==
  ASSUME NEW messages, Delete(messages)
  PROVE  /\ onChat' \subseteq onChat
         /\ refused \subseteq refused'
         /\ messages \cap onChat' \subseteq refused'
BY DEF Delete

LEMMA KeptAgain ==
  ASSUME NEW m, Kept(m), m \in onChat' => m \in onChat \/ m \in tracked',
         m \in tracked => m \in tracked' \/ m \in refused' \/ m \notin onChat'
                          \/ \E c \in Callers : Deleting(c, m)',
         m \in refused => m \in refused',
         \A c \in Callers : Deleting(c, m) =>
            Deleting(c, m)' \/ m \in refused' \/ m \notin onChat'
  PROVE  Kept(m)'
BY DEF Kept

\* A step that deletes messages, and forgets no others, keeps what it does not delete.
LEMMA DeletingKeeps ==
  ASSUME NEW messages, Delete(messages), NEW m, Kept(m),
         tracked \ messages \subseteq tracked',
         \A c \in Callers : Deleting(c, m) => Deleting(c, m)' \/ m \in messages
  PROVE  Kept(m)'
<1>1. /\ onChat' \subseteq onChat
      /\ refused \subseteq refused'
      /\ messages \cap onChat' \subseteq refused'
  BY Deleted
<1>2. m \in messages => m \in refused' \/ m \notin onChat'
  BY <1>1
<1> HIDE DEF Delete
<1> QED BY <1>1, <1>2, KeptAgain

LEMMA AffectedAreInTrees ==
  ASSUME NEW c \in Callers
  PROVE  /\ \A x \in Affected(c) : x \in Turns /\ InTree(x)
         /\ op[c].kind \in {"stop", "clear"} => \A x \in Turns : InTree(x) => x \in Affected(c)
         /\ \A x \in Turns : InTree(x) /\ UserMessage(x) = UserMessage(op[c].target)
                               => x \in Affected(c)
<1>1. \A x \in Turns : InTree(x) => x \in Descendants(x)
  BY DEF Descendants
<1>2. \A x, y : y \in Descendants(x) => y \in Turns /\ InTree(y)
  BY DEF Descendants
<1> QED BY <1>1, <1>2 DEF Affected, Named

\* What a stop or a clear of the chat, or of a reply, has to end is ended by it.
LEMMA OldAreDead ==
  ASSUME ChatTyped, NEW c \in Callers, op[c].at = "joined", Joining(c), NEW x \in Old(c),
         Turnwise(x), \A y \in Flows : Flowwise(y)
  PROVE  /\ x \in Turns
         /\ node[x] = "live" => x \in Affected(c)
         /\ turn[x] \in {"received", "admitting"} => op[c].kind \in {"stop", "clear"}
         /\ turn[x] = "idle" => x \in Flows /\ Doomed(x)
<1>0. Flows \subseteq Turns
  BY DEF Turns
<1>1. CASE x \in joins[c]
  <2>1. x \in Flows /\ Doomed(x) /\ turn[x] \in {"idle", "over", "failed"}
    BY <1>1 DEF ChatTyped, Joining
  <2>2. op[c].kind \in {"stop", "clear"} \/ Note[x] = UserMessage(op[c].target)[2]
    BY <1>1 DEF Joining
  <2>3. ASSUME op[c].kind \notin {"stop", "clear"} PROVE UserMessage(x) = UserMessage(op[c].target)
    BY <2>1, <2>2, <2>3 DEF UserMessage
  <2>4. node[x] = "live" => x \in Affected(c)
    BY <1>0, <2>1, <2>3, AffectedAreInTrees DEF InTree
  <2> QED BY <1>0, <2>1, <2>4
<1>2. CASE x \in Affected(c)
  BY <1>2, AffectedAreInTrees DEF Turnwise, InTree
<1>3. CASE op[c].kind \in {"stop", "clear"} /\ x \in Turns /\ turn[x] # "idle"
  BY <1>3, AffectedAreInTrees DEF InTree
<1> QED BY <1>1, <1>2, <1>3 DEF Old


LEMMA ReserveKeeps ==
  ASSUME ChatInvariant, NEW f \in Flows, Reserve(f)
  PROVE  ChatInvariant'
<1>0. /\ ChatTyped
      /\ \A x \in Turns : Turnwise(x) /\ MessagesKept(x)
      /\ \A x \in Flows : x \in Turns /\ x \in Callers /\ Flowwise(x)
      /\ \A c \in Callers : Joining(c)
      /\ \A x \in ended : x \in Turns /\ Dead(x)
      /\ NoticeKept
  BY DEF ChatInvariant, ChatTyped, Turns, Callers
<1>1. ChatTyped'
  BY <1>0, SMTT(30) DEF Reserve, Go, voiceVars, turnVars, opVars, chatVars, gens, ChatTyped, FlowPlaces
<1>2. ASSUME NEW x \in Turns PROVE Turnwise(x)'
  BY <1>0 DEF Reserve, Go, voiceVars, turnVars, opVars, chatVars, gens, ChatTyped, Turnwise
<1>3. ASSUME NEW x \in Flows PROVE Flowwise(x)'
  BY <1>0 DEF Reserve, Go, voiceVars, turnVars, opVars, chatVars, gens, ChatTyped, Flowwise, Idle
<1>4. ASSUME NEW c \in Callers PROVE Joining(c)'
  BY <1>0 DEF Reserve, Go, voiceVars, turnVars, opVars, chatVars, gens, ChatTyped, Joining, Doomed
<1>5. ASSUME NEW x \in ended' PROVE Dead(x)'
  BY <1>0 DEF Reserve, Go, voiceVars, turnVars, opVars, chatVars, gens, ChatTyped, Dead,
    Doomed, NotCrossed
<1>6. ASSUME NEW x \in Turns PROVE MessagesKept(x)'
  <2>1. ASSUME turn'[x] # "idle" PROVE Kept(UserMessage(x))'
    <3>1. \A g \in Flows : Note[g] = Note[f] /\ turn[g] # "idle" => flow[g] # "idle" /\ g # f
      BY <1>0 DEF Reserve, Flowwise
    <3>2. ASSUME UserMessage(x) = UserMessage(f), UserMessage(f) \notin onChat
          PROVE  UserMessage(f) \notin onChat'
      <4>1. x \in Flows /\ Note[x] = Note[f]
        BY <3>2, Messages, ChatOwnershipConstants DEF Turns
      <4>2. \E g \in Flows \ {f} : Note[g] = Note[f] /\ flow[g] # "idle"
        BY <2>1, <3>1, <4>1 DEF Reserve, turnVars
      <4> QED BY <3>2, <4>2 DEF Reserve
    <3>3. UserMessage(x) \in onChat' => UserMessage(x) \in onChat
      BY <3>2 DEF Reserve
    <3>4. Kept(UserMessage(x))
      BY <1>0, <2>1 DEF MessagesKept, Reserve, turnVars
    <3> QED BY <3>3, <3>4, KeptAgain DEF Reserve, Deleting, turnVars, opVars
  <2>2. ASSUME turn'[x] \in {"admitting", "rejected", "orphaned", "over"}, x \notin dropped'
        PROVE  Kept(Status(x))'
    BY <1>0, <2>2, Messages DEF Reserve, Go, voiceVars, turnVars, opVars, chatVars, gens,
      ChatTyped, MessagesKept, Kept, Deleting
  <2> QED BY <2>1, <2>2 DEF MessagesKept
<1>7. NoticeKept'
  BY <1>0, Messages DEF Reserve, Go, voiceVars, turnVars, opVars, chatVars, gens, ChatTyped,
    NoticeKept, Kept, Deleting
<1> QED BY <1>1, <1>2, <1>3, <1>4, <1>5, <1>6, <1>7 DEF ChatInvariant

LEMMA PostStatusKeeps ==
  ASSUME ChatInvariant, NEW f \in Flows, PostStatus(f)
  PROVE  ChatInvariant'
<1>0. /\ ChatTyped
      /\ \A x \in Turns : Turnwise(x) /\ MessagesKept(x)
      /\ \A x \in Flows : x \in Turns /\ x \in Callers /\ Flowwise(x)
      /\ \A c \in Callers : Joining(c)
      /\ \A x \in ended : x \in Turns /\ Dead(x)
      /\ NoticeKept
  BY DEF ChatInvariant, ChatTyped, Turns, Callers
<1>1. ChatTyped'
  BY <1>0 DEF PostStatus, Go, voiceVars, turnVars, opVars, chatVars, gens, ChatTyped,
    FlowPlaces, TurnPlaces, OpPlaces, OpKinds, NoticePlaces
<1>2. ASSUME NEW x \in Turns PROVE Turnwise(x)'
  BY <1>0 DEF PostStatus, Go, voiceVars, turnVars, opVars, chatVars, gens, ChatTyped, Turnwise
<1>3. ASSUME NEW x \in Flows PROVE Flowwise(x)'
  BY <1>0 DEF PostStatus, Go, voiceVars, turnVars, opVars, chatVars, gens, ChatTyped, Flowwise,
    Idle
<1>4. ASSUME NEW c \in Callers PROVE Joining(c)'
  BY <1>0 DEF PostStatus, Go, voiceVars, turnVars, opVars, chatVars, gens, ChatTyped, Joining,
    Doomed
<1>5. ASSUME NEW x \in ended' PROVE Dead(x)'
  BY <1>0 DEF PostStatus, Go, voiceVars, turnVars, opVars, chatVars, gens, ChatTyped, Dead,
    Doomed, NotCrossed
<1>6. ASSUME NEW x \in Turns PROVE MessagesKept(x)'
  <2>1. ASSUME turn'[x] # "idle" PROVE Kept(UserMessage(x))'
    BY <1>0, <2>1, Messages DEF PostStatus, Go, voiceVars, turnVars, opVars, chatVars, gens,
      ChatTyped, MessagesKept, Kept, Deleting
  <2>2. ASSUME turn'[x] \in {"admitting", "rejected", "orphaned", "over"}, x \notin dropped'
        PROVE  Kept(Status(x))'
    <3>1. turn[f] = "idle"
      BY <1>0 DEF PostStatus, Flowwise
    <3>2. x # f
      BY <2>2, <3>1 DEF PostStatus, turnVars
    <3>3. Status(x) \in onChat' => Status(x) \in onChat
      BY <3>2, Messages DEF PostStatus
    <3>4. Kept(Status(x))
      BY <1>0, <2>2 DEF MessagesKept, PostStatus, turnVars
    <3> QED BY <3>3, <3>4, KeptAgain DEF PostStatus, Deleting, turnVars, opVars
  <2> QED BY <2>1, <2>2 DEF MessagesKept
<1>7. NoticeKept'
  BY <1>0, Messages DEF PostStatus, Go, voiceVars, turnVars, opVars, chatVars, gens, ChatTyped,
    NoticeKept, Kept, Deleting
<1> QED BY <1>1, <1>2, <1>3, <1>4, <1>5, <1>6, <1>7 DEF ChatInvariant

LEMMA BindStatusKeeps ==
  ASSUME ChatInvariant, NEW f \in Flows, BindStatus(f)
  PROVE  ChatInvariant'
<1>0. /\ ChatTyped
      /\ \A x \in Turns : Turnwise(x) /\ MessagesKept(x)
      /\ \A x \in Flows : x \in Turns /\ x \in Callers /\ Flowwise(x)
      /\ \A c \in Callers : Joining(c)
      /\ \A x \in ended : x \in Turns /\ Dead(x)
      /\ NoticeKept
  BY DEF ChatInvariant, ChatTyped, Turns, Callers
<1>1. ChatTyped'
  BY <1>0 DEF BindStatus, Go, voiceVars, turnVars, opVars, chatVars, gens, ChatTyped,
    FlowPlaces, TurnPlaces, OpPlaces, OpKinds, NoticePlaces
<1>2. ASSUME NEW x \in Turns PROVE Turnwise(x)'
  BY <1>0 DEF BindStatus, Go, voiceVars, turnVars, opVars, chatVars, gens, ChatTyped, Turnwise
<1>3. ASSUME NEW x \in Flows PROVE Flowwise(x)'
  BY <1>0 DEF BindStatus, Go, voiceVars, turnVars, opVars, chatVars, gens, ChatTyped, Flowwise,
    Idle
<1>4. ASSUME NEW c \in Callers PROVE Joining(c)'
  BY <1>0 DEF BindStatus, Go, voiceVars, turnVars, opVars, chatVars, gens, ChatTyped, Joining,
    Doomed
<1>5. ASSUME NEW x \in ended' PROVE Dead(x)'
  BY <1>0 DEF BindStatus, Go, voiceVars, turnVars, opVars, chatVars, gens, ChatTyped, Dead,
    Doomed, NotCrossed
<1>6. ASSUME NEW x \in Turns PROVE MessagesKept(x)'
  <2>1. ASSUME turn'[x] # "idle" PROVE Kept(UserMessage(x))'
    BY <1>0, <2>1, Messages DEF BindStatus, Go, voiceVars, turnVars, opVars, chatVars, gens,
      ChatTyped, MessagesKept, Kept, Deleting
  <2>2. ASSUME turn'[x] \in {"admitting", "rejected", "orphaned", "over"}, x \notin dropped'
        PROVE  Kept(Status(x))'
    BY <1>0, <2>2, Messages DEF BindStatus, Go, voiceVars, turnVars, opVars, chatVars, gens,
      ChatTyped, MessagesKept, Kept, Deleting
  <2> QED BY <2>1, <2>2 DEF MessagesKept
<1>7. NoticeKept'
  BY <1>0, Messages DEF BindStatus, Go, voiceVars, turnVars, opVars, chatVars, gens, ChatTyped,
    NoticeKept, Kept, Deleting
<1> QED BY <1>1, <1>2, <1>3, <1>4, <1>5, <1>6, <1>7 DEF ChatInvariant

LEMMA TranscribeKeeps ==
  ASSUME ChatInvariant, NEW f \in Flows, Transcribe(f)
  PROVE  ChatInvariant'
<1>0. /\ ChatTyped
      /\ \A x \in Turns : Turnwise(x) /\ MessagesKept(x)
      /\ \A x \in Flows : x \in Turns /\ x \in Callers /\ Flowwise(x)
      /\ \A c \in Callers : Joining(c)
      /\ \A x \in ended : x \in Turns /\ Dead(x)
      /\ NoticeKept
  BY DEF ChatInvariant, ChatTyped, Turns, Callers
<1>1. ChatTyped'
  BY <1>0 DEF Transcribe, Go, voiceVars, turnVars, opVars, chatVars, gens, ChatTyped,
    FlowPlaces, TurnPlaces, OpPlaces, OpKinds, NoticePlaces
<1>2. ASSUME NEW x \in Turns PROVE Turnwise(x)'
  BY <1>0 DEF Transcribe, Go, voiceVars, turnVars, opVars, chatVars, gens, ChatTyped, Turnwise
<1>3. ASSUME NEW x \in Flows PROVE Flowwise(x)'
  BY <1>0 DEF Transcribe, Go, voiceVars, turnVars, opVars, chatVars, gens, ChatTyped, Flowwise,
    Idle
<1>4. ASSUME NEW c \in Callers PROVE Joining(c)'
  BY <1>0 DEF Transcribe, Go, voiceVars, turnVars, opVars, chatVars, gens, ChatTyped, Joining,
    Doomed
<1>5. ASSUME NEW x \in ended' PROVE Dead(x)'
  BY <1>0 DEF Transcribe, Go, voiceVars, turnVars, opVars, chatVars, gens, ChatTyped, Dead,
    Doomed, NotCrossed
<1>6. ASSUME NEW x \in Turns PROVE MessagesKept(x)'
  <2>1. ASSUME turn'[x] # "idle" PROVE Kept(UserMessage(x))'
    BY <1>0, <2>1, Messages DEF Transcribe, Go, voiceVars, turnVars, opVars, chatVars, gens,
      ChatTyped, MessagesKept, Kept, Deleting
  <2>2. ASSUME turn'[x] \in {"admitting", "rejected", "orphaned", "over"}, x \notin dropped'
        PROVE  Kept(Status(x))'
    BY <1>0, <2>2, Messages DEF Transcribe, Go, voiceVars, turnVars, opVars, chatVars, gens,
      ChatTyped, MessagesKept, Kept, Deleting
  <2> QED BY <2>1, <2>2 DEF MessagesKept
<1>7. NoticeKept'
  BY <1>0, Messages DEF Transcribe, Go, voiceVars, turnVars, opVars, chatVars, gens, ChatTyped,
    NoticeKept, Kept, Deleting
<1> QED BY <1>1, <1>2, <1>3, <1>4, <1>5, <1>6, <1>7 DEF ChatInvariant

LEMMA HandoffKeeps ==
  ASSUME ChatInvariant, NEW f \in Flows, Handoff(f)
  PROVE  ChatInvariant'
<1>0. /\ ChatTyped
      /\ \A x \in Turns : Turnwise(x) /\ MessagesKept(x)
      /\ \A x \in Flows : x \in Turns /\ x \in Callers /\ Flowwise(x)
      /\ \A c \in Callers : Joining(c)
      /\ \A x \in ended : x \in Turns /\ Dead(x)
      /\ NoticeKept
  BY DEF ChatInvariant, ChatTyped, Turns, Callers
<1>1. ChatTyped'
  BY <1>0 DEF Handoff, Go, voiceVars, turnVars, opVars, chatVars, gens, ChatTyped, FlowPlaces,
    TurnPlaces, OpPlaces, OpKinds, NoticePlaces
<1>2. ASSUME NEW x \in Turns PROVE Turnwise(x)'
  BY <1>0 DEF Handoff, Go, voiceVars, turnVars, opVars, chatVars, gens, ChatTyped, Turnwise
<1>3. ASSUME NEW x \in Flows PROVE Flowwise(x)'
  BY <1>0 DEF Handoff, Go, voiceVars, turnVars, opVars, chatVars, gens, ChatTyped, Flowwise, Idle
<1>4. ASSUME NEW c \in Callers PROVE Joining(c)'
  BY <1>0 DEF Handoff, Go, voiceVars, turnVars, opVars, chatVars, gens, ChatTyped, Joining, Doomed
<1>5. ASSUME NEW x \in ended' PROVE Dead(x)'
  BY <1>0 DEF Handoff, Go, voiceVars, turnVars, opVars, chatVars, gens, ChatTyped, Dead,
    Doomed, NotCrossed
<1>6. ASSUME NEW x \in Turns PROVE MessagesKept(x)'
  <2>1. ASSUME turn'[x] # "idle" PROVE Kept(UserMessage(x))'
    BY <1>0, <2>1, Messages DEF Handoff, Go, voiceVars, turnVars, opVars, chatVars, gens,
      ChatTyped, MessagesKept, Kept, Deleting
  <2>2. ASSUME turn'[x] \in {"admitting", "rejected", "orphaned", "over"}, x \notin dropped'
        PROVE  Kept(Status(x))'
    BY <1>0, <2>2, Messages DEF Handoff, Go, voiceVars, turnVars, opVars, chatVars, gens,
      ChatTyped, MessagesKept, Kept, Deleting
  <2> QED BY <2>1, <2>2 DEF MessagesKept
<1>7. NoticeKept'
  BY <1>0, Messages DEF Handoff, Go, voiceVars, turnVars, opVars, chatVars, gens, ChatTyped,
    NoticeKept, Kept, Deleting
<1> QED BY <1>1, <1>2, <1>3, <1>4, <1>5, <1>6, <1>7 DEF ChatInvariant

LEMMA AbortKeeps ==
  ASSUME ChatInvariant, NEW f \in Flows, Abort(f)
  PROVE  ChatInvariant'
<1>0. /\ ChatTyped
      /\ \A x \in Turns : Turnwise(x) /\ MessagesKept(x)
      /\ \A x \in Flows : x \in Turns /\ x \in Callers /\ Flowwise(x)
      /\ \A c \in Callers : Joining(c)
      /\ \A x \in ended : x \in Turns /\ Dead(x)
      /\ NoticeKept
  BY DEF ChatInvariant, ChatTyped, Turns, Callers
<1>00. /\ \/ Delete({Status(f)})
          \/ UNCHANGED <<onChat, refused>>
       /\ UNCHANGED <<turn, tracked, notice>>
       /\ dropped \subseteq dropped'
       /\ \A m : \A c \in Callers : Deleting(c, m) => Deleting(c, m)'
  BY DEF Abort, Go, GiveUp, voiceVars, turnVars, opVars, Deleting
<1>1. ChatTyped'
  BY <1>0 DEF Abort, Go, GiveUp, voiceVars, turnVars, opVars, chatVars, gens, ChatTyped,
    FlowPlaces, TurnPlaces, OpPlaces, OpKinds, NoticePlaces
<1>2. ASSUME NEW x \in Turns PROVE Turnwise(x)'
  BY <1>0 DEF Abort, Go, GiveUp, voiceVars, turnVars, opVars, chatVars, gens, ChatTyped, Turnwise
<1>3. ASSUME NEW x \in Flows PROVE Flowwise(x)'
  BY <1>0 DEF Abort, Go, GiveUp, voiceVars, turnVars, opVars, chatVars, gens, ChatTyped,
    Flowwise, Idle
<1>4. ASSUME NEW c \in Callers PROVE Joining(c)'
  BY <1>0 DEF Abort, Go, GiveUp, voiceVars, turnVars, opVars, chatVars, gens, ChatTyped,
    Joining, Doomed
<1>5. ASSUME NEW x \in ended' PROVE Dead(x)'
  BY <1>0 DEF Abort, Go, GiveUp, voiceVars, turnVars, opVars, chatVars, gens, ChatTyped, Dead,
    Doomed, NotCrossed
<1>6. ASSUME NEW x \in Turns PROVE MessagesKept(x)'
  <2>1. ASSUME turn'[x] # "idle" PROVE Kept(UserMessage(x))'
    <3>1. Kept(UserMessage(x))
        BY <1>0, <2>1, <1>00 DEF MessagesKept
    <3> QED BY <3>1, <1>00, DeletingKeeps, KeptAgain
  <2>2. ASSUME turn'[x] \in {"admitting", "rejected", "orphaned", "over"}, x \notin dropped'
        PROVE  Kept(Status(x))'
    <3>1. Kept(Status(x))
        BY <1>0, <2>2, <1>00 DEF MessagesKept
    <3> QED BY <3>1, <1>00, DeletingKeeps, KeptAgain
  <2> QED BY <2>1, <2>2 DEF MessagesKept
<1>7. NoticeKept'
  <2>0. SUFFICES ASSUME notice'.at \notin {"delivered", "discarding"} PROVE Kept(Notice)'
    BY DEF NoticeKept
  <2>1. Kept(Notice)
      BY <1>0, <1>00, <2>0 DEF NoticeKept
  <2> QED BY <2>1, <1>00, DeletingKeeps, KeptAgain
<1> QED BY <1>1, <1>2, <1>3, <1>4, <1>5, <1>6, <1>7 DEF ChatInvariant

LEMMA FinishHandoffKeeps ==
  ASSUME ChatInvariant, NEW f \in Flows, FinishHandoff(f)
  PROVE  ChatInvariant'
<1>0. /\ ChatTyped
      /\ \A x \in Turns : Turnwise(x) /\ MessagesKept(x)
      /\ \A x \in Flows : x \in Turns /\ x \in Callers /\ Flowwise(x)
      /\ \A c \in Callers : Joining(c)
      /\ \A x \in ended : x \in Turns /\ Dead(x)
      /\ NoticeKept
  BY DEF ChatInvariant, ChatTyped, Turns, Callers
<1>1. ChatTyped'
  BY <1>0 DEF FinishHandoff, Go, voiceVars, turnVars, opVars, chatVars, gens, ChatTyped,
    FlowPlaces, TurnPlaces, OpPlaces, OpKinds, NoticePlaces
<1>2. ASSUME NEW x \in Turns PROVE Turnwise(x)'
  BY <1>0 DEF FinishHandoff, Go, voiceVars, turnVars, opVars, chatVars, gens, ChatTyped, Turnwise
<1>3. ASSUME NEW x \in Flows PROVE Flowwise(x)'
  BY <1>0 DEF FinishHandoff, Go, voiceVars, turnVars, opVars, chatVars, gens, ChatTyped,
    Flowwise, Idle
<1>4. ASSUME NEW c \in Callers PROVE Joining(c)'
  BY <1>0 DEF FinishHandoff, Go, voiceVars, turnVars, opVars, chatVars, gens, ChatTyped,
    Joining, Doomed
<1>5. ASSUME NEW x \in ended' PROVE Dead(x)'
  BY <1>0 DEF FinishHandoff, Go, voiceVars, turnVars, opVars, chatVars, gens, ChatTyped, Dead,
    Doomed, NotCrossed
<1>6. ASSUME NEW x \in Turns PROVE MessagesKept(x)'
  <2>1. ASSUME turn'[x] # "idle" PROVE Kept(UserMessage(x))'
    BY <1>0, <2>1, Messages DEF FinishHandoff, Go, voiceVars, turnVars, opVars, chatVars, gens,
      ChatTyped, MessagesKept, Kept, Deleting
  <2>2. ASSUME turn'[x] \in {"admitting", "rejected", "orphaned", "over"}, x \notin dropped'
        PROVE  Kept(Status(x))'
    BY <1>0, <2>2, Messages DEF FinishHandoff, Go, voiceVars, turnVars, opVars, chatVars, gens,
      ChatTyped, MessagesKept, Kept, Deleting
  <2> QED BY <2>1, <2>2 DEF MessagesKept
<1>7. NoticeKept'
  BY <1>0, Messages DEF FinishHandoff, Go, voiceVars, turnVars, opVars, chatVars, gens,
    ChatTyped, NoticeKept, Kept, Deleting
<1> QED BY <1>1, <1>2, <1>3, <1>4, <1>5, <1>6, <1>7 DEF ChatInvariant

LEMMA ReceiveKeeps ==
  ASSUME ChatInvariant, NEW t \in Turns, Receive(t)
  PROVE  ChatInvariant'
<1>0. /\ ChatTyped
      /\ \A x \in Turns : Turnwise(x) /\ MessagesKept(x)
      /\ \A x \in Flows : x \in Turns /\ x \in Callers /\ Flowwise(x)
      /\ \A c \in Callers : Joining(c)
      /\ \A x \in ended : x \in Turns /\ Dead(x)
      /\ NoticeKept
  BY DEF ChatInvariant, ChatTyped, Turns, Callers
<1>1. ChatTyped'
  BY <1>0 DEF Receive, MayReceive, voiceVars, turnVars, opVars, chatVars, gens, ChatTyped,
    FlowPlaces, TurnPlaces, OpPlaces, OpKinds, NoticePlaces
<1>2. ASSUME NEW x \in Turns PROVE Turnwise(x)'
  BY <1>0 DEF Receive, MayReceive, voiceVars, turnVars, opVars, chatVars, gens, ChatTyped,
    Turnwise
<1>3. ASSUME NEW x \in Flows PROVE Flowwise(x)'
  BY <1>0 DEF Receive, MayReceive, voiceVars, turnVars, opVars, chatVars, gens, ChatTyped,
    Flowwise, Idle
<1>4. ASSUME NEW c \in Callers PROVE Joining(c)'
  BY <1>0 DEF Receive, MayReceive, voiceVars, turnVars, opVars, chatVars, gens, ChatTyped,
    Joining, Doomed
<1>5. ASSUME NEW x \in ended' PROVE Dead(x)'
  BY <1>0 DEF Receive, MayReceive, voiceVars, turnVars, opVars, chatVars, gens, ChatTyped,
    Dead, Doomed, NotCrossed
<1>6. ASSUME NEW x \in Turns PROVE MessagesKept(x)'
  <2>1. ASSUME turn'[x] # "idle" PROVE Kept(UserMessage(x))'
    BY <1>0, <2>1, Messages DEF Receive, MayReceive, voiceVars, turnVars, opVars, chatVars,
      gens, ChatTyped, MessagesKept, Kept, Deleting
  <2>2. ASSUME turn'[x] \in {"admitting", "rejected", "orphaned", "over"}, x \notin dropped'
        PROVE  Kept(Status(x))'
    BY <1>0, <2>2, Messages DEF Receive, MayReceive, voiceVars, turnVars, opVars, chatVars,
      gens, ChatTyped, MessagesKept, Kept, Deleting
  <2> QED BY <2>1, <2>2 DEF MessagesKept
<1>7. NoticeKept'
  BY <1>0, Messages DEF Receive, MayReceive, voiceVars, turnVars, opVars, chatVars, gens,
    ChatTyped, NoticeKept, Kept, Deleting
<1> QED BY <1>1, <1>2, <1>3, <1>4, <1>5, <1>6, <1>7 DEF ChatInvariant

LEMMA ShowStatusKeeps ==
  ASSUME ChatInvariant, NEW t \in Turns, ShowStatus(t)
  PROVE  ChatInvariant'
<1>0. /\ ChatTyped
      /\ \A x \in Turns : Turnwise(x) /\ MessagesKept(x)
      /\ \A x \in Flows : x \in Turns /\ x \in Callers /\ Flowwise(x)
      /\ \A c \in Callers : Joining(c)
      /\ \A x \in ended : x \in Turns /\ Dead(x)
      /\ NoticeKept
  BY DEF ChatInvariant, ChatTyped, Turns, Callers
<1>1. ChatTyped'
  BY <1>0 DEF ShowStatus, voiceVars, turnVars, opVars, chatVars, gens, ChatTyped, FlowPlaces,
    TurnPlaces, OpPlaces, OpKinds, NoticePlaces
<1>2. ASSUME NEW x \in Turns PROVE Turnwise(x)'
  BY <1>0 DEF ShowStatus, voiceVars, turnVars, opVars, chatVars, gens, ChatTyped, Turnwise
<1>3. ASSUME NEW x \in Flows PROVE Flowwise(x)'
  BY <1>0 DEF ShowStatus, voiceVars, turnVars, opVars, chatVars, gens, ChatTyped, Flowwise, Idle
<1>4. ASSUME NEW c \in Callers PROVE Joining(c)'
  BY <1>0 DEF ShowStatus, voiceVars, turnVars, opVars, chatVars, gens, ChatTyped, Joining, Doomed
<1>5. ASSUME NEW x \in ended' PROVE Dead(x)'
  BY <1>0 DEF ShowStatus, voiceVars, turnVars, opVars, chatVars, gens, ChatTyped, Dead, Doomed,
    NotCrossed
<1>6. ASSUME NEW x \in Turns PROVE MessagesKept(x)'
  <2>1. ASSUME turn'[x] # "idle" PROVE Kept(UserMessage(x))'
    BY <1>0, <2>1, Messages DEF ShowStatus, voiceVars, turnVars, opVars, chatVars, gens,
      ChatTyped, MessagesKept, Kept, Deleting
  <2>2. ASSUME turn'[x] \in {"admitting", "rejected", "orphaned", "over"}, x \notin dropped'
        PROVE  Kept(Status(x))'
    BY <1>0, <2>2, Messages DEF ShowStatus, voiceVars, turnVars, opVars, chatVars, gens,
      ChatTyped, MessagesKept, Kept, Deleting
  <2> QED BY <2>1, <2>2 DEF MessagesKept
<1>7. NoticeKept'
  BY <1>0, Messages DEF ShowStatus, voiceVars, turnVars, opVars, chatVars, gens, ChatTyped,
    NoticeKept, Kept, Deleting
<1> QED BY <1>1, <1>2, <1>3, <1>4, <1>5, <1>6, <1>7 DEF ChatInvariant

\* A turn ends before its admission.
LEMMA StatusFailsKeeps ==
  ASSUME ChatInvariant, NEW t \in Turns, StatusFails(t) \/ Unwind(t)
  PROVE  ChatInvariant'
<1>0. /\ ChatTyped
      /\ \A x \in Turns : Turnwise(x) /\ MessagesKept(x)
      /\ \A x \in Flows : x \in Turns /\ x \in Callers /\ Flowwise(x)
      /\ \A c \in Callers : Joining(c)
      /\ \A x \in ended : x \in Turns /\ Dead(x)
      /\ NoticeKept
  BY DEF ChatInvariant, ChatTyped, Turns, Callers
<1>a. /\ \E place \in {"over", "failed"} : turn' = [turn EXCEPT ![t] = place]
      /\ UNCHANGED <<flow, registry, cancelled, op, joins>>
  BY DEF StatusFails, Unwind, voiceVars, opVars
<1>1. ChatTyped'
  BY <1>0 DEF StatusFails, Unwind, voiceVars, turnVars, opVars, chatVars, gens, ChatTyped, FlowPlaces,
    TurnPlaces, OpPlaces, OpKinds, NoticePlaces
<1>2. ASSUME NEW x \in Turns PROVE Turnwise(x)'
  BY <1>0 DEF StatusFails, Unwind, voiceVars, turnVars, opVars, chatVars, gens, ChatTyped, Turnwise
<1>3. ASSUME NEW x \in Flows PROVE Flowwise(x)'
  BY <1>0 DEF StatusFails, Unwind, voiceVars, turnVars, opVars, chatVars, gens, ChatTyped, Flowwise, Idle
<1>4. ASSUME NEW c \in Callers PROVE Joining(c)'
  BY <1>0, <1>a DEF ChatTyped, Joining, Doomed
<1>5. ASSUME NEW x \in ended' PROVE Dead(x)'
  BY <1>0 DEF StatusFails, Unwind, voiceVars, turnVars, opVars, chatVars, gens, ChatTyped, Dead, Doomed,
    NotCrossed
<1>6. ASSUME NEW x \in Turns PROVE MessagesKept(x)'
  <2>1. ASSUME turn'[x] # "idle" PROVE Kept(UserMessage(x))'
    BY <1>0, <2>1, Messages DEF StatusFails, Unwind, voiceVars, turnVars, opVars, chatVars, gens, ChatTyped,
      MessagesKept, Kept, Deleting
  <2>2. ASSUME turn'[x] \in {"admitting", "rejected", "orphaned", "over"}, x \notin dropped'
        PROVE  Kept(Status(x))'
    BY <1>0, <2>2, Messages DEF StatusFails, Unwind, voiceVars, turnVars, opVars, chatVars, gens, ChatTyped,
      MessagesKept, Kept, Deleting
  <2> QED BY <2>1, <2>2 DEF MessagesKept
<1>7. NoticeKept'
  BY <1>0, Messages DEF StatusFails, Unwind, voiceVars, turnVars, opVars, chatVars, gens, ChatTyped,
    NoticeKept, Kept, Deleting
<1> QED BY <1>1, <1>2, <1>3, <1>4, <1>5, <1>6, <1>7 DEF ChatInvariant

LEMMA AdmitKeeps ==
  ASSUME ChatInvariant, NEW t \in Turns, Admit(t)
  PROVE  ChatInvariant'
<1>0. /\ ChatTyped
      /\ \A x \in Turns : Turnwise(x) /\ MessagesKept(x)
      /\ \A x \in Flows : x \in Turns /\ x \in Callers /\ Flowwise(x)
      /\ \A c \in Callers : Joining(c)
      /\ \A x \in ended : x \in Turns /\ Dead(x)
      /\ NoticeKept
  BY DEF ChatInvariant, ChatTyped, Turns, Callers
<1>1. ChatTyped'
  BY <1>0 DEF Admit, voiceVars, turnVars, opVars, chatVars, gens, ChatTyped, FlowPlaces,
    TurnPlaces, OpPlaces, OpKinds, NoticePlaces
<1>2. ASSUME NEW x \in Turns PROVE Turnwise(x)'
  BY <1>0 DEF Admit, voiceVars, turnVars, opVars, chatVars, gens, ChatTyped, Turnwise
<1>3. ASSUME NEW x \in Flows PROVE Flowwise(x)'
  <2>1. /\ turn[t] = "admitting" /\ \E place : turn' = [turn EXCEPT ![t] = place]
        /\ UNCHANGED <<flow, registry, op>>
    BY DEF Admit, voiceVars, opVars
  <2>2. (turn'[x] = turn[x] \/ x = t) /\ Flowwise(x)
    BY <1>0, <2>1 DEF ChatTyped
  <2> QED BY <2>1, <2>2 DEF Flowwise, Idle
<1>4. ASSUME NEW c \in Callers PROVE Joining(c)'
  BY <1>0 DEF Admit, voiceVars, turnVars, opVars, chatVars, gens, ChatTyped, Joining, Doomed
<1>5. ASSUME NEW x \in ended' PROVE Dead(x)'
  BY <1>0 DEF Admit, voiceVars, turnVars, opVars, chatVars, gens, ChatTyped, Dead, Doomed,
    NotCrossed
<1>6. ASSUME NEW x \in Turns PROVE MessagesKept(x)'
  <2>1. ASSUME turn'[x] # "idle" PROVE Kept(UserMessage(x))'
    BY <1>0, <2>1, Messages DEF Admit, voiceVars, turnVars, opVars, chatVars, gens, ChatTyped,
      MessagesKept, Kept, Deleting
  <2>2. ASSUME turn'[x] \in {"admitting", "rejected", "orphaned", "over"}, x \notin dropped'
        PROVE  Kept(Status(x))'
    BY <1>0, <2>2, Messages DEF Admit, voiceVars, turnVars, opVars, chatVars, gens, ChatTyped,
      MessagesKept, Kept, Deleting
  <2> QED BY <2>1, <2>2 DEF MessagesKept
<1>7. NoticeKept'
  BY <1>0, Messages DEF Admit, voiceVars, turnVars, opVars, chatVars, gens, ChatTyped,
    NoticeKept, Kept, Deleting
<1> QED BY <1>1, <1>2, <1>3, <1>4, <1>5, <1>6, <1>7 DEF ChatInvariant

LEMMA DiscardKeeps ==
  ASSUME ChatInvariant, NEW t \in Turns, Discard(t) \/ UnwindRejected(t)
  PROVE  ChatInvariant'
<1>0. /\ ChatTyped
      /\ \A x \in Turns : Turnwise(x) /\ MessagesKept(x)
      /\ \A x \in Flows : x \in Turns /\ x \in Callers /\ Flowwise(x)
      /\ \A c \in Callers : Joining(c)
      /\ \A x \in ended : x \in Turns /\ Dead(x)
      /\ NoticeKept
  BY DEF ChatInvariant, ChatTyped, Turns, Callers
<1>00. \E messages : /\ Delete(messages)
                     /\ tracked \ messages \subseteq tracked'
                     /\ \A x \in Turns : turn'[x] = turn[x] \/ turn[x] \in Unadmitted
                     /\ UNCHANGED <<notice, dropped>>
                     /\ \A m : \A c \in Callers : Deleting(c, m) => Deleting(c, m)'
  <2>1. /\ \A x \in Turns : turn'[x] = turn[x] \/ turn[x] \in Unadmitted
        /\ UNCHANGED <<notice, dropped>>
        /\ \A m : \A c \in Callers : Deleting(c, m) => Deleting(c, m)'
    BY <1>0 DEF Discard, UnwindRejected, Unadmitted, opVars, Deleting, ChatTyped
  <2>2. CASE Delete(Discarded(t))
    <3>1. tracked \ Discarded(t) \subseteq tracked'
      BY DEF Discard, UnwindRejected
    <3> QED BY <2>1, <2>2, <3>1
  <2>3. CASE UNCHANGED <<onChat, refused>> /\ UnwindRejected(t)
    <3>1. Delete({}) /\ tracked \ {} \subseteq tracked'
      BY <2>3 DEF Delete, UnwindRejected
    <3> QED BY <2>1, <3>1
  <2> QED BY <2>2, <2>3 DEF Discard, UnwindRejected
<1>a. /\ \E place \in {"over", "failed"} : turn' = [turn EXCEPT ![t] = place]
      /\ UNCHANGED <<flow, registry, cancelled, op, joins, node, token, stopGen, clearGen>>
  BY DEF Discard, UnwindRejected, voiceVars, opVars, gens
<1>b. \A x \in Turns : \/ turn'[x] = turn[x]
                       \/ x = t /\ turn[x] \in Unadmitted /\ turn'[x] \in {"over", "failed"}
  <2>1. turn[t] \in Unadmitted
    BY DEF Discard, UnwindRejected
  <2>2. PICK place \in {"over", "failed"} : turn' = [turn EXCEPT ![t] = place]
    BY <1>a
  <2>3. DOMAIN turn = Turns
    BY <1>0 DEF ChatTyped
  <2> QED BY <2>1, <2>2, <2>3
<1>1. ChatTyped'
  BY <1>0 DEF Discard, UnwindRejected, voiceVars, turnVars, opVars, chatVars, gens, ChatTyped,
    FlowPlaces, TurnPlaces, OpPlaces, OpKinds, NoticePlaces
<1>2. ASSUME NEW x \in Turns PROVE Turnwise(x)'
  BY <1>0, <1>a, <1>b DEF Unadmitted, Turnwise
<1>3. ASSUME NEW x \in Flows PROVE Flowwise(x)'
  BY <1>0, <1>a, <1>b DEF Unadmitted, Flowwise, Idle
<1>4. ASSUME NEW c \in Callers PROVE Joining(c)'
  BY <1>0, <1>a DEF ChatTyped, Joining, Doomed
<1>5. ASSUME NEW x \in ended' PROVE Dead(x)'
  <2>1. x \in Turns /\ Dead(x)
    BY <1>0 DEF Discard, UnwindRejected, opVars
  <2> QED BY <1>a, <1>b, <2>1 DEF Dead, Doomed, NotCrossed
<1>6. ASSUME NEW x \in Turns PROVE MessagesKept(x)'
  <2>1. ASSUME turn'[x] # "idle" PROVE Kept(UserMessage(x))'
    <3>1. Kept(UserMessage(x))
        BY <1>0, <2>1, <1>00 DEF MessagesKept, Unadmitted
    <3> QED BY <3>1, <1>00, DeletingKeeps, KeptAgain
  <2>2. ASSUME turn'[x] \in {"admitting", "rejected", "orphaned", "over"}, x \notin dropped'
        PROVE  Kept(Status(x))'
    <3>1. Kept(Status(x))
        BY <1>0, <2>2, <1>00 DEF MessagesKept, Unadmitted
    <3> QED BY <3>1, <1>00, DeletingKeeps, KeptAgain
  <2> QED BY <2>1, <2>2 DEF MessagesKept
<1>7. NoticeKept'
  <2>0. SUFFICES ASSUME notice'.at \notin {"delivered", "discarding"} PROVE Kept(Notice)'
    BY DEF NoticeKept
  <2>1. Kept(Notice)
      BY <1>0, <1>00, <2>0 DEF NoticeKept
  <2> QED BY <2>1, <1>00, DeletingKeeps, KeptAgain
<1> QED BY <1>1, <1>2, <1>3, <1>4, <1>5, <1>6, <1>7 DEF ChatInvariant

LEMMA IssueKeeps ==
  ASSUME ChatInvariant, NEW d \in Callers, NEW kind \in {"stop", "clear", "stopReply",
         "clearReply"},
         NEW target \in Turns \cup {NoTurn}, Issue(d, kind, target)
  PROVE  ChatInvariant'
<1>0. /\ ChatTyped
      /\ \A x \in Turns : Turnwise(x) /\ MessagesKept(x)
      /\ \A x \in Flows : x \in Turns /\ x \in Callers /\ Flowwise(x)
      /\ \A c \in Callers : Joining(c)
      /\ \A x \in ended : x \in Turns /\ Dead(x)
      /\ NoticeKept
  BY DEF ChatInvariant, ChatTyped, Turns, Callers
<1>1. ChatTyped'
  BY <1>0 DEF Issue, voiceVars, turnVars, opVars, chatVars, gens, ChatTyped, FlowPlaces,
    TurnPlaces, OpPlaces, OpKinds, NoticePlaces
<1>2. ASSUME NEW x \in Turns PROVE Turnwise(x)'
  BY <1>0 DEF Issue, voiceVars, turnVars, opVars, chatVars, gens, ChatTyped, Turnwise
<1>3. ASSUME NEW x \in Flows PROVE Flowwise(x)'
  BY <1>0 DEF Issue, voiceVars, turnVars, opVars, chatVars, gens, ChatTyped, Flowwise, Idle
<1>4. ASSUME NEW c \in Callers PROVE Joining(c)'
  BY <1>0 DEF Issue, voiceVars, turnVars, opVars, chatVars, gens, ChatTyped, Joining, Doomed
<1>5. ASSUME NEW x \in ended' PROVE Dead(x)'
  BY <1>0 DEF Issue, voiceVars, turnVars, opVars, chatVars, gens, ChatTyped, Dead, Doomed,
    NotCrossed
<1>6. ASSUME NEW x \in Turns PROVE MessagesKept(x)'
  <2>1. ASSUME turn'[x] # "idle" PROVE Kept(UserMessage(x))'
    BY <1>0, <2>1, Messages DEF Issue, voiceVars, turnVars, opVars, chatVars, gens, ChatTyped,
      MessagesKept, Kept, Deleting
  <2>2. ASSUME turn'[x] \in {"admitting", "rejected", "orphaned", "over"}, x \notin dropped'
        PROVE  Kept(Status(x))'
    BY <1>0, <2>2, Messages DEF Issue, voiceVars, turnVars, opVars, chatVars, gens, ChatTyped,
      MessagesKept, Kept, Deleting
  <2> QED BY <2>1, <2>2 DEF MessagesKept
<1>7. NoticeKept'
  BY <1>0, Messages DEF Issue, voiceVars, turnVars, opVars, chatVars, gens, ChatTyped,
    NoticeKept, Kept, Deleting
<1> QED BY <1>1, <1>2, <1>3, <1>4, <1>5, <1>6, <1>7 DEF ChatInvariant

LEMMA TakeOverKeeps ==
  ASSUME ChatInvariant, NEW d \in Callers, TakeOver(d)
  PROVE  ChatInvariant'
<1>0. /\ ChatTyped
      /\ \A x \in Turns : Turnwise(x) /\ MessagesKept(x)
      /\ \A x \in Flows : x \in Turns /\ x \in Callers /\ Flowwise(x)
      /\ \A c \in Callers : Joining(c)
      /\ \A x \in ended : x \in Turns /\ Dead(x)
      /\ NoticeKept
  BY DEF ChatInvariant, ChatTyped, Turns, Callers
<1>1. ChatTyped'
  <2>1. op' = [op EXCEPT ![d].at = "joining"]
    BY DEF TakeOver
  <2>11. op \in [Callers -> [at : OpPlaces, kind : OpKinds, target : Turns \cup {NoTurn}]]
    BY <1>0 DEF ChatTyped
  <2>12. "joining" \in OpPlaces
    BY DEF OpPlaces
  <2>2. (op \in [Callers -> [at : OpPlaces, kind : OpKinds, target : Turns \cup {NoTurn}]])'
    BY <2>1, <2>11, <2>12
  <2>3. Taken(d) \subseteq registry
    BY DEF Taken
  <2> QED BY <1>0, <2>2, <2>3 DEF TakeOver, voiceVars, turnVars, opVars, chatVars, gens, ChatTyped
<1>2. ASSUME NEW x \in Turns PROVE Turnwise(x)'
  BY <1>0 DEF TakeOver, voiceVars, turnVars, opVars, chatVars, gens, ChatTyped, Turnwise
<1>3. ASSUME NEW x \in Flows PROVE Flowwise(x)'
  BY <1>0 DEF TakeOver, voiceVars, turnVars, opVars, chatVars, gens, ChatTyped, Flowwise, Idle
<1>4. ASSUME NEW c \in Callers PROVE Joining(c)'
  <2>1. CASE c = d
    <3>1. joins'[c] = Taken(d) /\ op'[c].at = "joining" /\ op'[c].kind = op[c].kind
          /\ op'[c].target = op[c].target
      BY <1>0, <2>1 DEF TakeOver, ChatTyped
    <3>2. ASSUME NEW f \in Taken(d)
          PROVE  /\ Doomed(f)'
                 /\ op[c].kind \in {"stop", "clear"} \/ Note[f] = UserMessage(op[c].target)[2]
      <4>1. f \in registry /\ f \in Flows /\ flow[f] # "idle"
        BY <1>0 DEF Taken, Flowwise, ChatTyped
      <4>2. op[c].kind \in {"stop", "clear"} \/ Note[f] = UserMessage(op[c].target)[2]
        BY <2>1, <3>2 DEF Taken
      <4> QED BY <4>1, <4>2 DEF TakeOver, Doomed
    <3> QED BY <3>1, <3>2 DEF Joining
  <2>2. CASE c # d
    <3>1. joins'[c] = joins[c] /\ op'[c] = op[c]
      BY <1>0, <2>2 DEF TakeOver, ChatTyped
    <3>2. \A f : Doomed(f) => Doomed(f)'
      BY DEF TakeOver, Doomed
    <3>3. Joining(c) /\ turn' = turn
      BY <1>0 DEF TakeOver, turnVars
    <3> QED BY <3>1, <3>2, <3>3 DEF Joining
  <2> QED BY <2>1, <2>2
<1>5. ASSUME NEW x \in ended' PROVE Dead(x)'
  BY <1>0 DEF TakeOver, voiceVars, turnVars, opVars, chatVars, gens, ChatTyped, Dead, Doomed,
    NotCrossed
<1>6. ASSUME NEW x \in Turns PROVE MessagesKept(x)'
  <2>1. ASSUME turn'[x] # "idle" PROVE Kept(UserMessage(x))'
    BY <1>0, <2>1, Messages DEF TakeOver, voiceVars, turnVars, opVars, chatVars, gens,
      ChatTyped, MessagesKept, Kept, Deleting
  <2>2. ASSUME turn'[x] \in {"admitting", "rejected", "orphaned", "over"}, x \notin dropped'
        PROVE  Kept(Status(x))'
    BY <1>0, <2>2, Messages DEF TakeOver, voiceVars, turnVars, opVars, chatVars, gens,
      ChatTyped, MessagesKept, Kept, Deleting
  <2> QED BY <2>1, <2>2 DEF MessagesKept
<1>7. NoticeKept'
  BY <1>0, Messages DEF TakeOver, voiceVars, turnVars, opVars, chatVars, gens, ChatTyped,
    NoticeKept, Kept, Deleting
<1> QED BY <1>1, <1>2, <1>3, <1>4, <1>5, <1>6, <1>7 DEF ChatInvariant

LEMMA JoinKeeps ==
  ASSUME ChatInvariant, NEW d \in Callers, Join(d)
  PROVE  ChatInvariant'
<1>0. /\ ChatTyped
      /\ \A x \in Turns : Turnwise(x) /\ MessagesKept(x)
      /\ \A x \in Flows : x \in Turns /\ x \in Callers /\ Flowwise(x)
      /\ \A c \in Callers : Joining(c)
      /\ \A x \in ended : x \in Turns /\ Dead(x)
      /\ NoticeKept
  BY DEF ChatInvariant, ChatTyped, Turns, Callers
<1>1. ChatTyped'
  <2>1. op' = [op EXCEPT ![d].at = "joined"]
    BY DEF Join
  <2>11. op \in [Callers -> [at : OpPlaces, kind : OpKinds, target : Turns \cup {NoTurn}]]
    BY <1>0 DEF ChatTyped
  <2>12. "joined" \in OpPlaces
    BY DEF OpPlaces
  <2>2. (op \in [Callers -> [at : OpPlaces, kind : OpKinds, target : Turns \cup {NoTurn}]])'
    BY <2>1, <2>11, <2>12
  <2> QED BY <1>0, <2>2 DEF Join, voiceVars, turnVars, opVars, chatVars, gens, ChatTyped
<1>2. ASSUME NEW x \in Turns PROVE Turnwise(x)'
  BY <1>0 DEF Join, voiceVars, turnVars, opVars, chatVars, gens, ChatTyped, Turnwise
<1>3. ASSUME NEW x \in Flows PROVE Flowwise(x)'
  BY <1>0 DEF Join, voiceVars, turnVars, opVars, chatVars, gens, ChatTyped, Flowwise, Idle
<1>4. ASSUME NEW c \in Callers PROVE Joining(c)'
  <2>1. \A f : Doomed(f) => Doomed(f)'
    BY DEF Join, Doomed
  <2>2. Joining(c) /\ turn' = turn /\ joins' = joins
    BY <1>0 DEF Join, turnVars
  <2>3. CASE c # d
    <3>1. op'[c] = op[c]
      BY <1>0, <2>3 DEF Join, ChatTyped
    <3> QED BY <2>1, <2>2, <3>1 DEF Joining
  <2>4. CASE c = d
    <3>1. op'[c].at = "joined" /\ op'[c].kind = op[c].kind /\ op'[c].target = op[c].target
      BY <1>0, <2>4 DEF Join, ChatTyped
    <3>2. ASSUME NEW f \in joins[c] PROVE turn[f] \in {"idle", "over", "failed"}
      <4>1. f \in Flows /\ Flowwise(f)
        BY <1>0, <3>2 DEF ChatTyped
      <4>2. flow[f] = "handler" => Idle(f)
        BY <2>4, <3>2 DEF Join
      <4> QED BY <4>1, <4>2 DEF Flowwise, Idle
    <3> QED BY <2>1, <2>2, <3>1, <3>2 DEF Joining
  <2> QED BY <2>3, <2>4
<1>5. ASSUME NEW x \in ended' PROVE Dead(x)'
  BY <1>0 DEF Join, voiceVars, turnVars, opVars, chatVars, gens, ChatTyped, Dead, Doomed,
    NotCrossed
<1>6. ASSUME NEW x \in Turns PROVE MessagesKept(x)'
  <2>1. ASSUME turn'[x] # "idle" PROVE Kept(UserMessage(x))'
    BY <1>0, <2>1, Messages DEF Join, voiceVars, turnVars, opVars, chatVars, gens, ChatTyped,
      MessagesKept, Kept, Deleting
  <2>2. ASSUME turn'[x] \in {"admitting", "rejected", "orphaned", "over"}, x \notin dropped'
        PROVE  Kept(Status(x))'
    BY <1>0, <2>2, Messages DEF Join, voiceVars, turnVars, opVars, chatVars, gens, ChatTyped,
      MessagesKept, Kept, Deleting
  <2> QED BY <2>1, <2>2 DEF MessagesKept
<1>7. NoticeKept'
  BY <1>0, Messages DEF Join, voiceVars, turnVars, opVars, chatVars, gens, ChatTyped,
    NoticeKept, Kept, Deleting
<1> QED BY <1>1, <1>2, <1>3, <1>4, <1>5, <1>6, <1>7 DEF ChatInvariant

LEMMA CommitStopKeeps ==
  ASSUME ChatInvariant, NEW d \in Callers, CommitStop(d)
  PROVE  ChatInvariant'
<1>0. /\ ChatTyped
      /\ \A x \in Turns : Turnwise(x) /\ MessagesKept(x)
      /\ \A x \in Flows : x \in Turns /\ x \in Callers /\ Flowwise(x)
      /\ \A c \in Callers : Joining(c)
      /\ \A x \in ended : x \in Turns /\ Dead(x)
      /\ NoticeKept
  BY DEF ChatInvariant, ChatTyped, Turns, Callers
<1>00. \A x \in Old(d) : /\ x \in Turns
                         /\ node[x] = "live" => x \in Affected(d)
                         /\ turn[x] \in {"received", "admitting"} => op[d].kind \in {"stop", "clear"}
                         /\ turn[x] = "idle" => x \in Flows /\ Doomed(x)
  <2>1. op[d].at = "joined" /\ Joining(d)
    BY <1>0 DEF CommitStop
  <2>2. Old(d) \subseteq Turns
    BY <1>0, AffectedAreInTrees DEF Old, ChatTyped, Turns
  <2> QED BY <1>0, <2>1, <2>2, OldAreDead
<1>1. ChatTyped'
  <2>1. op' = [op EXCEPT ![d].at = "done"]
    BY DEF CommitStop
  <2>11. op \in [Callers -> [at : OpPlaces, kind : OpKinds, target : Turns \cup {NoTurn}]]
    BY <1>0 DEF ChatTyped
  <2>12. "done" \in OpPlaces
    BY DEF OpPlaces
  <2>2. (op \in [Callers -> [at : OpPlaces, kind : OpKinds, target : Turns \cup {NoTurn}]])'
    BY <2>1, <2>11, <2>12
  <2>3. Old(d) \subseteq Turns
    BY <1>00
  <2> QED BY <1>0, <2>2, <2>3 DEF CommitStop, voiceVars, turnVars, opVars, chatVars, gens,
      ChatTyped
<1>2. ASSUME NEW x \in Turns PROVE Turnwise(x)'
  <2>1. node'[x] # "none" => node[x] # "none"
    BY <1>0, AffectedAreInTrees DEF CommitStop, InTree
  <2>2. token[x][1] \in Nat /\ token[x][2] \in Nat
    BY <1>0 DEF ChatTyped
  <2>3. stopGen <= stopGen' /\ clearGen <= clearGen' /\ stopGen' \in Nat /\ clearGen' \in Nat
    BY <1>0 DEF CommitStop, ChatTyped
  <2> QED BY <1>0, <2>1, <2>2, <2>3 DEF CommitStop, turnVars, Turnwise, ChatTyped
<1>3. ASSUME NEW x \in Flows PROVE Flowwise(x)'
  BY <1>0 DEF CommitStop, voiceVars, turnVars, opVars, chatVars, gens, ChatTyped, Flowwise, Idle
<1>4. ASSUME NEW c \in Callers PROVE Joining(c)'
  BY <1>0 DEF CommitStop, voiceVars, turnVars, opVars, chatVars, gens, ChatTyped, Joining, Doomed
<1>5. ASSUME NEW x \in ended' PROVE Dead(x)'
  <2>1. x \in Turns /\ UNCHANGED <<turn, token, flow, registry, cancelled>>
    BY <1>0, <1>00, <1>5 DEF CommitStop, voiceVars
  <2>2. token[x] = <<token[x][1], token[x][2]>> /\ token[x][1] \in Nat /\ token[x][2] \in Nat
        /\ token[x][1] <= stopGen /\ token[x][2] <= clearGen
    BY <1>0, <2>1 DEF ChatTyped, Turnwise
  <2>3. /\ stopGen' = stopGen \/ stopGen' = stopGen + 1
        /\ clearGen' = clearGen \/ clearGen' = clearGen + 1
        /\ stopGen \in Nat /\ clearGen \in Nat
    BY <1>0 DEF CommitStop, ChatTyped
  <2>4. node'[x] = IF x \in Affected(d) THEN "stopped" ELSE node[x]
    BY <2>1 DEF CommitStop
  <2>5. CASE x \in ended
    <3>1. Dead(x)
      BY <1>0, <2>5
    <3>2. ~NotCrossed(x) => ~NotCrossed(x)'
      BY <2>1, <2>2, <2>3 DEF NotCrossed
    <3> QED BY <2>1, <2>4, <3>1, <3>2 DEF Dead, Doomed
  <2>6. CASE x \in Old(d)
    <3>1. /\ node[x] = "live" => x \in Affected(d)
          /\ turn[x] \in {"received", "admitting"} => op[d].kind \in {"stop", "clear"}
          /\ turn[x] = "idle" => x \in Flows /\ Doomed(x)
      BY <1>00, <2>6
    <3>2. op[d].kind \in {"stop", "clear"} => ~NotCrossed(x)'
      BY <2>1, <2>2, <2>3 DEF CommitStop, NotCrossed
    <3> QED BY <2>1, <2>4, <3>1, <3>2 DEF Dead, Doomed
  <2> QED BY <1>5, <2>5, <2>6 DEF CommitStop
<1>6. ASSUME NEW x \in Turns PROVE MessagesKept(x)'
  <2>1. ASSUME turn'[x] # "idle" PROVE Kept(UserMessage(x))'
    BY <1>0, <2>1, Messages DEF CommitStop, voiceVars, turnVars, opVars, chatVars, gens,
      ChatTyped, MessagesKept, Kept, Deleting
  <2>2. ASSUME turn'[x] \in {"admitting", "rejected", "orphaned", "over"}, x \notin dropped'
        PROVE  Kept(Status(x))'
    BY <1>0, <2>2, Messages DEF CommitStop, voiceVars, turnVars, opVars, chatVars, gens,
      ChatTyped, MessagesKept, Kept, Deleting
  <2> QED BY <2>1, <2>2 DEF MessagesKept
<1>7. NoticeKept'
  BY <1>0, Messages DEF CommitStop, voiceVars, turnVars, opVars, chatVars, gens, ChatTyped,
    NoticeKept, Kept, Deleting
<1> QED BY <1>1, <1>2, <1>3, <1>4, <1>5, <1>6, <1>7 DEF ChatInvariant

LEMMA CommitClearKeeps ==
  ASSUME ChatInvariant, NEW d \in Callers, CommitClear(d)
  PROVE  ChatInvariant'
<1>0. /\ ChatTyped
      /\ \A x \in Turns : Turnwise(x) /\ MessagesKept(x)
      /\ \A x \in Flows : x \in Turns /\ x \in Callers /\ Flowwise(x)
      /\ \A c \in Callers : Joining(c)
      /\ \A x \in ended : x \in Turns /\ Dead(x)
      /\ NoticeKept
  BY DEF ChatInvariant, ChatTyped, Turns, Callers
<1>00. \A x \in Old(d) : /\ x \in Turns
                         /\ node[x] = "live" => x \in Affected(d)
                         /\ turn[x] \in {"received", "admitting"} => op[d].kind \in {"stop", "clear"}
                         /\ turn[x] = "idle" => x \in Flows /\ Doomed(x)
  <2>1. op[d].at = "joined" /\ Joining(d)
    BY <1>0 DEF CommitClear
  <2>2. Old(d) \subseteq Turns
    BY <1>0, AffectedAreInTrees DEF Old, ChatTyped, Turns
  <2> QED BY <1>0, <2>1, <2>2, OldAreDead
<1>1. ChatTyped'
  <2>1. op' = [op EXCEPT ![d].at = "deleting"]
    BY DEF CommitClear
  <2>11. op \in [Callers -> [at : OpPlaces, kind : OpKinds, target : Turns \cup {NoTurn}]]
    BY <1>0 DEF ChatTyped
  <2>12. "deleting" \in OpPlaces
    BY DEF OpPlaces
  <2>2. (op \in [Callers -> [at : OpPlaces, kind : OpKinds, target : Turns \cup {NoTurn}]])'
    BY <2>1, <2>11, <2>12
  <2>3. Old(d) \subseteq Turns
    BY <1>00
  <2> QED BY <1>0, <2>2, <2>3 DEF CommitClear, voiceVars, turnVars, opVars, chatVars, gens,
      ChatTyped
<1>2. ASSUME NEW x \in Turns PROVE Turnwise(x)'
  <2>1. node'[x] # "none" => node[x] # "none"
    BY <1>0, AffectedAreInTrees DEF CommitClear, InTree
  <2>2. token[x][1] \in Nat /\ token[x][2] \in Nat
    BY <1>0 DEF ChatTyped
  <2>3. stopGen <= stopGen' /\ clearGen <= clearGen' /\ stopGen' \in Nat /\ clearGen' \in Nat
    BY <1>0 DEF CommitClear, ChatTyped
  <2> QED BY <1>0, <2>1, <2>2, <2>3 DEF CommitClear, turnVars, Turnwise, ChatTyped
<1>3. ASSUME NEW x \in Flows PROVE Flowwise(x)'
  BY <1>0 DEF CommitClear, voiceVars, turnVars, opVars, chatVars, gens, ChatTyped, Flowwise, Idle
<1>4. ASSUME NEW c \in Callers PROVE Joining(c)'
  BY <1>0 DEF CommitClear, voiceVars, turnVars, opVars, chatVars, gens, ChatTyped, Joining, Doomed
<1>5. ASSUME NEW x \in ended' PROVE Dead(x)'
  <2>1. x \in Turns /\ UNCHANGED <<turn, token, flow, registry, cancelled>>
    BY <1>0, <1>00, <1>5 DEF CommitClear, voiceVars
  <2>2. token[x] = <<token[x][1], token[x][2]>> /\ token[x][1] \in Nat /\ token[x][2] \in Nat
        /\ token[x][1] <= stopGen /\ token[x][2] <= clearGen
    BY <1>0, <2>1 DEF ChatTyped, Turnwise
  <2>3. /\ stopGen' = stopGen \/ stopGen' = stopGen + 1
        /\ clearGen' = clearGen \/ clearGen' = clearGen + 1
        /\ stopGen \in Nat /\ clearGen \in Nat
    BY <1>0 DEF CommitClear, ChatTyped
  <2>4. node'[x] = IF x \in Affected(d) THEN "removed" ELSE node[x]
    BY <2>1 DEF CommitClear
  <2>5. CASE x \in ended
    <3>1. Dead(x)
      BY <1>0, <2>5
    <3>2. ~NotCrossed(x) => ~NotCrossed(x)'
      BY <2>1, <2>2, <2>3 DEF NotCrossed
    <3> QED BY <2>1, <2>4, <3>1, <3>2 DEF Dead, Doomed
  <2>6. CASE x \in Old(d)
    <3>1. /\ node[x] = "live" => x \in Affected(d)
          /\ turn[x] \in {"received", "admitting"} => op[d].kind \in {"stop", "clear"}
          /\ turn[x] = "idle" => x \in Flows /\ Doomed(x)
      BY <1>00, <2>6
    <3>2. op[d].kind \in {"stop", "clear"} => ~NotCrossed(x)'
      BY <2>1, <2>2, <2>3 DEF CommitClear, NotCrossed
    <3> QED BY <2>1, <2>4, <3>1, <3>2 DEF Dead, Doomed
  <2> QED BY <1>5, <2>5, <2>6 DEF CommitClear
<1>6. ASSUME NEW x \in Turns PROVE MessagesKept(x)'
  <2>1. ASSUME turn'[x] # "idle" PROVE Kept(UserMessage(x))'
    BY <1>0, <2>1, Messages DEF CommitClear, voiceVars, turnVars, opVars, chatVars, gens,
      ChatTyped, MessagesKept, Kept, Deleting
  <2>2. ASSUME turn'[x] \in {"admitting", "rejected", "orphaned", "over"}, x \notin dropped'
        PROVE  Kept(Status(x))'
    BY <1>0, <2>2, Messages DEF CommitClear, voiceVars, turnVars, opVars, chatVars, gens,
      ChatTyped, MessagesKept, Kept, Deleting
  <2> QED BY <2>1, <2>2 DEF MessagesKept
<1>7. NoticeKept'
  BY <1>0, Messages DEF CommitClear, voiceVars, turnVars, opVars, chatVars, gens, ChatTyped,
    NoticeKept, Kept, Deleting
<1> QED BY <1>1, <1>2, <1>3, <1>4, <1>5, <1>6, <1>7 DEF ChatInvariant

LEMMA DeleteAllKeeps ==
  ASSUME ChatInvariant, NEW d \in Callers, DeleteAll(d)
  PROVE  ChatInvariant'
<1>0. /\ ChatTyped
      /\ \A x \in Turns : Turnwise(x) /\ MessagesKept(x)
      /\ \A x \in Flows : x \in Turns /\ x \in Callers /\ Flowwise(x)
      /\ \A c \in Callers : Joining(c)
      /\ \A x \in ended : x \in Turns /\ Dead(x)
      /\ NoticeKept
  BY DEF ChatInvariant, ChatTyped, Turns, Callers
<1>00. \E messages : /\ Delete(messages)
                     /\ tracked \ messages \subseteq tracked'
                     /\ UNCHANGED <<turn, notice, dropped>>
                     /\ \A m : \A c \in Callers : Deleting(c, m) => Deleting(c, m)' \/ m \in messages
  <2> WITNESS deletes[d]
  <2> QED BY <1>0 DEF DeleteAll, turnVars, Deleting, ChatTyped, OpPlaces, OpKinds
<1>1. ChatTyped'
  BY <1>0, SMTT(30) DEF DeleteAll, voiceVars, turnVars, opVars, chatVars, gens, ChatTyped, FlowPlaces,
    TurnPlaces, OpPlaces, OpKinds, NoticePlaces
<1>2. ASSUME NEW x \in Turns PROVE Turnwise(x)'
  BY <1>0 DEF DeleteAll, voiceVars, turnVars, opVars, chatVars, gens, ChatTyped, Turnwise
<1>3. ASSUME NEW x \in Flows PROVE Flowwise(x)'
  BY <1>0 DEF DeleteAll, voiceVars, turnVars, opVars, chatVars, gens, ChatTyped, Flowwise, Idle
<1>4. ASSUME NEW c \in Callers PROVE Joining(c)'
  BY <1>0 DEF DeleteAll, voiceVars, turnVars, opVars, chatVars, gens, ChatTyped, Joining, Doomed
<1>5. ASSUME NEW x \in ended' PROVE Dead(x)'
  BY <1>0 DEF DeleteAll, voiceVars, turnVars, opVars, chatVars, gens, ChatTyped, Dead, Doomed,
    NotCrossed
<1>6. ASSUME NEW x \in Turns PROVE MessagesKept(x)'
  <2>1. ASSUME turn'[x] # "idle" PROVE Kept(UserMessage(x))'
    <3>1. Kept(UserMessage(x))
        BY <1>0, <2>1, <1>00 DEF MessagesKept
    <3> QED BY <3>1, <1>00, DeletingKeeps, KeptAgain
  <2>2. ASSUME turn'[x] \in {"admitting", "rejected", "orphaned", "over"}, x \notin dropped'
        PROVE  Kept(Status(x))'
    <3>1. Kept(Status(x))
        BY <1>0, <2>2, <1>00 DEF MessagesKept
    <3> QED BY <3>1, <1>00, DeletingKeeps, KeptAgain
  <2> QED BY <2>1, <2>2 DEF MessagesKept
<1>7. NoticeKept'
  <2>0. SUFFICES ASSUME notice'.at \notin {"delivered", "discarding"} PROVE Kept(Notice)'
    BY DEF NoticeKept
  <2>1. Kept(Notice)
      BY <1>0, <1>00, <2>0 DEF NoticeKept
  <2> QED BY <2>1, <1>00, DeletingKeeps, KeptAgain
<1> QED BY <1>1, <1>2, <1>3, <1>4, <1>5, <1>6, <1>7 DEF ChatInvariant

LEMMA NoticeStepKeeps ==
  ASSUME ChatInvariant, SendNotice \/ DeliverNotice \/ FinalizeNotice \/ DiscardNotice
  PROVE  ChatInvariant'
<1>0. /\ ChatTyped
      /\ \A x \in Turns : Turnwise(x) /\ MessagesKept(x)
      /\ \A x \in Flows : x \in Turns /\ x \in Callers /\ Flowwise(x)
      /\ \A c \in Callers : Joining(c)
      /\ \A x \in ended : x \in Turns /\ Dead(x)
      /\ NoticeKept
  BY DEF ChatInvariant, ChatTyped, Turns, Callers
<1>1. ChatTyped'
  BY <1>0 DEF SendNotice, DeliverNotice, FinalizeNotice, DiscardNotice, voiceVars, turnVars,
    opVars, chatVars, gens, ChatTyped, FlowPlaces, TurnPlaces, OpPlaces, OpKinds, NoticePlaces
<1>2. ASSUME NEW x \in Turns PROVE Turnwise(x)'
  BY <1>0 DEF SendNotice, DeliverNotice, FinalizeNotice, DiscardNotice, voiceVars, turnVars,
    opVars, chatVars, gens, ChatTyped, Turnwise
<1>3. ASSUME NEW x \in Flows PROVE Flowwise(x)'
  BY <1>0 DEF SendNotice, DeliverNotice, FinalizeNotice, DiscardNotice, voiceVars, turnVars,
    opVars, chatVars, gens, ChatTyped, Flowwise, Idle
<1>4. ASSUME NEW c \in Callers PROVE Joining(c)'
  BY <1>0 DEF SendNotice, DeliverNotice, FinalizeNotice, DiscardNotice, voiceVars, turnVars,
    opVars, chatVars, gens, ChatTyped, Joining, Doomed
<1>5. ASSUME NEW x \in ended' PROVE Dead(x)'
  BY <1>0 DEF SendNotice, DeliverNotice, FinalizeNotice, DiscardNotice, voiceVars, turnVars,
    opVars, chatVars, gens, ChatTyped, Dead, Doomed, NotCrossed
<1>6. ASSUME NEW x \in Turns PROVE MessagesKept(x)'
  <2>1. ASSUME turn'[x] # "idle" PROVE Kept(UserMessage(x))'
    <3>1. Kept(UserMessage(x))
      BY <1>0, <2>1 DEF SendNotice, DeliverNotice, FinalizeNotice, DiscardNotice, turnVars,
        MessagesKept
    <3>2. UserMessage(x) # Notice
      BY Messages
    <3>3. /\ UserMessage(x) \in onChat' => UserMessage(x) \in onChat
          /\ UserMessage(x) \in tracked => UserMessage(x) \in tracked'
          /\ UNCHANGED <<refused, opVars>>
      BY <3>2 DEF SendNotice, DeliverNotice, FinalizeNotice, DiscardNotice, opVars, chatVars
    <3> QED BY <3>1, <3>3, KeptAgain DEF Deleting, opVars
  <2>2. ASSUME turn'[x] \in {"admitting", "rejected", "orphaned", "over"}, x \notin dropped'
        PROVE  Kept(Status(x))'
    BY <1>0, <2>2, Messages DEF SendNotice, DeliverNotice, FinalizeNotice, DiscardNotice,
      voiceVars, turnVars, opVars, chatVars, gens, ChatTyped, MessagesKept, Kept, Deleting
  <2> QED BY <2>1, <2>2 DEF MessagesKept
<1>7. NoticeKept'
  BY <1>0, Messages DEF SendNotice, DeliverNotice, FinalizeNotice, DiscardNotice, voiceVars,
    turnVars, opVars, chatVars, gens, ChatTyped, NoticeKept, Kept, Deleting
<1> QED BY <1>1, <1>2, <1>3, <1>4, <1>5, <1>6, <1>7 DEF ChatInvariant

LEMMA ChatStarts == ChatOwnershipInit => ChatInvariant
<1> SUFFICES ASSUME ChatOwnershipInit PROVE ChatInvariant
  OBVIOUS
<1> USE DEF ChatOwnershipInit
<1>1. ChatTyped
  BY DEF ChatTyped, FlowPlaces, TurnPlaces, OpPlaces, OpKinds, NoticePlaces, NoOp
<1>2. \A x \in Turns : Turnwise(x)
  BY DEF Turnwise
<1>3. \A f \in Flows : Flowwise(f)
  BY DEF Flowwise, Idle, NoOp, Turns, Callers
<1>4. \A c \in Callers : Joining(c)
  BY DEF Joining
<1>5. (\A x \in Turns : MessagesKept(x)) /\ NoticeKept
  BY DEF MessagesKept, NoticeKept, Kept
<1> QED BY <1>1, <1>2, <1>3, <1>4, <1>5 DEF ChatInvariant

LEMMA ChatKept ==
  ASSUME ChatInvariant, ChatOwnershipNext
  PROVE  ChatInvariant'
<1>0. /\ Flows \subseteq Turns /\ Flows \subseteq Callers /\ Prompts \subseteq Turns
      /\ Commands \subseteq Callers
      /\ Kinds \subseteq {"stop", "clear", "stopReply", "clearReply"}
  BY ChatOwnershipConstants DEF Turns, Callers
<1>1. CASE \E f \in Flows : Reserve(f) \/ FlowStep(f)
  BY <1>1, ReserveKeeps, PostStatusKeeps, BindStatusKeeps, TranscribeKeeps, HandoffKeeps,
     AbortKeeps, FinishHandoffKeeps
  DEF FlowStep
<1>2. CASE \E t \in Turns : Receive(t) \/ TurnStep(t)
  BY <1>2, ReceiveKeeps, ShowStatusKeeps, StatusFailsKeeps, AdmitKeeps,
     DiscardKeeps DEF TurnStep
<1>3. CASE \E d \in Callers, kind \in {"stop", "clear", "stopReply", "clearReply"},
              target \in Turns \cup {NoTurn} : Issue(d, kind, target)
  BY <1>3, IssueKeeps
<1>4. CASE \E d \in Callers : CommandStep(d)
  BY <1>4, TakeOverKeeps, JoinKeeps, CommitStopKeeps, CommitClearKeeps, DeleteAllKeeps
  DEF CommandStep
<1>5. CASE SendNotice \/ DeliverNotice \/ FinalizeNotice \/ DiscardNotice
  BY <1>5, NoticeStepKeeps
<1>6. ASSUME NEW f \in Flows, SpokenStep(f) PROVE ChatInvariant'
  <2>1. CASE Receive(f)
    BY <1>0, <1>2, <2>1
  <2>2. CASE \E kind \in {"stop", "clear"} : Issue(f, kind, NoTurn)
    BY <1>0, <1>3, <2>2
  <2> QED BY <1>6, <2>1, <2>2 DEF SpokenStep
<1>7. ASSUME NEW c \in Commands, NEW kind \in Kinds, NEW x \in Turns \cup {NoTurn},
             Issue(c, kind, x)
      PROVE  ChatInvariant'
  BY <1>0, <1>3, <1>7
<1> QED BY <1>0, <1>1, <1>2, <1>4, <1>5, <1>6, <1>7 DEF ChatOwnershipNext

\* Once nothing is under way no command has anything to delete.
LEMMA OwnedIsSound == ChatInvariant => ChatIsOwned
<1> SUFFICES ASSUME ChatInvariant PROVE ChatIsOwned
  OBVIOUS
<1>1. EndedStaysEnded
  BY DEF ChatInvariant, Dead, EndedStaysEnded
<1>2. ASSUME Quiet, NEW m \in onChat \cap Managed PROVE m \in tracked \cup refused
  <2>1. \A c \in Callers : ~Deleting(c, m)
    BY <1>2 DEF Quiet, Deleting
  <2>2. Kept(m)
    <3>1. CASE m = Notice
      BY <1>2, <3>1 DEF ChatInvariant, NoticeKept, Quiet
    <3>2. CASE m # Notice
      <4> DEFINE Over == {x \in Turns : turn[x] = "over" /\ x \notin dropped}
                 Failed == {x \in Turns : turn[x] = "failed" /\ x \notin dropped}
      <4>0. m \in UNION {MessagesOf(x) : x \in Over} \/ m \in {UserMessage(x) : x \in Failed}
        <5>1. m \in {Notice} \cup {UserMessage(x) : x \in Failed} \cup UNION {MessagesOf(x) : x \in Over}
          <6>1. m \in Managed
            BY <1>2
          <6> QED BY <6>1 DEF Managed
        <5> HIDE DEF Over, Failed
        <5> QED BY <3>2, <5>1
      <4>1. CASE m \in UNION {MessagesOf(x) : x \in Over}
        <5>1. PICK x \in Over : m \in MessagesOf(x)
          BY <4>1
        <5>2. MessagesKept(x)
          BY DEF ChatInvariant
        <5> QED BY <5>1, <5>2 DEF MessagesKept, MessagesOf
      <4>2. CASE m \in {UserMessage(x) : x \in Failed}
        <5>1. PICK x \in Failed : m = UserMessage(x)
          BY <4>2
        <5>2. MessagesKept(x)
          BY DEF ChatInvariant
        <5> QED BY <5>1, <5>2 DEF MessagesKept
      <4> QED BY <4>0, <4>1, <4>2
    <3> QED BY <3>1, <3>2
  <2> QED BY <2>1, <2>2 DEF Kept
<1> QED BY <1>1, <1>2 DEF ChatIsOwned, NothingIsForgotten

\* What a stop or a clear has ended stays ended, wherever its admission or its handoff
\* was, and once the chat is quiet it holds no message of a turn that a /clear could
\* not find, but for the status of a turn that failed because the platform did not take
\* it: for any notes, prompts and commands (voice.py, workflow.py, turn_intake.py).
THEOREM ChatStaysOwned == ChatOwnershipSpec => []ChatIsOwned
<1>1. ChatInvariant /\ [ChatOwnershipNext]_chatOwnershipVars => ChatInvariant'
  <2>1. ASSUME ChatInvariant, UNCHANGED chatOwnershipVars PROVE ChatInvariant'
    BY <2>1
    DEF chatOwnershipVars, ChatInvariant, ChatTyped, Turnwise, Flowwise, Idle, Joining, Doomed,
        Dead,
        NotCrossed, MessagesKept, NoticeKept, Kept, Deleting
  <2> QED BY <2>1, ChatKept
<1> QED BY <1>1, ChatStarts, OwnedIsSound, PTL DEF ChatOwnershipSpec

(***************************************************************************)
(* Signing in.                                                              *)
(***************************************************************************)

LoginPlaces == {"none", "starting", "bound", "waiting", "granted"}

LoginTyped ==
  /\ attempt \in [number : Nat, at : LoginPlaces, mode : Modes, tries : Nat]
  /\ Current <= MaxAttempts
  /\ ~In("none") => Current \in Attempts
  /\ DOMAIN listener = PortSet
  /\ DOMAIN tab = Attempts
  /\ grant \in [Attempts -> [from : Nat, state : {Undecided, "code", "refused", "cancelled"}]]
  /\ signedIn \in Attempts \cup {NoAttempt}

\* A tab calls the port of its attempt's listener, which is there from the binding
\* to the end of the attempt; there are no tabs of attempts to come.
TabsFindTheirs ==
  /\ attempt.at \in {"bound", "waiting", "granted"} /\ tab[Current] # 0 =>
       tab[Current] \in PortSet /\ listener[tab[Current]] = Current
  /\ In("starting") => tab[Current] = 0
  /\ \A a \in Attempts : a > Current => tab[a] = 0

\* The code that is exchanged was granted.
GrantIsTaken == In("granted") => grant[Current].state = "code"

LoginInvariant == LoginTyped /\ NoListenerIsLeft /\ TabsFindTheirs /\ OwnGrant /\ GrantIsTaken

LEMMA LoginStarts == LoginInit => LoginInvariant
<1> SUFFICES ASSUME LoginInit PROVE LoginInvariant
  OBVIOUS
<1> USE LoginConstants DEF LoginInit, In, Current, Attempts, NoAttempt
<1>1. LoginTyped
  BY DEF LoginTyped, LoginPlaces, Modes, Undecided
<1>2. NoListenerIsLeft
  BY DEF NoListenerIsLeft
<1>3. TabsFindTheirs
  BY DEF TabsFindTheirs
<1>4. OwnGrant /\ GrantIsTaken
  BY DEF OwnGrant, GrantIsTaken
<1> QED BY <1>1, <1>2, <1>3, <1>4 DEF LoginInvariant

\* What closing an attempt leaves of its listener and its grant.
LEMMA ClosingKeepsListeners ==
  ASSUME LoginInvariant, NEW a \in Attempts, Close(a)
  PROVE  /\ DOMAIN listener' = PortSet
         /\ \A p \in PortSet : listener'[p] \in Attempts =>
              listener'[p] = listener[p] /\ listener[p] # a
         /\ grant' \in [Attempts -> [from : Nat, state : {Undecided, "code", "refused", "cancelled"}]]
         /\ \A b \in Attempts : grant'[b].from = grant[b].from
         /\ \A b \in Attempts : grant[b].state = "code" => grant'[b] = grant[b]
BY LoginConstants
DEF Close, ClosedListener, Decided, LoginInvariant, LoginTyped, Attempts, NoAttempt, Undecided

LEMMA StartKeepsLogin ==
  ASSUME LoginInvariant, NEW mode \in Modes, Start(mode)
  PROVE  LoginInvariant'
<1>0. LoginTyped /\ NoListenerIsLeft /\ TabsFindTheirs /\ OwnGrant /\ GrantIsTaken
  BY DEF LoginInvariant
<1> USE LoginConstants DEF Attempts, NoAttempt, Elsewhere, Current, In
<1>1. LoginTyped'
  BY <1>0 DEF Start, LoginTyped, LoginPlaces, Modes, Undecided
<1>2. NoListenerIsLeft'
  BY <1>0 DEF Start, LoginTyped, NoListenerIsLeft
<1>3. TabsFindTheirs'
  BY <1>0 DEF Start, LoginTyped, TabsFindTheirs, NoListenerIsLeft
<1>4. OwnGrant'
  BY <1>0 DEF Start, LoginTyped, OwnGrant, GrantIsTaken, Undecided
<1>5. GrantIsTaken'
  BY <1>0 DEF Start, LoginTyped, GrantIsTaken, Undecided
<1> QED BY <1>1, <1>2, <1>3, <1>4, <1>5 DEF LoginInvariant

LEMMA BindKeeps ==
  ASSUME LoginInvariant, Bind
  PROVE  LoginInvariant'
<1>0. LoginTyped /\ NoListenerIsLeft /\ TabsFindTheirs /\ OwnGrant /\ GrantIsTaken
  BY DEF LoginInvariant
<1> USE LoginConstants DEF Attempts, NoAttempt, Elsewhere, Current, In
<1>00. \/ \E p \in PortSet : /\ listener[p] = 0
                             /\ listener' = [listener EXCEPT ![p] = Current]
                             /\ tab' = [tab EXCEPT ![Current] = p]
                             /\ attempt' = [attempt EXCEPT !.at = "bound"]
       \/ /\ attempt' = [attempt EXCEPT !.tries = @ + 1]
          /\ UNCHANGED <<listener, tab>>
  <2>1. Ports[attempt.tries] \in PortSet
    BY DEF Bind, PortSet
  <2> QED BY <2>1 DEF Bind, Reaches
<1>01. UNCHANGED <<grant, signedIn, accountOpen>> /\ attempt.at = "starting" /\ attempt.number \in Nat
       /\ attempt.tries \in Nat /\ attempt.number \in 1 .. MaxAttempts
  BY <1>0 DEF Bind, LoginTyped, LoginPlaces
<1>1. LoginTyped'
  <2>0. /\ attempt \in [number : Nat, at : LoginPlaces, mode : Modes, tries : Nat]
        /\ attempt' = [attempt EXCEPT !.at = "bound"] \/ attempt' = [attempt EXCEPT !.tries = @ + 1]
    BY <1>0, <1>00 DEF LoginTyped
  <2>1. attempt' \in [number : Nat, at : LoginPlaces, mode : Modes, tries : Nat] /\ Current' = Current
        /\ attempt'.at # "none"
    <3>1. CASE attempt' = [attempt EXCEPT !.at = "bound"]
      BY <3>1, <2>0 DEF LoginPlaces
    <3>2. CASE attempt' = [attempt EXCEPT !.tries = @ + 1]
      BY <3>2, <2>0, <1>01
    <3> QED BY <3>1, <3>2, <2>0
  <2>2. DOMAIN listener' = PortSet /\ DOMAIN tab' = Attempts
    BY <1>0, <1>00 DEF LoginTyped
  <2> QED BY <1>0, <1>01, <2>1, <2>2 DEF LoginTyped
<1>2. NoListenerIsLeft'
  BY <1>0, <1>00, <1>01, ZenonT(40) DEF LoginTyped, NoListenerIsLeft
<1>3. TabsFindTheirs'
  BY <1>0, <1>00, <1>01, SMTT(30) DEF LoginTyped, TabsFindTheirs, NoListenerIsLeft
<1>4. OwnGrant'
  BY <1>0, <1>00, <1>01 DEF LoginTyped, OwnGrant, GrantIsTaken, Undecided
<1>5. GrantIsTaken'
  BY <1>0, <1>00, <1>01 DEF LoginTyped, GrantIsTaken, Undecided
<1> QED BY <1>1, <1>2, <1>3, <1>4, <1>5 DEF LoginInvariant

LEMMA GetDeviceCodeKeeps ==
  ASSUME LoginInvariant, GetDeviceCode
  PROVE  LoginInvariant'
<1>0. LoginTyped /\ NoListenerIsLeft /\ TabsFindTheirs /\ OwnGrant /\ GrantIsTaken
  BY DEF LoginInvariant
<1> USE LoginConstants DEF Attempts, NoAttempt, Elsewhere, Current, In
<1>1. LoginTyped'
  BY <1>0 DEF GetDeviceCode, Reaches, LoginTyped, LoginPlaces, Modes, Undecided
<1>2. NoListenerIsLeft'
  BY <1>0 DEF GetDeviceCode, Reaches, LoginTyped, NoListenerIsLeft
<1>3. TabsFindTheirs'
  BY <1>0 DEF GetDeviceCode, Reaches, LoginTyped, TabsFindTheirs, NoListenerIsLeft
<1>4. OwnGrant'
  BY <1>0 DEF GetDeviceCode, Reaches, LoginTyped, OwnGrant, GrantIsTaken, Undecided
<1>5. GrantIsTaken'
  BY <1>0 DEF GetDeviceCode, Reaches, LoginTyped, GrantIsTaken, Undecided
<1> QED BY <1>1, <1>2, <1>3, <1>4, <1>5 DEF LoginInvariant

LEMMA StartFailsKeeps ==
  ASSUME LoginInvariant, StartFails
  PROVE  LoginInvariant'
<1>0. LoginTyped /\ NoListenerIsLeft /\ TabsFindTheirs /\ OwnGrant /\ GrantIsTaken
  BY DEF LoginInvariant
<1>01. Current \in Attempts /\ Close(Current)
  BY <1>0 DEF LoginTyped, StartFails, In
<1> USE LoginConstants DEF Attempts, NoAttempt, Elsewhere, Current, In
<1>1. LoginTyped'
  BY <1>0, <1>01, ClosingKeepsListeners DEF StartFails, Reaches, LoginTyped, LoginPlaces,
    Modes, Undecided
<1>2. NoListenerIsLeft'
  BY <1>0, <1>01, ClosingKeepsListeners DEF StartFails, Reaches, LoginTyped, NoListenerIsLeft
<1>3. TabsFindTheirs'
  BY <1>0, <1>01, ClosingKeepsListeners DEF StartFails, Reaches, LoginTyped, TabsFindTheirs,
    NoListenerIsLeft
<1>4. OwnGrant'
  BY <1>0, <1>01, ClosingKeepsListeners DEF StartFails, Reaches, LoginTyped, OwnGrant,
    GrantIsTaken, Undecided
<1>5. GrantIsTaken'
  BY <1>0, <1>01, ClosingKeepsListeners DEF StartFails, Reaches, LoginTyped, GrantIsTaken,
    Undecided
<1> QED BY <1>1, <1>2, <1>3, <1>4, <1>5 DEF LoginInvariant

LEMMA PublishKeeps ==
  ASSUME LoginInvariant, Publish
  PROVE  LoginInvariant'
<1>0. LoginTyped /\ NoListenerIsLeft /\ TabsFindTheirs /\ OwnGrant /\ GrantIsTaken
  BY DEF LoginInvariant
<1> USE LoginConstants DEF Attempts, NoAttempt, Elsewhere, Current, In
<1>1. LoginTyped'
  BY <1>0 DEF Publish, Reaches, LoginTyped, LoginPlaces, Modes, Undecided
<1>2. NoListenerIsLeft'
  BY <1>0 DEF Publish, Reaches, LoginTyped, NoListenerIsLeft
<1>3. TabsFindTheirs'
  BY <1>0 DEF Publish, Reaches, LoginTyped, TabsFindTheirs, NoListenerIsLeft
<1>4. OwnGrant'
  BY <1>0 DEF Publish, Reaches, LoginTyped, OwnGrant, GrantIsTaken, Undecided
<1>5. GrantIsTaken'
  BY <1>0 DEF Publish, Reaches, LoginTyped, GrantIsTaken, Undecided
<1> QED BY <1>1, <1>2, <1>3, <1>4, <1>5 DEF LoginInvariant

LEMMA CallbackKeeps ==
  ASSUME LoginInvariant, NEW t \in Attempts, NEW answer \in {"code", "refused"}, Callback(t,
         answer)
  PROVE  LoginInvariant'
<1>0. LoginTyped /\ NoListenerIsLeft /\ TabsFindTheirs /\ OwnGrant /\ GrantIsTaken
  BY DEF LoginInvariant
<1> USE LoginConstants DEF Attempts, NoAttempt, Elsewhere, Current, In
<1>00. /\ \/ grant[t].state = "pending" /\ grant' = [grant EXCEPT ![t] = [from |-> t, state |-> answer]]
          \/ UNCHANGED grant
       /\ tab' = [tab EXCEPT ![t] = 0]
       /\ UNCHANGED <<attempt, listener, signedIn, accountOpen>>
  BY <1>0 DEF Callback, Decided, StateMatches, Undecided
<1>01. t \in Nat
  OBVIOUS
<1>1. LoginTyped'
  <2>1. grant' \in [Attempts -> [from : Nat, state : {Undecided, "code", "refused", "cancelled"}]]
    <3>1. grant \in [Attempts -> [from : Nat, state : {Undecided, "code", "refused", "cancelled"}]]
      BY <1>0 DEF LoginTyped
    <3>2. [from |-> t, state |-> answer] \in [from : Nat, state : {Undecided, "code", "refused", "cancelled"}]
      BY <1>01
    <3> QED BY <1>00, <3>1, <3>2
  <2> QED BY <1>0, <1>00, <2>1 DEF LoginTyped
<1>2. NoListenerIsLeft'
  BY <1>0, <1>00, <1>01 DEF LoginTyped, NoListenerIsLeft
<1>3. TabsFindTheirs'
  BY <1>0, <1>00, <1>01 DEF LoginTyped, TabsFindTheirs, NoListenerIsLeft
<1>4. OwnGrant'
  BY <1>0, <1>00, <1>01, SMTT(30) DEF LoginTyped, OwnGrant, GrantIsTaken, Undecided
<1>5. GrantIsTaken'
  BY <1>0, <1>00, <1>01 DEF LoginTyped, GrantIsTaken, Undecided
<1> QED BY <1>1, <1>2, <1>3, <1>4, <1>5 DEF LoginInvariant

LEMMA PollFindsKeeps ==
  ASSUME LoginInvariant, NEW answer \in {"code", "refused"}, PollFinds(answer)
  PROVE  LoginInvariant'
<1>0. LoginTyped /\ NoListenerIsLeft /\ TabsFindTheirs /\ OwnGrant /\ GrantIsTaken
  BY DEF LoginInvariant
<1> USE LoginConstants DEF Attempts, NoAttempt, Elsewhere, Current, In
<1>1. LoginTyped'
  BY <1>0 DEF PollFinds, Decided, LoginTyped, LoginPlaces, Modes, Undecided
<1>2. NoListenerIsLeft'
  BY <1>0 DEF PollFinds, Decided, LoginTyped, NoListenerIsLeft
<1>3. TabsFindTheirs'
  BY <1>0 DEF PollFinds, Decided, LoginTyped, TabsFindTheirs, NoListenerIsLeft
<1>4. OwnGrant'
  BY <1>0 DEF PollFinds, Decided, LoginTyped, OwnGrant, GrantIsTaken, Undecided
<1>5. GrantIsTaken'
  BY <1>0 DEF PollFinds, Decided, LoginTyped, GrantIsTaken, Undecided
<1> QED BY <1>1, <1>2, <1>3, <1>4, <1>5 DEF LoginInvariant

LEMMA ExpireKeeps ==
  ASSUME LoginInvariant, Expire
  PROVE  LoginInvariant'
<1>0. LoginTyped /\ NoListenerIsLeft /\ TabsFindTheirs /\ OwnGrant /\ GrantIsTaken
  BY DEF LoginInvariant
<1> USE LoginConstants DEF Attempts, NoAttempt, Elsewhere, Current, In
<1>1. LoginTyped'
  BY <1>0 DEF Expire, Decided, LoginTyped, LoginPlaces, Modes, Undecided
<1>2. NoListenerIsLeft'
  BY <1>0 DEF Expire, Decided, LoginTyped, NoListenerIsLeft
<1>3. TabsFindTheirs'
  BY <1>0 DEF Expire, Decided, LoginTyped, TabsFindTheirs, NoListenerIsLeft
<1>4. OwnGrant'
  BY <1>0 DEF Expire, Decided, LoginTyped, OwnGrant, GrantIsTaken, Undecided
<1>5. GrantIsTaken'
  BY <1>0 DEF Expire, Decided, LoginTyped, GrantIsTaken, Undecided
<1> QED BY <1>1, <1>2, <1>3, <1>4, <1>5 DEF LoginInvariant

LEMMA TakeGrantKeeps ==
  ASSUME LoginInvariant, TakeGrant
  PROVE  LoginInvariant'
<1>0. LoginTyped /\ NoListenerIsLeft /\ TabsFindTheirs /\ OwnGrant /\ GrantIsTaken
  BY DEF LoginInvariant
<1> USE LoginConstants DEF Attempts, NoAttempt, Elsewhere, Current, In
<1>1. LoginTyped'
  BY <1>0 DEF TakeGrant, Reaches, LoginTyped, LoginPlaces, Modes, Undecided
<1>2. NoListenerIsLeft'
  BY <1>0 DEF TakeGrant, Reaches, LoginTyped, NoListenerIsLeft
<1>3. TabsFindTheirs'
  BY <1>0 DEF TakeGrant, Reaches, LoginTyped, TabsFindTheirs, NoListenerIsLeft
<1>4. OwnGrant'
  BY <1>0 DEF TakeGrant, Reaches, LoginTyped, OwnGrant, GrantIsTaken, Undecided
<1>5. GrantIsTaken'
  BY <1>0 DEF TakeGrant, Reaches, LoginTyped, GrantIsTaken, Undecided
<1> QED BY <1>1, <1>2, <1>3, <1>4, <1>5 DEF LoginInvariant

LEMMA CompleteKeeps ==
  ASSUME LoginInvariant, Complete
  PROVE  LoginInvariant'
<1>0. LoginTyped /\ NoListenerIsLeft /\ TabsFindTheirs /\ OwnGrant /\ GrantIsTaken
  BY DEF LoginInvariant
<1>01. Current \in Attempts /\ Close(Current)
  BY <1>0 DEF LoginTyped, Complete, In
<1> USE LoginConstants DEF Attempts, NoAttempt, Elsewhere, Current, In
<1>1. LoginTyped'
  BY <1>0, <1>01, ClosingKeepsListeners DEF Complete, Reaches, LoginTyped, LoginPlaces, Modes,
    Undecided
<1>2. NoListenerIsLeft'
  BY <1>0, <1>01, ClosingKeepsListeners DEF Complete, Reaches, LoginTyped, NoListenerIsLeft
<1>3. TabsFindTheirs'
  BY <1>0, <1>01, ClosingKeepsListeners DEF Complete, Reaches, LoginTyped, TabsFindTheirs,
    NoListenerIsLeft
<1>4. OwnGrant'
  BY <1>0, <1>01, ClosingKeepsListeners DEF Complete, Reaches, LoginTyped, OwnGrant,
    GrantIsTaken, Undecided
<1>5. GrantIsTaken'
  BY <1>0, <1>01, ClosingKeepsListeners DEF Complete, Reaches, LoginTyped, GrantIsTaken, Undecided
<1> QED BY <1>1, <1>2, <1>3, <1>4, <1>5 DEF LoginInvariant

LEMMA FailKeeps ==
  ASSUME LoginInvariant, Fail
  PROVE  LoginInvariant'
<1>0. LoginTyped /\ NoListenerIsLeft /\ TabsFindTheirs /\ OwnGrant /\ GrantIsTaken
  BY DEF LoginInvariant
<1>01. Current \in Attempts /\ Close(Current)
  BY <1>0 DEF LoginTyped, Fail, In
<1> USE LoginConstants DEF Attempts, NoAttempt, Elsewhere, Current, In
<1>1. LoginTyped'
  BY <1>0, <1>01, ClosingKeepsListeners DEF Fail, Reaches, LoginTyped, LoginPlaces, Modes,
    Undecided
<1>2. NoListenerIsLeft'
  BY <1>0, <1>01, ClosingKeepsListeners DEF Fail, Reaches, LoginTyped, NoListenerIsLeft
<1>3. TabsFindTheirs'
  BY <1>0, <1>01, ClosingKeepsListeners DEF Fail, Reaches, LoginTyped, TabsFindTheirs,
    NoListenerIsLeft
<1>4. OwnGrant'
  BY <1>0, <1>01, ClosingKeepsListeners DEF Fail, Reaches, LoginTyped, OwnGrant, GrantIsTaken,
    Undecided
<1>5. GrantIsTaken'
  BY <1>0, <1>01, ClosingKeepsListeners DEF Fail, Reaches, LoginTyped, GrantIsTaken, Undecided
<1> QED BY <1>1, <1>2, <1>3, <1>4, <1>5 DEF LoginInvariant

LEMMA DetachKeeps ==
  ASSUME LoginInvariant, Cancel \/ SignOut \/ CloseManager
  PROVE  LoginInvariant'
<1>0. LoginTyped /\ NoListenerIsLeft /\ TabsFindTheirs /\ OwnGrant /\ GrantIsTaken
  BY DEF LoginInvariant
<1>01. attempt.at \in {"waiting", "granted"} =>
          /\ Current \in Attempts
          /\ Close(Current)
  BY <1>0 DEF LoginTyped, Cancel, SignOut, CloseManager, Detach, In
<1> USE LoginConstants DEF Attempts, NoAttempt, Elsewhere, Current, In
<1>1. LoginTyped'
  BY <1>0, <1>01, ClosingKeepsListeners DEF Cancel, SignOut, CloseManager, Detach, Reaches,
    LoginTyped, LoginPlaces, Modes, Undecided
<1>2. NoListenerIsLeft'
  BY <1>0, <1>01, ClosingKeepsListeners DEF Cancel, SignOut, CloseManager, Detach, Reaches,
    LoginTyped, NoListenerIsLeft
<1>3. TabsFindTheirs'
  BY <1>0, <1>01, ClosingKeepsListeners DEF Cancel, SignOut, CloseManager, Detach, Reaches,
    LoginTyped, TabsFindTheirs, NoListenerIsLeft
<1>4. OwnGrant'
  BY <1>0, <1>01, ClosingKeepsListeners DEF Cancel, SignOut, CloseManager, Detach, Reaches,
    LoginTyped, OwnGrant, GrantIsTaken, Undecided
<1>5. GrantIsTaken'
  BY <1>0, <1>01, ClosingKeepsListeners DEF Cancel, SignOut, CloseManager, Detach, Reaches,
    LoginTyped, GrantIsTaken, Undecided
<1> QED BY <1>1, <1>2, <1>3, <1>4, <1>5 DEF LoginInvariant

LEMMA OtherProgramKeeps ==
  ASSUME LoginInvariant, NEW p \in PortSet, OtherProgram(p)
  PROVE  LoginInvariant'
<1>0. LoginTyped /\ NoListenerIsLeft /\ TabsFindTheirs /\ OwnGrant /\ GrantIsTaken
  BY DEF LoginInvariant
<1> USE LoginConstants DEF Attempts, NoAttempt, Elsewhere, Current, In
<1>1. LoginTyped'
  BY <1>0 DEF OtherProgram, LoginTyped, LoginPlaces, Modes, Undecided
<1>2. NoListenerIsLeft'
  BY <1>0 DEF OtherProgram, LoginTyped, NoListenerIsLeft
<1>3. TabsFindTheirs'
  BY <1>0 DEF OtherProgram, LoginTyped, TabsFindTheirs, NoListenerIsLeft
<1>4. OwnGrant'
  BY <1>0 DEF OtherProgram, LoginTyped, OwnGrant, GrantIsTaken, Undecided
<1>5. GrantIsTaken'
  BY <1>0 DEF OtherProgram, LoginTyped, GrantIsTaken, Undecided
<1> QED BY <1>1, <1>2, <1>3, <1>4, <1>5 DEF LoginInvariant

LEMMA LoginKept == LoginInvariant /\ [LoginNext]_loginVars => LoginInvariant'
<1> SUFFICES ASSUME LoginInvariant, [LoginNext]_loginVars PROVE LoginInvariant'
  OBVIOUS
<1>1. CASE SignInStep
  BY <1>1, BindKeeps, GetDeviceCodeKeeps, StartFailsKeeps, PublishKeeps, ExpireKeeps,
    TakeGrantKeeps,
     CompleteKeeps, FailKeeps DEF SignInStep
<1>2. CASE Cancel \/ SignOut \/ CloseManager
  BY <1>2, DetachKeeps
<1>3. CASE \E mode \in Modes : Start(mode)
  BY <1>3, StartKeepsLogin
<1>4. CASE \E t \in Attempts, answer \in {"code", "refused"} : Callback(t, answer)
  BY <1>4, CallbackKeeps
<1>5. CASE \E answer \in {"code", "refused"} : PollFinds(answer)
  BY <1>5, PollFindsKeeps
<1>6. CASE \E p \in PortSet : OtherProgram(p)
  BY <1>6, OtherProgramKeeps
<1>7. CASE UNCHANGED loginVars
  BY <1>7 DEF loginVars, LoginInvariant, LoginTyped, NoListenerIsLeft, TabsFindTheirs, OwnGrant,
     GrantIsTaken, Current, In, Attempts, PortSet, NoAttempt
<1> QED BY <1>1, <1>2, <1>3, <1>4, <1>5, <1>6, <1>7 DEF LoginNext

LEMMA SoundLogin == LoginInvariant => LoginIsSound
BY DEF LoginInvariant, LoginIsSound, TabsFindTheirs, TabsAreHeard, In

\* A listener serves the attempt under way and no other, a shown URL finds its own
\* listener, and credentials come from the attempt's own tab or code (auth/login.py,
\* auth/manager.py): for any ports and any number of attempts.
THEOREM LoginStaysSound == LoginSpec => []LoginIsSound
<1>1. LoginSpec => []LoginInvariant
  BY LoginStarts, LoginKept, PTL DEF LoginSpec
<1> QED BY <1>1, SoundLogin, PTL

(***************************************************************************)
(* The account: calls, refreshes, operators and the catalog of two or more  *)
(* processes that share one file of credentials.                            *)
(***************************************************************************)

\* Where a call, a sign-in and an operator may be, and what they hold.
CallPlaces == {"new", "sent", "served", "refused", "rejected", "aborted", "lock", "reload", "post",
               "write", "delete", "written", "deleted", "unlock", "failing"}

CallRecord == [at : CallPlaces, using : Nat, got : Nat, recovers : {"no", "now", "done"}]
LoginRecord == [at : {"none", "waiting", "lock", "write", "written"}, got : Nat]
OperatorRecord == [at : {"idle", "revoke", "lock", "delete"}, asked : Nat]
Event == [revision : Nat, connected : BOOLEAN, begun : BOOLEAN]
CatalogRecord == [listed : BOOLEAN, seen : Nat, queue : Seq(Event), polls : Nat]
Tasks == {Nobody} \cup {CallTask(c) : c \in Calls} \cup {OperatorTask(p) : p \in Processes}
AccountRecord == [credentials : Nat, history : Seq(BOOLEAN), lock : Tasks, closed : BOOLEAN,
                  error : BOOLEAN, signedOut : BOOLEAN, unseen : BOOLEAN]

\* Generations are what was issued; who writes or has written has one to write.
ServerTyped ==
  /\ issued \in Nat /\ accepted \subseteq 1..issued /\ due \subseteq 1..issued
  /\ file \in 0..issued /\ threads \subseteq 0..issued

CallsTyped ==
  /\ call \in [Calls -> CallRecord]
  /\ \A c \in Calls : /\ call[c].using \in 0..issued /\ call[c].got \in 0..issued
                      /\ call[c].at \in {"write", "written"} => call[c].got # None

LoginsTyped ==
  /\ login \in [Processes -> LoginRecord]
  /\ \A p \in Processes : /\ login[p].got \in 0..issued
                          /\ login[p].at \in {"lock", "write", "written"} => login[p].got # None

OperatorsTyped == operator \in [Processes -> OperatorRecord]

AccountsTyped ==
  /\ account \in [Processes -> AccountRecord]
  /\ \A p \in Processes : account[p].credentials \in 0..issued /\ Revision(p) \in Nat \ {0}

CatalogsTyped ==
  /\ catalog \in [Processes -> CatalogRecord]
  /\ \A p \in Processes :
       /\ catalog[p].seen \in 1..Revision(p)
       /\ \A i \in DOMAIN catalog[p].queue : catalog[p].queue[i].revision \in 1..Revision(p)

\* Whoever is at a step under the lock of the file holds it.
FileIsLocked ==
  /\ \A c \in Calls :
       call[c].at \in {"reload", "post", "write", "delete", "written", "deleted", "unlock",
                      "failing"} => fileLock = CallTask(c)
  /\ \A p \in Processes : login[p].at = "write" => fileLock = LoginTask(p)
  /\ \A p \in Processes : operator[p].at = "delete" => fileLock = OperatorTask(p)

\* So does whoever is at a step under the lock of its process's account, and a call
\* there has credentials to refresh.
StateIsLocked ==
  /\ \A c \in Calls :
       call[c].at \in {"lock", "reload", "post", "write", "delete", "written", "deleted",
                      "unlock", "failing"} => account[Home[c]].lock = CallTask(c)
  /\ \A c \in Calls :
       call[c].at \in {"lock", "reload", "post", "write", "delete", "written", "deleted"} =>
         account[Home[c]].credentials # None
  /\ \A p \in Processes : operator[p].at \in {"lock", "delete"} => account[p].lock = OperatorTask(p)

\* While no generation is stranded, no write outlives its task but a deletion, and
\* the file a call is about to write or delete holds what the call refreshes, nothing,
\* or something that is about to expire.
FileIsKnown ==
  stranded = {} =>
    /\ threads \subseteq {None}
    /\ \A c \in Calls :
         /\ call[c].at \in {"post", "write", "delete"} => file \in {None, call[c].using} \cup due
         /\ call[c].at = "delete" => call[c].using \notin accepted

\* Unless the account was taken unseen, the history says at its last revision whether
\* there are credentials, and a queued status and the listing say what it said at theirs.
Settlement(p) ==
  ~account[p].unseen =>
    /\ Connected(account[p]) = account[p].history[Revision(p)]
    /\ \A i \in DOMAIN catalog[p].queue :
         catalog[p].queue[i].connected = account[p].history[catalog[p].queue[i].revision]
    /\ catalog[p].queue = <<>> => catalog[p].listed = account[p].history[catalog[p].seen]

StatusIsSettled == \A p \in Processes : Settlement(p)

AccountInvariant ==
  /\ ServerTyped /\ CallsTyped /\ LoginsTyped /\ OperatorsTyped /\ AccountsTyped
  /\ CatalogsTyped /\ FileIsLocked /\ StateIsLocked /\ FileIsKnown /\ StatusIsSettled

\* A call's step: where it is next, and with what.
Moves(c, s, u, g) ==
  /\ call' \in [Calls -> CallRecord]
  /\ \A d \in Calls : d # c => call'[d] = call[d]
  /\ call'[c].at = s /\ call'[c].using = u /\ call'[c].got = g

\* An account's step: its credentials, revisions, lock, and whether it was taken unseen.
Becomes(p, g, h, t, n) ==
  /\ account' \in [Processes -> AccountRecord]
  /\ \A q \in Processes : q # p => account'[q] = account[q]
  /\ account'[p].credentials = g /\ account'[p].history = h
  /\ account'[p].lock = t /\ (account'[p].unseen <=> n)

LEMMA GoingMoves ==
  ASSUME CallsTyped, NEW c \in Calls, NEW s \in CallPlaces, Going(c, s)
  PROVE  Moves(c, s, call[c].using, call[c].got)
BY DEF CallsTyped, CallRecord, Going, Moves

LEMMA UsingMoves ==
  ASSUME CallsTyped, NEW c \in Calls, NEW s \in CallPlaces, NEW u \in Nat,
         call' = [call EXCEPT ![c] = [@ EXCEPT !.at = s, !.using = u]]
  PROVE  Moves(c, s, u, call[c].got)
BY DEF CallsTyped, CallRecord, Moves

LEMMA GettingMoves ==
  ASSUME CallsTyped, NEW c \in Calls, NEW s \in CallPlaces, NEW g \in Nat,
         call' = [call EXCEPT ![c] = [@ EXCEPT !.at = s, !.got = g]]
  PROVE  Moves(c, s, call[c].using, g)
BY DEF CallsTyped, CallRecord, Moves

LEMMA RecoveringMoves ==
  ASSUME CallsTyped, NEW c \in Calls, NEW s \in CallPlaces, NEW r \in {"no", "now", "done"},
         call' = [call EXCEPT ![c] = [@ EXCEPT !.at = s, !.recovers = r]]
  PROVE  Moves(c, s, call[c].using, call[c].got)
BY DEF CallsTyped, CallRecord, Moves

LEMMA LockBecomes ==
  ASSUME AccountsTyped, NEW p \in Processes, NEW t \in Tasks,
         account' = [account EXCEPT ![p].lock = t]
  PROVE  Becomes(p, account[p].credentials, account[p].history, t, account[p].unseen)
BY DEF AccountsTyped, AccountRecord, Becomes

LEMMA CredentialsBecome ==
  ASSUME AccountsTyped, NEW p \in Processes, NEW g \in Nat,
         account' = [account EXCEPT ![p].credentials = g]
  PROVE  Becomes(p, g, account[p].history, account[p].lock, account[p].unseen)
BY DEF AccountsTyped, AccountRecord, Becomes

LEMMA ErrorBecomes ==
  ASSUME AccountsTyped, NEW p \in Processes, NEW e \in BOOLEAN,
         account' = [account EXCEPT ![p].error = e]
  PROVE  Becomes(p, account[p].credentials, account[p].history, account[p].lock,
                 account[p].unseen)
BY DEF AccountsTyped, AccountRecord, Becomes

LEMMA ClosedBecomes ==
  ASSUME AccountsTyped, NEW p \in Processes,
         account' = [account EXCEPT ![p].closed = TRUE]
  PROVE  Becomes(p, account[p].credentials, account[p].history, account[p].lock,
                 account[p].unseen)
BY DEF AccountsTyped, AccountRecord, Becomes

LEMMA Appending ==
  ASSUME NEW S, NEW h \in Seq(S), NEW b \in S
  PROVE  /\ Append(h, b) \in Seq(S) /\ Len(Append(h, b)) = Len(h) + 1 /\ Len(h) \in Nat
         /\ Append(h, b)[Len(h) + 1] = b
         /\ \A i \in 1..Len(h) : Append(h, b)[i] = h[i]
OBVIOUS

LEMMA Dropping ==
  ASSUME NEW h \in Seq(BOOLEAN)
  PROVE  /\ Len(Append(h, FALSE)) = Len(h) + 1 /\ Append(h, FALSE)[Len(h) + 1] = FALSE
         /\ \A i \in 1..Len(h) : Append(h, FALSE)[i] = h[i]
<1>1. FALSE \in BOOLEAN
  OBVIOUS
<1> QED BY <1>1, Appending, Z3

\* What setting or dropping the credentials does to an account.
LEMMA SettledBecomes ==
  ASSUME AccountsTyped, NEW p \in Processes, NEW g \in Nat,
         account' = [account EXCEPT ![p] = Settled(@, g)]
  PROVE  Becomes(p, g, Append(account[p].history, g # None), account[p].lock, account[p].unseen)
<1>1. account[p] \in AccountRecord /\ account \in [Processes -> AccountRecord]
  BY DEF AccountsTyped
<1>2. Append(account[p].history, g # None) \in Seq(BOOLEAN)
  BY <1>1, Appending DEF AccountRecord
<1> DEFINE h == Append(account[p].history, g # None)
<1> HIDE DEF h
<1>3. h \in Seq(BOOLEAN) /\ account' = [account EXCEPT ![p] = [@ EXCEPT !.credentials = g, !.history = h]]
  BY <1>2 DEF h, Settled
<1>4. Becomes(p, g, h, account[p].lock, account[p].unseen)
  <2> DEFINE a == [account[p] EXCEPT !.credentials = g, !.history = h]
  <2>1. /\ a \in AccountRecord /\ a.credentials = g /\ a.history = h
        /\ a.lock = account[p].lock /\ a.unseen = account[p].unseen
    BY <1>1, <1>3 DEF AccountRecord
  <2>2. account' = [account EXCEPT ![p] = a]
    BY <1>3
  <2> HIDE DEF a
  <2> QED
    BY <1>1, <2>1, <2>2 DEF Becomes
<1> QED BY <1>4 DEF h

LEMMA DroppedBecomes ==
  ASSUME AccountsTyped, NEW p \in Processes,
         account' = [account EXCEPT ![p] = [Settled(@, None) EXCEPT !.error = TRUE]]
  PROVE  Becomes(p, None, Append(account[p].history, None # None), account[p].lock,
                 account[p].unseen)
<1>1. account[p] \in AccountRecord /\ account \in [Processes -> AccountRecord]
  BY DEF AccountsTyped
<1>2. Append(account[p].history, None # None) \in Seq(BOOLEAN)
  BY <1>1, Appending DEF AccountRecord
<1> DEFINE h == Append(account[p].history, None # None)
<1> HIDE DEF h
<1>3. /\ h \in Seq(BOOLEAN) /\ None \in Nat
      /\ account' = [account EXCEPT ![p] = [@ EXCEPT !.credentials = None, !.history = h, !.error = TRUE]]
  BY <1>2 DEF h, Settled, None
<1> DEFINE a == [account[p] EXCEPT !.credentials = None, !.history = h, !.error = TRUE]
<1>4. /\ a \in AccountRecord /\ a.credentials = None /\ a.history = h
      /\ a.lock = account[p].lock /\ a.unseen = account[p].unseen
  BY <1>1, <1>3 DEF AccountRecord
<1>5. account' = [account EXCEPT ![p] = a]
  BY <1>3
<1> HIDE DEF a
<1>6. Becomes(p, None, h, account[p].lock, account[p].unseen)
  BY <1>1, <1>4, <1>5 DEF Becomes
<1> QED BY <1>6 DEF h

LEMMA FinishedBecomes ==
  ASSUME AccountsTyped, NEW p \in Processes, NEW g \in Nat,
         account' = [account EXCEPT ![p] = [Settled(@, g) EXCEPT !.error = FALSE]]
  PROVE  Becomes(p, g, Append(account[p].history, g # None), account[p].lock, account[p].unseen)
<1>1. account[p] \in AccountRecord /\ account \in [Processes -> AccountRecord]
  BY DEF AccountsTyped
<1>2. Append(account[p].history, g # None) \in Seq(BOOLEAN)
  BY <1>1, Appending DEF AccountRecord
<1> DEFINE h == Append(account[p].history, g # None)
<1> HIDE DEF h
<1>3. h \in Seq(BOOLEAN)
      /\ account' = [account EXCEPT ![p] = [@ EXCEPT !.credentials = g, !.history = h, !.error = FALSE]]
  BY <1>2 DEF h, Settled
<1> DEFINE a == [account[p] EXCEPT !.credentials = g, !.history = h, !.error = FALSE]
<1>4. /\ a \in AccountRecord /\ a.credentials = g /\ a.history = h
      /\ a.lock = account[p].lock /\ a.unseen = account[p].unseen
  BY <1>1, <1>3 DEF AccountRecord
<1>5. account' = [account EXCEPT ![p] = a]
  BY <1>3
<1> HIDE DEF a
<1>6. Becomes(p, g, h, account[p].lock, account[p].unseen)
  BY <1>1, <1>4, <1>5 DEF Becomes
<1> QED BY <1>6 DEF h

LEMMA FoundBecomes ==
  ASSUME AccountsTyped, NEW p \in Processes, NEW g \in Nat,
         account' = [account EXCEPT ![p] = Found(@, g)]
  PROVE  Becomes(p, g, account[p].history, account[p].lock,
                 account[p].unseen \/ account[p].credentials = None)
<1>1. CASE Connected(account[p])
  BY <1>1 DEF AccountsTyped, AccountRecord, Becomes, Found, Connected
<1>2. CASE ~Connected(account[p])
  BY <1>2 DEF AccountsTyped, AccountRecord, Becomes, Found, Connected
<1> QED BY <1>1, <1>2

LEMMA FoundLocksBecome ==
  ASSUME AccountsTyped, NEW p \in Processes, NEW g \in Nat, NEW t \in Tasks,
         account' = [account EXCEPT ![p] = [Found(@, g) EXCEPT !.lock = t]]
  PROVE  Becomes(p, g, account[p].history, t, account[p].unseen \/ account[p].credentials = None)
<1>1. CASE Connected(account[p])
  BY <1>1 DEF AccountsTyped, AccountRecord, Becomes, Found, Connected
<1>2. CASE ~Connected(account[p])
  BY <1>2 DEF AccountsTyped, AccountRecord, Becomes, Found, Connected
<1> QED BY <1>1, <1>2

LEMMA SignedOutBecomes ==
  ASSUME AccountsTyped, NEW p \in Processes,
         account' = [account EXCEPT ![p] =
           [Settled(@, None) EXCEPT !.lock = Nobody, !.error = FALSE, !.signedOut = TRUE]]
  PROVE  Becomes(p, None, Append(account[p].history, FALSE), Nobody, account[p].unseen)
<1>1. account[p] \in AccountRecord /\ account \in [Processes -> AccountRecord] /\ Nobody \in Tasks
  BY DEF AccountsTyped, Tasks
<1>2. Append(account[p].history, FALSE) \in Seq(BOOLEAN)
  BY <1>1, Appending DEF AccountRecord
<1> DEFINE h == Append(account[p].history, FALSE)
<1> HIDE DEF h
<1> DEFINE a == [account[p] EXCEPT !.credentials = None, !.history = h, !.lock = Nobody, !.error = FALSE,
                                  !.signedOut = TRUE]
<1>3. h \in Seq(BOOLEAN) /\ None \in Nat /\ account' = [account EXCEPT ![p] = a]
  BY <1>2 DEF h, Settled, None
<1>4. /\ a \in AccountRecord /\ a.credentials = None /\ a.history = h
      /\ a.lock = Nobody /\ a.unseen = account[p].unseen
  BY <1>1, <1>3 DEF AccountRecord
<1> HIDE DEF a
<1>6. Becomes(p, None, h, Nobody, account[p].unseen)
  BY <1>1, <1>3, <1>4 DEF Becomes
<1> QED BY <1>6 DEF h

LEMMA StartedBecomes ==
  ASSUME AccountsTyped, NEW p \in Processes,
         account' = [account EXCEPT ![p].error = FALSE, ![p].signedOut = FALSE]
  PROVE  Becomes(p, account[p].credentials, account[p].history, account[p].lock,
                 account[p].unseen)
BY DEF AccountsTyped, AccountRecord, Becomes

\* The application's view of an account moves on.
Shows(p, l, s, q) ==
  /\ catalog' \in [Processes -> CatalogRecord]
  /\ \A r \in Processes : r # p => catalog'[r] = catalog[r]
  /\ (catalog'[p].listed <=> l) /\ catalog'[p].seen = s /\ catalog'[p].queue = q

LEMMA Queueing ==
  ASSUME NEW q \in Seq(Event), NEW e \in Event
  PROVE  /\ Append(q, e) \in Seq(Event) /\ Append(q, e) # <<>>
         /\ \A i \in DOMAIN Append(q, e) : Append(q, e)[i] = e \/ (i \in DOMAIN q /\ Append(q, e)[i] = q[i])
<1>1. /\ Append(q, e) \in Seq(Event) /\ Len(Append(q, e)) = Len(q) + 1 /\ Len(q) \in Nat
      /\ Append(q, e)[Len(q) + 1] = e
      /\ \A i \in 1..Len(q) : Append(q, e)[i] = q[i]
  OBVIOUS
<1>2. DOMAIN Append(q, e) = 1..(Len(q) + 1) /\ DOMAIN q = 1..Len(q)
  BY <1>1
<1> HIDE DEF Event
<1> QED BY <1>1, <1>2

LEMMA Dequeueing ==
  ASSUME NEW q \in Seq(Event), q # <<>>
  PROVE  /\ Tail(q) \in Seq(Event) /\ Head(q) = q[1] /\ 1 \in DOMAIN q
         /\ \A i \in DOMAIN Tail(q) : i + 1 \in DOMAIN q /\ Tail(q)[i] = q[i + 1]
OBVIOUS

LEMMA Beginning ==
  ASSUME NEW q \in Seq(Event), q # <<>>
  PROVE  /\ [q EXCEPT ![1].begun = TRUE] \in Seq(Event) /\ [q EXCEPT ![1].begun = TRUE] # <<>>
         /\ DOMAIN [q EXCEPT ![1].begun = TRUE] = DOMAIN q
         /\ \A i \in DOMAIN q : /\ [q EXCEPT ![1].begun = TRUE][i].revision = q[i].revision
                                /\ [q EXCEPT ![1].begun = TRUE][i].connected = q[i].connected
<1> DEFINE e == [q[1] EXCEPT !.begun = TRUE]
           r == [q EXCEPT ![1] = e]
<1>1. /\ 1 \in 1..Len(q) /\ q[1] \in Event /\ DOMAIN q = 1..Len(q)
      /\ q \in [1..Len(q) -> Event] /\ Len(q) \in Nat
  OBVIOUS
<1>2. e \in Event /\ e.revision = q[1].revision /\ e.connected = q[1].connected
  BY <1>1 DEF Event
<1> HIDE DEF e, Event
<1>3. r \in [1..Len(q) -> Event] /\ r[1] = e /\ \A i \in 1..Len(q) : i # 1 => r[i] = q[i]
  BY <1>1, <1>2
<1> HIDE DEF r
<1>4. r \in Seq(Event) /\ r # <<>> /\ DOMAIN r = DOMAIN q
  BY <1>1, <1>3
<1>5. \A i \in DOMAIN q : r[i].revision = q[i].revision /\ r[i].connected = q[i].connected
  BY <1>1, <1>2, <1>3
<1>6. [q EXCEPT ![1].begun = TRUE] = r
  BY DEF r, e
<1> QED BY <1>4, <1>5, <1>6

LEMMA PolledLists ==
  ASSUME CatalogsTyped, NEW p \in Processes, NEW n \in Nat, NEW q \in Seq(Event),
         catalog' = [catalog EXCEPT ![p] = [@ EXCEPT !.polls = n, !.queue = q]]
  PROVE  Shows(p, catalog[p].listed, catalog[p].seen, q)
BY DEF CatalogsTyped, CatalogRecord, Shows

LEMMA CountedLists ==
  ASSUME CatalogsTyped, NEW p \in Processes, NEW n \in Nat,
         catalog' = [catalog EXCEPT ![p].polls = n]
  PROVE  Shows(p, catalog[p].listed, catalog[p].seen, catalog[p].queue)
BY DEF CatalogsTyped, CatalogRecord, Shows

LEMMA BegunLists ==
  ASSUME CatalogsTyped, NEW p \in Processes, NEW q \in Seq(Event),
         catalog' = [catalog EXCEPT ![p] = [@ EXCEPT !.listed = TRUE, !.queue = q]]
  PROVE  Shows(p, TRUE, catalog[p].seen, q)
BY DEF CatalogsTyped, CatalogRecord, Shows

LEMMA SeenLists ==
  ASSUME CatalogsTyped, NEW p \in Processes, NEW l \in BOOLEAN, NEW s \in Nat,
         NEW q \in Seq(Event),
         catalog' = [catalog EXCEPT ![p] = [@ EXCEPT !.listed = l, !.seen = s, !.queue = q]]
  PROVE  Shows(p, l, s, q)
BY DEF CatalogsTyped, CatalogRecord, Shows

LEMMA QueueLists ==
  ASSUME CatalogsTyped, NEW p \in Processes, NEW e \in Event,
         catalog' = [catalog EXCEPT ![p].queue = Append(@, e)]
  PROVE  Shows(p, catalog[p].listed, catalog[p].seen, Append(catalog[p].queue, e))
<1>1. catalog \in [Processes -> CatalogRecord] /\ catalog[p].queue \in Seq(Event)
  BY DEF CatalogsTyped, CatalogRecord
<1> DEFINE q == Append(catalog[p].queue, e)
<1>2. q \in Seq(Event) /\ catalog' = [catalog EXCEPT ![p].queue = q]
  BY <1>1, Queueing
<1> HIDE DEF q
<1>3. Shows(p, catalog[p].listed, catalog[p].seen, q)
  BY <1>1, <1>2, ZenonT(40) DEF Shows, CatalogRecord
<1> QED BY <1>3 DEF q

\* Nothing that an availability depends on has changed.
LEMMA QuietAccounts ==
  ASSUME AccountInvariant, NEW p \in Processes, NEW t \in Tasks, UNCHANGED catalog,
         issued' \in Nat, issued <= issued',
         Becomes(p, account[p].credentials, account[p].history, t, account[p].unseen)
  PROVE  AccountsTyped' /\ CatalogsTyped' /\ StatusIsSettled'
<1>1. \A q \in Processes : /\ account'[q].credentials = account[q].credentials
                           /\ account'[q].history = account[q].history
                           /\ account'[q].unseen <=> account[q].unseen
  BY DEF Becomes
<1>2. account' \in [Processes -> AccountRecord] /\ issued \in Nat
  BY DEF Becomes, AccountInvariant, ServerTyped
<1>3. AccountsTyped'
  BY <1>1, <1>2 DEF AccountsTyped, Revision, AccountInvariant
<1>4. CatalogsTyped'
  BY <1>1 DEF CatalogsTyped, Revision, AccountInvariant
<1>5. StatusIsSettled'
  BY <1>1 DEF StatusIsSettled, Settlement, Connected, Revision, AccountInvariant
<1> QED BY <1>3, <1>4, <1>5

LEMMA Standing ==
  ASSUME AccountsTyped, NEW p \in Processes, UNCHANGED account
  PROVE  /\ account[p].lock \in Tasks
         /\ Becomes(p, account[p].credentials, account[p].history, account[p].lock, account[p].unseen)
BY DEF AccountsTyped, AccountRecord, Becomes

\* Other credentials take the place of credentials, or the account was taken unseen.
LEMMA FoundAccounts ==
  ASSUME AccountInvariant, NEW p \in Processes, NEW t \in Tasks, UNCHANGED <<catalog, issued>>,
         NEW g \in 1..issued, NEW n \in BOOLEAN, account[p].unseen => n,
         account[p].credentials = None => n,
         Becomes(p, g, account[p].history, t, n)
  PROVE  AccountsTyped' /\ CatalogsTyped' /\ StatusIsSettled'
<1>1. \A q \in Processes :
        /\ account'[q].history = account[q].history
        /\ ~account'[q].unseen =>
             ~account[q].unseen /\ (account'[q].credentials # None) = (account[q].credentials # None)
  BY DEF Becomes, None, AccountInvariant, ServerTyped
<1>2. account' \in [Processes -> AccountRecord] /\ issued \in Nat
      /\ \A q \in Processes : account'[q].credentials \in 0..issued
  BY DEF Becomes, AccountInvariant, ServerTyped, AccountsTyped
<1>3. AccountsTyped'
  BY <1>1, <1>2 DEF AccountsTyped, Revision, AccountInvariant
<1>4. CatalogsTyped'
  BY <1>1 DEF CatalogsTyped, Revision, AccountInvariant
<1>5. StatusIsSettled'
  BY <1>1 DEF StatusIsSettled, Settlement, Connected, Revision, AccountInvariant
<1> QED BY <1>3, <1>4, <1>5

\* Credentials are set or dropped with a revision of their own.
LEMMA SettledAccounts ==
  ASSUME AccountInvariant, NEW p \in Processes, NEW t, UNCHANGED <<catalog, issued>>,
         NEW g \in 0..issued,
         Becomes(p, g, Append(account[p].history, g # None), t, account[p].unseen)
  PROVE  AccountsTyped' /\ CatalogsTyped' /\ StatusIsSettled'
<1>0. account[p].history \in Seq(BOOLEAN) /\ issued \in Nat /\ Revision(p) \in Nat \ {0}
  BY DEF AccountInvariant, AccountsTyped, AccountRecord, ServerTyped
<1>1. /\ Revision(p)' = Revision(p) + 1
      /\ account'[p].history[Revision(p) + 1] = (g # None)
      /\ \A i \in 1..Revision(p) : account'[p].history[i] = account[p].history[i]
      /\ Connected(account[p])' = (g # None)
  BY <1>0, Appending DEF Becomes, Revision, Connected
<1>2. account' \in [Processes -> AccountRecord] /\ \A q \in Processes : account'[q].credentials \in 0..issued
  BY DEF Becomes, AccountInvariant, AccountsTyped
<1>3. \A q \in Processes : q # p => account'[q] = account[q] /\ Revision(q)' = Revision(q)
  BY DEF Becomes, Revision
<1>4. AccountsTyped'
  BY <1>0, <1>1, <1>2, <1>3 DEF AccountsTyped, AccountInvariant
<1>5. CatalogsTyped'
  BY <1>0, <1>1, <1>3 DEF CatalogsTyped, AccountInvariant
<1>6. StatusIsSettled'
  <2> SUFFICES ASSUME NEW q \in Processes PROVE Settlement(q)'
    BY DEF StatusIsSettled
  <2>1. CASE q # p
    BY <2>1, <1>3 DEF AccountInvariant, StatusIsSettled, Settlement, Connected
  <2>2. CASE q = p
    <3>1. ~account'[p].unseen => ~account[p].unseen
      BY DEF Becomes
    <3>2. \A i \in DOMAIN catalog[p].queue : catalog[p].queue[i].revision \in 1..Revision(p)
      BY DEF AccountInvariant, CatalogsTyped
    <3>3. catalog[p].seen \in 1..Revision(p)
      BY DEF AccountInvariant, CatalogsTyped
    <3>4. Settlement(p)
      BY DEF AccountInvariant, StatusIsSettled
    <3> QED BY <2>2, <1>1, <3>1, <3>2, <3>3, <3>4 DEF Settlement
  <2> QED BY <2>1, <2>2
<1> QED BY <1>4, <1>5, <1>6

\* In what follows the small operators are expanded everywhere.
USE AccountConstants DEF At, Going, Leave, LoginAt, LoginGoing, OperatorAt, Disk, Server,
  None, Nobody, Generation, CallTask, LoginTask, OperatorTask, Revision, Connected

LEMMA AccessKeeps ==
  ASSUME AccountInvariant, NEW c \in Calls, Access(c)
  PROVE  AccountInvariant'
<1>0. ServerTyped /\ CallsTyped /\ LoginsTyped /\ OperatorsTyped /\ AccountsTyped
      /\ CatalogsTyped /\ FileIsLocked /\ StateIsLocked /\ FileIsKnown /\ StatusIsSettled
  BY DEF AccountInvariant
<1>p. /\ Home[c] \in Processes /\ CallTask(c) \in Tasks /\ {"refused", "sent", "lock"} \subseteq CallPlaces
      /\ account[Home[c]].credentials \in 0..issued /\ 0..issued \subseteq Nat /\ due \subseteq 1..issued
      /\ call[c].using \in 0..issued
  BY <1>0 DEF CallPlaces, Tasks, ServerTyped, AccountsTyped, CallsTyped
<1>a. \/ /\ UNCHANGED account
         /\ \E s \in {"refused", "sent"}, u \in 0..issued : Moves(c, s, u, call[c].got)
      \/ /\ Becomes(Home[c], account[Home[c]].credentials, account[Home[c]].history, CallTask(c),
                     account[Home[c]].unseen)
         /\ account[Home[c]].credentials # None
         /\ Moves(c, "lock", account[Home[c]].credentials, call[c].got)
  <2>1. CASE account[Home[c]].closed \/ account[Home[c]].credentials = None
    BY <1>0, <1>p, <2>1, GoingMoves DEF Access
  <2>2. CASE ~account[Home[c]].closed /\ account[Home[c]].credentials \in Generation \ due
    BY <1>0, <1>p, <2>2, UsingMoves DEF Access
  <2>3. CASE ~account[Home[c]].closed /\ account[Home[c]].credentials \in due
    <3>1. /\ account[Home[c]].credentials # None
          /\ call' = [call EXCEPT ![c] = [@ EXCEPT !.at = "lock", !.using = account[Home[c]].credentials]]
          /\ account' = [account EXCEPT ![Home[c]].lock = CallTask(c)]
      BY <1>p, <2>3 DEF Access
    <3> QED BY <1>0, <1>p, <3>1, UsingMoves, LockBecomes
  <2> QED BY <2>1, <2>2, <2>3 DEF Access
<1>b. \E t \in Tasks :
        Becomes(Home[c], account[Home[c]].credentials, account[Home[c]].history, t, account[Home[c]].unseen)
  BY <1>0, <1>a, Standing DEF Tasks
<1>1. ServerTyped' /\ LoginsTyped' /\ OperatorsTyped'
  BY <1>0 DEF Access, MayLock, ServerTyped, LoginsTyped, OperatorsTyped
<1>2. AccountsTyped' /\ CatalogsTyped' /\ StatusIsSettled'
  BY <1>0, <1>b, QuietAccounts DEF Access, ServerTyped, Tasks
<1>3. CallsTyped'
  BY <1>0, <1>a, ZenonT(40) DEF Access, MayLock, CallsTyped, ServerTyped, AccountsTyped, Moves, Becomes
<1>4. FileIsLocked'
  BY <1>0, <1>a DEF Access, MayLock, FileIsLocked, Moves, Becomes
<1>5. StateIsLocked'
  BY <1>0, <1>a, SMTT(30) DEF Access, MayLock, StateIsLocked, ServerTyped, Moves, Becomes
<1>6. FileIsKnown'
  BY <1>0, <1>a DEF Access, MayLock, FileIsKnown, ServerTyped, CallsTyped, FileIsLocked, Moves,
    Becomes
<1> QED BY <1>1, <1>2, <1>3, <1>4, <1>5, <1>6 DEF AccountInvariant

LEMMA ServedKeeps ==
  ASSUME AccountInvariant, NEW c \in Calls, Served(c)
  PROVE  AccountInvariant'
<1>0. ServerTyped /\ CallsTyped /\ LoginsTyped /\ OperatorsTyped /\ AccountsTyped
      /\ CatalogsTyped /\ FileIsLocked /\ StateIsLocked /\ FileIsKnown /\ StatusIsSettled
  BY DEF AccountInvariant
<1>a. Moves(c, "served", call[c].using, call[c].got)
  BY <1>0, GoingMoves DEF Served, CallPlaces
<1>1. ServerTyped' /\ LoginsTyped' /\ OperatorsTyped'
      /\ AccountsTyped' /\ CatalogsTyped' /\ StatusIsSettled'
  BY <1>0 DEF Served, ServerTyped, LoginsTyped, OperatorsTyped, AccountsTyped, CatalogsTyped,
    StatusIsSettled, Settlement
<1>2. CallsTyped'
  BY <1>0, <1>a DEF Served, CallsTyped, ServerTyped, AccountsTyped, Moves
<1>3. FileIsLocked'
  BY <1>0, <1>a DEF Served, FileIsLocked, Moves
<1>4. StateIsLocked'
  BY <1>0, <1>a DEF Served, StateIsLocked, ServerTyped, Moves
<1>5. FileIsKnown'
  BY <1>0, <1>a DEF Served, FileIsKnown, ServerTyped, CallsTyped, FileIsLocked, Moves
<1> QED BY <1>1, <1>2, <1>3, <1>4, <1>5 DEF AccountInvariant

LEMMA RejectedKeeps ==
  ASSUME AccountInvariant, NEW c \in Calls, Rejected(c)
  PROVE  AccountInvariant'
<1>0. ServerTyped /\ CallsTyped /\ LoginsTyped /\ OperatorsTyped /\ AccountsTyped
      /\ CatalogsTyped /\ FileIsLocked /\ StateIsLocked /\ FileIsKnown /\ StatusIsSettled
  BY DEF AccountInvariant
<1>a. \E s \in {"refused", "rejected"} : Moves(c, s, call[c].using, call[c].got)
  BY <1>0, GoingMoves DEF Rejected, CallPlaces
<1>1. ServerTyped' /\ LoginsTyped' /\ OperatorsTyped'
      /\ AccountsTyped' /\ CatalogsTyped' /\ StatusIsSettled'
  BY <1>0 DEF Rejected, ServerTyped, LoginsTyped, OperatorsTyped, AccountsTyped, CatalogsTyped,
    StatusIsSettled, Settlement
<1>2. CallsTyped'
  BY <1>0, <1>a DEF Rejected, CallsTyped, ServerTyped, AccountsTyped, Moves
<1>3. FileIsLocked'
  BY <1>0, <1>a DEF Rejected, FileIsLocked, Moves
<1>4. StateIsLocked'
  BY <1>0, <1>a DEF Rejected, StateIsLocked, ServerTyped, Moves
<1>5. FileIsKnown'
  BY <1>0, <1>a DEF Rejected, FileIsKnown, ServerTyped, CallsTyped, FileIsLocked, Moves
<1> QED BY <1>1, <1>2, <1>3, <1>4, <1>5 DEF AccountInvariant

LEMMA RecoverKeeps ==
  ASSUME AccountInvariant, NEW c \in Calls, Recover(c)
  PROVE  AccountInvariant'
<1>0. ServerTyped /\ CallsTyped /\ LoginsTyped /\ OperatorsTyped /\ AccountsTyped
      /\ CatalogsTyped /\ FileIsLocked /\ StateIsLocked /\ FileIsKnown /\ StatusIsSettled
  BY DEF AccountInvariant
<1> DEFINE p == Home[c]
           current == IF file # None THEN file ELSE account[p].credentials
<1>p. p \in Processes /\ current \in 0..issued /\ account[p].unseen \in BOOLEAN
      /\ account[p].lock \in Tasks /\ CallTask(c) \in Tasks /\ 0..issued \subseteq Nat
      /\ {"refused", "new", "lock"} \subseteq CallPlaces
  BY <1>0 DEF ServerTyped, AccountsTyped, AccountRecord, Tasks, CallPlaces
<1>m. account[p].lock = Nobody /\ UNCHANGED <<file, fileLock, threads, Server, login, operator, catalog>>
  BY DEF Recover, MayLock
<1>a. \/ UNCHANGED account /\ Moves(c, "refused", call[c].using, call[c].got)
      \/ /\ current \in 1..issued /\ Moves(c, "new", call[c].using, call[c].got)
         /\ Becomes(p, current, account[p].history, account[p].lock,
                    account[p].unseen \/ account[p].credentials = None)
      \/ /\ current \in 1..issued /\ Moves(c, "lock", call[c].using, call[c].got)
         /\ Becomes(p, current, account[p].history, CallTask(c),
                    account[p].unseen \/ account[p].credentials = None)
  <2>1. \/ UNCHANGED account /\ Going(c, "refused")
        \/ /\ current # None
           /\ call' = [call EXCEPT ![c] = [@ EXCEPT !.at = "new", !.recovers = "done"]]
           /\ account' = [account EXCEPT ![p] = Found(@, current)]
        \/ /\ current # None
           /\ call' = [call EXCEPT ![c] = [@ EXCEPT !.at = "lock", !.recovers = "now"]]
           /\ account' = [account EXCEPT ![p] = [Found(@, current) EXCEPT !.lock = CallTask(c)]]
    BY DEF Recover
  <2>2. current \in Nat /\ (current # None => current \in 1..issued)
    BY <1>0, <1>p DEF ServerTyped
  <2> HIDE DEF current, p
  <2> QED BY <1>0, <1>p, <2>1, <2>2, GoingMoves, RecoveringMoves, FoundBecomes, FoundLocksBecome
<1> HIDE DEF current
<1>k. AccountsTyped' /\ CatalogsTyped' /\ StatusIsSettled'
  <2>1. CASE UNCHANGED account
    BY <1>0, <1>m, <2>1 DEF AccountsTyped, CatalogsTyped, StatusIsSettled, Settlement
  <2>2. CASE ~UNCHANGED account
    <3> HIDE DEF p
    <3> QED BY <1>a, <1>p, <1>m, <2>2, FoundAccounts
  <2> QED BY <2>1, <2>2
<1>1. ServerTyped' /\ LoginsTyped' /\ OperatorsTyped'
  BY <1>0 DEF Recover, MayLock, ServerTyped, LoginsTyped, OperatorsTyped
<1>2. AccountsTyped' /\ CatalogsTyped' /\ StatusIsSettled'
  BY <1>k
<1>3. CallsTyped'
  BY <1>0, <1>a, <1>m DEF CallsTyped, Moves
<1>4. FileIsLocked'
  BY <1>0, <1>a, <1>p, <1>m DEF Recover, MayLock, FileIsLocked, Moves, Becomes
<1>5. StateIsLocked'
  <2>1. CASE UNCHANGED account /\ Moves(c, "refused", call[c].using, call[c].got)
    BY <1>0, <1>m, <2>1 DEF StateIsLocked, Moves
  <2>2. CASE /\ current \in 1..issued /\ Moves(c, "new", call[c].using, call[c].got)
             /\ Becomes(p, current, account[p].history, account[p].lock,
                        account[p].unseen \/ account[p].credentials = None)
    BY <1>0, <1>p, <1>m, <2>2 DEF StateIsLocked, ServerTyped, Moves, Becomes
  <2>3. CASE /\ current \in 1..issued /\ Moves(c, "lock", call[c].using, call[c].got)
             /\ Becomes(p, current, account[p].history, CallTask(c),
                        account[p].unseen \/ account[p].credentials = None)
    BY <1>0, <1>p, <1>m, <2>3 DEF Recover, MayLock, StateIsLocked, ServerTyped, Moves, Becomes
  <2> QED
    BY <1>a, <2>1, <2>2, <2>3
<1>6. FileIsKnown'
  BY <1>0, <1>a, <1>p, <1>m DEF Recover, MayLock, FileIsKnown, ServerTyped, CallsTyped,
    FileIsLocked, Moves, Becomes
<1> QED BY <1>1, <1>2, <1>3, <1>4, <1>5, <1>6 DEF AccountInvariant

LEMMA LockFileKeeps ==
  ASSUME AccountInvariant, NEW c \in Calls, LockFile(c)
  PROVE  AccountInvariant'
<1>0. ServerTyped /\ CallsTyped /\ LoginsTyped /\ OperatorsTyped /\ AccountsTyped
      /\ CatalogsTyped /\ FileIsLocked /\ StateIsLocked /\ FileIsKnown /\ StatusIsSettled
  BY DEF AccountInvariant
<1>a. Moves(c, "reload", call[c].using, call[c].got)
  BY <1>0, GoingMoves DEF LockFile, CallPlaces
<1>1. ServerTyped' /\ LoginsTyped' /\ OperatorsTyped'
      /\ AccountsTyped' /\ CatalogsTyped' /\ StatusIsSettled'
  BY <1>0 DEF LockFile, ServerTyped, LoginsTyped, OperatorsTyped, AccountsTyped, CatalogsTyped,
    StatusIsSettled, Settlement
<1>2. CallsTyped'
  BY <1>0, <1>a DEF LockFile, CallsTyped, ServerTyped, AccountsTyped, Moves
<1>3. FileIsLocked'
  BY <1>0, <1>a DEF LockFile, FileIsLocked, Moves
<1>4. StateIsLocked'
  BY <1>0, <1>a DEF LockFile, StateIsLocked, ServerTyped, Moves
<1>5. FileIsKnown'
  BY <1>0, <1>a DEF LockFile, FileIsKnown, ServerTyped, CallsTyped, FileIsLocked, Moves
<1> QED BY <1>1, <1>2, <1>3, <1>4, <1>5 DEF AccountInvariant

LEMMA LockTimesOutKeeps ==
  ASSUME AccountInvariant, NEW c \in Calls, LockTimesOut(c)
  PROVE  AccountInvariant'
<1>0. ServerTyped /\ CallsTyped /\ LoginsTyped /\ OperatorsTyped /\ AccountsTyped
      /\ CatalogsTyped /\ FileIsLocked /\ StateIsLocked /\ FileIsKnown /\ StatusIsSettled
  BY DEF AccountInvariant
<1>a. Moves(c, "refused", call[c].using, call[c].got)
  BY <1>0, GoingMoves DEF LockTimesOut, CallPlaces
<1>b. Becomes(Home[c], account[Home[c]].credentials, account[Home[c]].history, Nobody,
              account[Home[c]].unseen)
  BY <1>0, LockBecomes DEF LockTimesOut, Tasks
<1>1. ServerTyped' /\ LoginsTyped' /\ OperatorsTyped'
  BY <1>0 DEF LockTimesOut, ServerTyped, LoginsTyped, OperatorsTyped
<1>2. AccountsTyped' /\ CatalogsTyped' /\ StatusIsSettled'
  BY <1>0, <1>b, QuietAccounts DEF LockTimesOut, ServerTyped, Tasks
<1>3. CallsTyped'
  BY <1>0, <1>a, <1>b DEF LockTimesOut, CallsTyped, ServerTyped, AccountsTyped, Moves, Becomes
<1>4. FileIsLocked'
  BY <1>0, <1>a, <1>b DEF LockTimesOut, FileIsLocked, Moves, Becomes
<1>5. StateIsLocked'
  BY <1>0, <1>a, <1>b DEF LockTimesOut, StateIsLocked, ServerTyped, Moves, Becomes
<1>6. FileIsKnown'
  BY <1>0, <1>a, <1>b DEF LockTimesOut, FileIsKnown, ServerTyped, CallsTyped, FileIsLocked,
    Moves, Becomes
<1> QED BY <1>1, <1>2, <1>3, <1>4, <1>5, <1>6 DEF AccountInvariant

LEMMA ReloadKeeps ==
  ASSUME AccountInvariant, NEW c \in Calls, Reload(c)
  PROVE  AccountInvariant'
<1>0. ServerTyped /\ CallsTyped /\ LoginsTyped /\ OperatorsTyped /\ AccountsTyped
      /\ CatalogsTyped /\ FileIsLocked /\ StateIsLocked /\ FileIsKnown /\ StatusIsSettled
  BY DEF AccountInvariant
<1>p. Home[c] \in Processes /\ {"unlock", "post"} \subseteq CallPlaces /\ file \in Nat
  BY <1>0 DEF CallPlaces, ServerTyped
<1>a. \/ /\ RenewedElsewhere(c) /\ Moves(c, "unlock", file, call[c].got)
         /\ Becomes(Home[c], file, account[Home[c]].history, account[Home[c]].lock,
                    account[Home[c]].unseen)
      \/ /\ ~RenewedElsewhere(c) /\ Moves(c, "post", call[c].using, call[c].got)
         /\ UNCHANGED account
  <2>1. CASE RenewedElsewhere(c)
    <3>1. /\ account' = [account EXCEPT ![Home[c]].credentials = file]
          /\ call' = [call EXCEPT ![c] = [@ EXCEPT !.at = "unlock", !.using = file]]
      BY <2>1 DEF Reload
    <3> QED BY <1>0, <1>p, <2>1, <3>1, UsingMoves, CredentialsBecome
  <2>2. CASE ~RenewedElsewhere(c)
    BY <1>0, <1>p, <2>2, GoingMoves DEF Reload
  <2> QED BY <2>1, <2>2
<1>b. account[Home[c]].lock \in Tasks /\ account[Home[c]].unseen \in BOOLEAN
  BY <1>0 DEF AccountsTyped, AccountRecord
<1>1. ServerTyped' /\ LoginsTyped' /\ OperatorsTyped'
  BY <1>0 DEF Reload, RenewedElsewhere, ServerTyped, LoginsTyped, OperatorsTyped
<1>2. CallsTyped'
  BY <1>0, <1>a, <1>p, SMTT(30) DEF Reload, RenewedElsewhere, CallsTyped, ServerTyped, AccountsTyped,
    Moves, Becomes
<1>3. AccountsTyped'
  <2>1. CASE RenewedElsewhere(c)
    BY <1>0, <1>a, <1>b, <2>1, FoundAccounts
    DEF Reload, RenewedElsewhere, StateIsLocked, ServerTyped
  <2>2. CASE ~RenewedElsewhere(c)
    BY <1>0, <1>a, <2>2 DEF Reload, AccountsTyped
  <2> QED BY <2>1, <2>2
<1>4. CatalogsTyped'
  <2>1. CASE RenewedElsewhere(c)
    BY <1>0, <1>a, <1>b, <2>1, FoundAccounts
    DEF Reload, RenewedElsewhere, StateIsLocked, ServerTyped
  <2>2. CASE ~RenewedElsewhere(c)
    BY <1>0, <1>a, <2>2 DEF Reload, CatalogsTyped
  <2> QED BY <2>1, <2>2
<1>5. FileIsLocked'
  BY <1>0, <1>a, <1>p DEF Reload, RenewedElsewhere, FileIsLocked, Moves, Becomes
<1>6. StateIsLocked'
  BY <1>0, <1>a, <1>p DEF Reload, RenewedElsewhere, StateIsLocked, ServerTyped, Moves, Becomes
<1>7. FileIsKnown'
  BY <1>0, <1>a, <1>p DEF Reload, RenewedElsewhere, FileIsKnown, ServerTyped, CallsTyped,
    FileIsLocked, Moves, Becomes
<1>8. StatusIsSettled'
  <2>1. CASE RenewedElsewhere(c)
    BY <1>0, <1>a, <1>b, <2>1, FoundAccounts
    DEF Reload, RenewedElsewhere, StateIsLocked, ServerTyped
  <2>2. CASE ~RenewedElsewhere(c)
    BY <1>0, <1>a, <2>2 DEF Reload, StatusIsSettled, Settlement
  <2> QED BY <2>1, <2>2
<1> QED BY <1>1, <1>2, <1>3, <1>4, <1>5, <1>6, <1>7, <1>8 DEF AccountInvariant

LEMMA GrantedKeeps ==
  ASSUME AccountInvariant, NEW c \in Calls, Granted(c)
  PROVE  AccountInvariant'
<1>0. ServerTyped /\ CallsTyped /\ LoginsTyped /\ OperatorsTyped /\ AccountsTyped
      /\ CatalogsTyped /\ FileIsLocked /\ StateIsLocked /\ FileIsKnown /\ StatusIsSettled
  BY DEF AccountInvariant
<1>a. Moves(c, "write", call[c].using, issued + 1)
  <2>1. issued + 1 \in Nat /\ "write" \in CallPlaces
    BY <1>0 DEF ServerTyped, CallPlaces
  <2>2. call' = [call EXCEPT ![c] = [@ EXCEPT !.at = "write", !.got = issued + 1]]
    BY DEF Granted
  <2> QED BY <1>0, <2>1, <2>2, GettingMoves
<1>1. OperatorsTyped' /\ CatalogsTyped' /\ StatusIsSettled'
  BY <1>0 DEF Granted, Grant, OperatorsTyped, CatalogsTyped, StatusIsSettled, Settlement
<1>2. ServerTyped'
  BY <1>0, <1>a DEF Granted, Grant, ServerTyped, CallsTyped, LoginsTyped, Moves
<1>3. CallsTyped'
  BY <1>0, <1>a DEF Granted, Grant, CallsTyped, ServerTyped, AccountsTyped, Moves
<1>4. LoginsTyped'
  BY <1>0, <1>a DEF Granted, Grant, LoginsTyped, ServerTyped, Moves, LoginRecord
<1>5. AccountsTyped'
  BY <1>0, <1>a DEF Granted, Grant, AccountsTyped, ServerTyped, CallsTyped, LoginsTyped, Moves
<1>6. FileIsLocked'
  BY <1>0, <1>a DEF Granted, Grant, FileIsLocked, Moves
<1>7. StateIsLocked'
  BY <1>0, <1>a DEF Granted, Grant, StateIsLocked, ServerTyped, Moves
<1>8. FileIsKnown'
  BY <1>0, <1>a DEF Granted, Grant, FileIsKnown, ServerTyped, CallsTyped, FileIsLocked, Moves
<1> QED BY <1>1, <1>2, <1>3, <1>4, <1>5, <1>6, <1>7, <1>8 DEF AccountInvariant

LEMMA DeniedKeeps ==
  ASSUME AccountInvariant, NEW c \in Calls, Denied(c)
  PROVE  AccountInvariant'
<1>0. ServerTyped /\ CallsTyped /\ LoginsTyped /\ OperatorsTyped /\ AccountsTyped
      /\ CatalogsTyped /\ FileIsLocked /\ StateIsLocked /\ FileIsKnown /\ StatusIsSettled
  BY DEF AccountInvariant
<1>a. Moves(c, "delete", call[c].using, call[c].got)
  BY <1>0, GoingMoves DEF Denied, CallPlaces
<1>1. ServerTyped' /\ LoginsTyped' /\ OperatorsTyped'
      /\ AccountsTyped' /\ CatalogsTyped' /\ StatusIsSettled'
  BY <1>0 DEF Denied, ServerTyped, LoginsTyped, OperatorsTyped, AccountsTyped, CatalogsTyped,
    StatusIsSettled, Settlement
<1>2. CallsTyped'
  BY <1>0, <1>a DEF Denied, CallsTyped, ServerTyped, AccountsTyped, Moves
<1>3. FileIsLocked'
  BY <1>0, <1>a DEF Denied, FileIsLocked, Moves
<1>4. StateIsLocked'
  BY <1>0, <1>a DEF Denied, StateIsLocked, ServerTyped, Moves
<1>5. FileIsKnown'
  BY <1>0, <1>a DEF Denied, FileIsKnown, ServerTyped, CallsTyped, FileIsLocked, Moves
<1> QED BY <1>1, <1>2, <1>3, <1>4, <1>5 DEF AccountInvariant

LEMMA AnswerLostKeeps ==
  ASSUME AccountInvariant, NEW c \in Calls, AnswerLost(c)
  PROVE  AccountInvariant'
<1>0. ServerTyped /\ CallsTyped /\ LoginsTyped /\ OperatorsTyped /\ AccountsTyped
      /\ CatalogsTyped /\ FileIsLocked /\ StateIsLocked /\ FileIsKnown /\ StatusIsSettled
  BY DEF AccountInvariant
<1>a. \E s \in {"failing", "unlock"} : Moves(c, s, call[c].using, call[c].got)
  BY <1>0, GoingMoves DEF AnswerLost, CallPlaces
<1>1. OperatorsTyped' /\ CatalogsTyped' /\ StatusIsSettled'
  BY <1>0 DEF AnswerLost, Grant, OperatorsTyped, CatalogsTyped, StatusIsSettled, Settlement
<1>2. ServerTyped'
  BY <1>0, <1>a DEF AnswerLost, Grant, ServerTyped, CallsTyped, LoginsTyped, Moves
<1>3. CallsTyped'
  BY <1>0, <1>a DEF AnswerLost, Grant, CallsTyped, ServerTyped, AccountsTyped, Moves
<1>4. LoginsTyped'
  BY <1>0, <1>a DEF AnswerLost, Grant, LoginsTyped, ServerTyped, Moves, LoginRecord
<1>5. AccountsTyped'
  BY <1>0, <1>a DEF AnswerLost, Grant, AccountsTyped, ServerTyped, CallsTyped, LoginsTyped, Moves
<1>6. FileIsLocked'
  BY <1>0, <1>a DEF AnswerLost, Grant, FileIsLocked, Moves
<1>7. StateIsLocked'
  BY <1>0, <1>a DEF AnswerLost, Grant, StateIsLocked, ServerTyped, Moves
<1>8. FileIsKnown'
  BY <1>0, <1>a DEF AnswerLost, Grant, FileIsKnown, ServerTyped, CallsTyped, FileIsLocked, Moves
<1> QED BY <1>1, <1>2, <1>3, <1>4, <1>5, <1>6, <1>7, <1>8 DEF AccountInvariant

LEMMA WriteFileKeeps ==
  ASSUME AccountInvariant, NEW c \in Calls, WriteFile(c)
  PROVE  AccountInvariant'
<1>0. ServerTyped /\ CallsTyped /\ LoginsTyped /\ OperatorsTyped /\ AccountsTyped
      /\ CatalogsTyped /\ FileIsLocked /\ StateIsLocked /\ FileIsKnown /\ StatusIsSettled
  BY DEF AccountInvariant
<1>a. \/ call[c].at = "write" /\ Moves(c, "written", call[c].using, call[c].got) /\ file' = call[c].got
      \/ call[c].at = "delete" /\ Moves(c, "deleted", call[c].using, call[c].got) /\ file' = None
  BY <1>0, GoingMoves DEF WriteFile, CallPlaces
<1>1. LoginsTyped' /\ OperatorsTyped' /\ AccountsTyped' /\ CatalogsTyped' /\ StatusIsSettled'
  BY <1>0 DEF WriteFile, LoginsTyped, OperatorsTyped, AccountsTyped, CatalogsTyped,
    StatusIsSettled, Settlement
<1>2. ServerTyped'
  BY <1>0, <1>a DEF WriteFile, ServerTyped, CallsTyped, LoginsTyped, Moves
<1>3. CallsTyped'
  BY <1>0, <1>a DEF WriteFile, CallsTyped, ServerTyped, AccountsTyped, Moves
<1>4. FileIsLocked'
  BY <1>0, <1>a DEF WriteFile, FileIsLocked, Moves
<1>5. StateIsLocked'
  BY <1>0, <1>a DEF WriteFile, StateIsLocked, ServerTyped, Moves
<1>6. FileIsKnown'
  BY <1>0, <1>a DEF WriteFile, FileIsKnown, ServerTyped, CallsTyped, FileIsLocked, Moves
<1> QED BY <1>1, <1>2, <1>3, <1>4, <1>5, <1>6 DEF AccountInvariant

LEMMA SettleKeeps ==
  ASSUME AccountInvariant, NEW c \in Calls, Settle(c)
  PROVE  AccountInvariant'
<1>0. ServerTyped /\ CallsTyped /\ LoginsTyped /\ OperatorsTyped /\ AccountsTyped
      /\ CatalogsTyped /\ FileIsLocked /\ StateIsLocked /\ FileIsKnown /\ StatusIsSettled
  BY DEF AccountInvariant
<1>p. /\ Home[c] \in Processes /\ {"unlock", "failing"} \subseteq CallPlaces
      /\ call[c].got \in 0..issued /\ None \in 0..issued /\ 0..issued \subseteq Nat
  BY <1>0 DEF CallPlaces, ServerTyped, CallsTyped
<1>a. \/ /\ call[c].at = "written" /\ Moves(c, "unlock", call[c].got, call[c].got)
         /\ Becomes(Home[c], call[c].got, Append(account[Home[c]].history, call[c].got # None),
                    account[Home[c]].lock, account[Home[c]].unseen)
      \/ /\ call[c].at = "deleted" /\ Moves(c, "failing", call[c].using, call[c].got)
         /\ Becomes(Home[c], None, Append(account[Home[c]].history, None # None),
                    account[Home[c]].lock, account[Home[c]].unseen)
  <2>1. CASE call[c].at = "written"
    <3>1. /\ account' = [account EXCEPT ![Home[c]] = Settled(@, call[c].got)]
          /\ call' = [call EXCEPT ![c] = [@ EXCEPT !.at = "unlock", !.using = call[c].got]]
      BY <2>1 DEF Settle
    <3> QED BY <1>0, <1>p, <2>1, <3>1, UsingMoves, SettledBecomes
  <2>2. CASE call[c].at = "deleted"
    <3>1. /\ account' = [account EXCEPT ![Home[c]] = [Settled(@, None) EXCEPT !.error = TRUE]]
          /\ Going(c, "failing")
      BY <2>2 DEF Settle
    <3> QED BY <1>0, <1>p, <2>2, <3>1, GoingMoves, DroppedBecomes
  <2> QED BY <2>1, <2>2 DEF Settle
<1>k. AccountsTyped' /\ CatalogsTyped' /\ StatusIsSettled'
  <2>1. UNCHANGED <<catalog, issued>>
    BY DEF Settle
  <2> QED BY <1>p, <1>a, <2>1, SettledAccounts
<1>1. ServerTyped' /\ LoginsTyped' /\ OperatorsTyped'
  BY <1>0 DEF Settle, Settled, ServerTyped, LoginsTyped, OperatorsTyped
<1>2. AccountsTyped' /\ CatalogsTyped' /\ StatusIsSettled'
  BY <1>k
<1>3. CallsTyped'
  <2>1. UNCHANGED issued
    BY DEF Settle
  <2> QED BY <1>0, <1>a, <1>p, <2>1 DEF CallsTyped, Moves
<1>4. FileIsLocked'
  BY <1>0, <1>a, <1>p DEF Settle, Settled, FileIsLocked, Moves, Becomes
<1>5. StateIsLocked'
  <2>1. /\ \A d \in Calls : d # c => call'[d] = call[d]
        /\ call'[c].at \in {"unlock", "failing"}
        /\ account[Home[c]].lock = CallTask(c) /\ account'[Home[c]].lock = CallTask(c)
        /\ \A q \in Processes : q # Home[c] => account'[q] = account[q]
    BY <1>0, <1>a DEF StateIsLocked, Moves, Becomes
  <2>2. UNCHANGED operator /\ Home \in [Calls -> Processes]
    BY DEF Settle
  <2> QED BY <1>0, <2>1, <2>2 DEF StateIsLocked
<1>6. FileIsKnown'
  BY <1>0, <1>a, <1>p DEF Settle, Settled, FileIsKnown, ServerTyped, CallsTyped, FileIsLocked,
    Moves, Becomes
<1> QED BY <1>1, <1>2, <1>3, <1>4, <1>5, <1>6 DEF AccountInvariant

LEMMA UnlockKeeps ==
  ASSUME AccountInvariant, NEW c \in Calls, Unlock(c)
  PROVE  AccountInvariant'
<1>0. ServerTyped /\ CallsTyped /\ LoginsTyped /\ OperatorsTyped /\ AccountsTyped
      /\ CatalogsTyped /\ FileIsLocked /\ StateIsLocked /\ FileIsKnown /\ StatusIsSettled
  BY DEF AccountInvariant
<1>a. \E s \in {"new", "sent", "refused"} : Moves(c, s, call[c].using, call[c].got)
  BY <1>0, GoingMoves, RecoveringMoves DEF Unlock, CallPlaces
<1>b. Becomes(Home[c], account[Home[c]].credentials, account[Home[c]].history, Nobody,
              account[Home[c]].unseen)
  BY <1>0, LockBecomes DEF Unlock, Tasks
<1>c. UNCHANGED issued
  BY DEF Unlock
<1>1. ServerTyped' /\ LoginsTyped' /\ OperatorsTyped'
  BY <1>0 DEF Unlock, FileUnlocked, ServerTyped, LoginsTyped, OperatorsTyped
<1>2. AccountsTyped' /\ CatalogsTyped' /\ StatusIsSettled'
  BY <1>0, <1>b, QuietAccounts DEF Unlock, ServerTyped, Tasks
<1>3. CallsTyped'
  BY <1>0, <1>a, <1>c DEF CallsTyped, Moves
<1>4. FileIsLocked'
  BY <1>0, <1>a, <1>b DEF Unlock, FileUnlocked, FileIsLocked, Moves, Becomes
<1>5. StateIsLocked'
  BY <1>0, <1>a, <1>b DEF Unlock, FileUnlocked, StateIsLocked, ServerTyped, Moves, Becomes
<1>6. FileIsKnown'
  BY <1>0, <1>a, <1>b DEF Unlock, FileUnlocked, FileIsKnown, ServerTyped, CallsTyped,
    FileIsLocked, Moves, Becomes
<1> QED BY <1>1, <1>2, <1>3, <1>4, <1>5, <1>6 DEF AccountInvariant

LEMMA AbortedKeeps ==
  ASSUME AccountInvariant, NEW c \in Calls, Aborted(c)
  PROVE  AccountInvariant'
<1>0. ServerTyped /\ CallsTyped /\ LoginsTyped /\ OperatorsTyped /\ AccountsTyped
      /\ CatalogsTyped /\ FileIsLocked /\ StateIsLocked /\ FileIsKnown /\ StatusIsSettled
  BY DEF AccountInvariant
<1>a. Moves(c, "aborted", call[c].using, call[c].got)
  BY <1>0, GoingMoves DEF Aborted, CallPlaces
<1>b. Becomes(Home[c], account[Home[c]].credentials, account[Home[c]].history, Nobody,
              account[Home[c]].unseen)
  BY <1>0, LockBecomes DEF Aborted, Tasks
<1>1. OperatorsTyped'
  BY <1>0 DEF Aborted, FileUnlocked, Grant, OperatorsTyped
<1>2. AccountsTyped' /\ CatalogsTyped' /\ StatusIsSettled'
  BY <1>0, <1>b, QuietAccounts DEF Aborted, ServerTyped, Tasks, Grant
<1>3. ServerTyped'
  BY <1>0, <1>a, <1>b DEF Aborted, FileUnlocked, Grant, ServerTyped, CallsTyped, LoginsTyped,
    Moves, Becomes
<1>4. CallsTyped'
  BY <1>0, <1>a, <1>b, SMTT(60) DEF Aborted, FileUnlocked, Grant, CallsTyped, ServerTyped, AccountsTyped,
    Moves, Becomes
<1>5. LoginsTyped'
  BY <1>0, <1>a, <1>b DEF Aborted, FileUnlocked, Grant, LoginsTyped, ServerTyped, Moves,
    Becomes, LoginRecord
<1>6. FileIsLocked'
  BY <1>0, <1>a, <1>b DEF Aborted, FileUnlocked, Grant, FileIsLocked, Moves, Becomes
<1>7. StateIsLocked'
  BY <1>0, <1>a, <1>b DEF Aborted, FileUnlocked, Grant, StateIsLocked, ServerTyped, Moves, Becomes
<1>8. FileIsKnown'
  BY <1>0, <1>a, <1>b DEF Aborted, FileUnlocked, Grant, FileIsKnown, ServerTyped, CallsTyped,
    FileIsLocked, Moves, Becomes
<1> QED BY <1>1, <1>2, <1>3, <1>4, <1>5, <1>6, <1>7, <1>8 DEF AccountInvariant

LEMMA ExchangeKeeps ==
  ASSUME AccountInvariant, NEW p \in Processes, Exchange(p)
  PROVE  AccountInvariant'
<1>0. ServerTyped /\ CallsTyped /\ LoginsTyped /\ OperatorsTyped /\ AccountsTyped
      /\ CatalogsTyped /\ FileIsLocked /\ StateIsLocked /\ FileIsKnown /\ StatusIsSettled
  BY DEF AccountInvariant
<1>1. OperatorsTyped' /\ CatalogsTyped' /\ StateIsLocked' /\ StatusIsSettled'
  BY <1>0 DEF Exchange, OperatorsTyped, CatalogsTyped, StateIsLocked, StatusIsSettled, Settlement
<1>2. ServerTyped'
  BY <1>0 DEF Exchange, ServerTyped, CallsTyped, LoginsTyped
<1>3. CallsTyped'
  BY <1>0 DEF Exchange, CallsTyped, ServerTyped, AccountsTyped
<1>4. LoginsTyped'
  BY <1>0 DEF Exchange, LoginsTyped, ServerTyped, LoginRecord
<1>5. AccountsTyped'
  BY <1>0 DEF Exchange, AccountsTyped, ServerTyped, CallsTyped, LoginsTyped
<1>6. FileIsLocked'
  BY <1>0 DEF Exchange, FileIsLocked, LoginsTyped, LoginRecord
<1>7. FileIsKnown'
  BY <1>0 DEF Exchange, FileIsKnown, ServerTyped, CallsTyped, FileIsLocked, LoginsTyped,
    LoginRecord
<1> QED BY <1>1, <1>2, <1>3, <1>4, <1>5, <1>6, <1>7 DEF AccountInvariant

LEMMA LoginFailsKeeps ==
  ASSUME AccountInvariant, NEW p \in Processes, LoginFails(p)
  PROVE  AccountInvariant'
<1>0. ServerTyped /\ CallsTyped /\ LoginsTyped /\ OperatorsTyped /\ AccountsTyped
      /\ CatalogsTyped /\ FileIsLocked /\ StateIsLocked /\ FileIsKnown /\ StatusIsSettled
  BY DEF AccountInvariant
<1>b. Becomes(p, account[p].credentials, account[p].history, account[p].lock, account[p].unseen)
  BY <1>0, ErrorBecomes DEF LoginFails
<1>t. account[p].lock \in Tasks
  BY <1>0, <1>b, Standing DEF AccountsTyped, AccountRecord
<1>1. ServerTyped' /\ CallsTyped' /\ OperatorsTyped' /\ FileIsKnown'
  BY <1>0 DEF LoginFails, MayLock, ServerTyped, CallsTyped, OperatorsTyped, FileIsKnown
<1>2. AccountsTyped' /\ CatalogsTyped' /\ StatusIsSettled'
  BY <1>0, <1>b, <1>t, QuietAccounts DEF LoginFails, ServerTyped
<1>3. LoginsTyped'
  BY <1>0, <1>b DEF LoginFails, MayLock, LoginsTyped, ServerTyped, Becomes, LoginRecord
<1>4. FileIsLocked'
  BY <1>0, <1>b DEF LoginFails, MayLock, FileIsLocked, Becomes, LoginsTyped, LoginRecord
<1>5. StateIsLocked'
  BY <1>0, <1>b DEF LoginFails, MayLock, StateIsLocked, ServerTyped, Becomes
<1> QED BY <1>1, <1>2, <1>3, <1>4, <1>5 DEF AccountInvariant

LEMMA LoginLocksKeeps ==
  ASSUME AccountInvariant, NEW p \in Processes, LoginLocks(p)
  PROVE  AccountInvariant'
<1>0. ServerTyped /\ CallsTyped /\ LoginsTyped /\ OperatorsTyped /\ AccountsTyped
      /\ CatalogsTyped /\ FileIsLocked /\ StateIsLocked /\ FileIsKnown /\ StatusIsSettled
  BY DEF AccountInvariant
<1>1. ServerTyped' /\ CallsTyped' /\ OperatorsTyped' /\ AccountsTyped'
      /\ CatalogsTyped' /\ StateIsLocked' /\ FileIsKnown' /\ StatusIsSettled'
  BY <1>0 DEF LoginLocks, ServerTyped, CallsTyped, OperatorsTyped, AccountsTyped,
    CatalogsTyped, StateIsLocked, FileIsKnown, StatusIsSettled, Settlement
<1>2. LoginsTyped'
  BY <1>0 DEF LoginLocks, LoginsTyped, ServerTyped, LoginRecord
<1>3. FileIsLocked'
  BY <1>0 DEF LoginLocks, FileIsLocked, LoginsTyped, LoginRecord
<1> QED BY <1>1, <1>2, <1>3 DEF AccountInvariant

LEMMA LoginWritesKeeps ==
  ASSUME AccountInvariant, NEW p \in Processes, LoginWrites(p)
  PROVE  AccountInvariant'
<1>0. ServerTyped /\ CallsTyped /\ LoginsTyped /\ OperatorsTyped /\ AccountsTyped
      /\ CatalogsTyped /\ FileIsLocked /\ StateIsLocked /\ FileIsKnown /\ StatusIsSettled
  BY DEF AccountInvariant
<1>1. CallsTyped' /\ OperatorsTyped' /\ AccountsTyped'
      /\ CatalogsTyped' /\ StateIsLocked' /\ StatusIsSettled'
  BY <1>0 DEF LoginWrites, CallsTyped, OperatorsTyped, AccountsTyped, CatalogsTyped,
    StateIsLocked, StatusIsSettled, Settlement
<1>2. ServerTyped'
  BY <1>0 DEF LoginWrites, ServerTyped, CallsTyped, LoginsTyped
<1>3. LoginsTyped'
  BY <1>0 DEF LoginWrites, LoginsTyped, ServerTyped, LoginRecord
<1>4. FileIsLocked'
  BY <1>0 DEF LoginWrites, FileIsLocked, LoginsTyped, LoginRecord
<1>5. FileIsKnown'
  BY <1>0 DEF LoginWrites, FileIsKnown, ServerTyped, CallsTyped, FileIsLocked, LoginsTyped,
    LoginRecord
<1> QED BY <1>1, <1>2, <1>3, <1>4, <1>5 DEF AccountInvariant

LEMMA LoginCompletesKeeps ==
  ASSUME AccountInvariant, NEW p \in Processes, LoginCompletes(p)
  PROVE  AccountInvariant'
<1>0. ServerTyped /\ CallsTyped /\ LoginsTyped /\ OperatorsTyped /\ AccountsTyped
      /\ CatalogsTyped /\ FileIsLocked /\ StateIsLocked /\ FileIsKnown /\ StatusIsSettled
  BY DEF AccountInvariant
<1>b. Becomes(p, login[p].got, Append(account[p].history, login[p].got # None), account[p].lock,
              account[p].unseen)
  <2>1. /\ login[p].got \in Nat
        /\ account' = [account EXCEPT ![p] = [Settled(@, login[p].got) EXCEPT !.error = FALSE]]
    BY <1>0 DEF LoginsTyped, ServerTyped, LoginCompletes
  <2> QED BY <1>0, <2>1, FinishedBecomes
<1>1. ServerTyped' /\ CallsTyped' /\ OperatorsTyped' /\ FileIsKnown'
  BY <1>0 DEF LoginCompletes, MayLock, Settled, ServerTyped, CallsTyped, OperatorsTyped,
    FileIsKnown
<1>2. AccountsTyped' /\ CatalogsTyped' /\ StatusIsSettled'
  BY <1>0, <1>b, SettledAccounts DEF LoginCompletes, LoginsTyped, ServerTyped
<1>3. LoginsTyped'
  BY <1>0, <1>b DEF LoginCompletes, MayLock, Settled, LoginsTyped, ServerTyped, Becomes,
    LoginRecord
<1>4. FileIsLocked'
  BY <1>0, <1>b DEF LoginCompletes, MayLock, Settled, FileIsLocked, Becomes, LoginsTyped,
    LoginRecord
<1>5. StateIsLocked'
  BY <1>0, <1>b DEF LoginCompletes, MayLock, Settled, StateIsLocked, ServerTyped, Becomes
<1> QED BY <1>1, <1>2, <1>3, <1>4, <1>5 DEF AccountInvariant

LEMMA RevokeKeeps ==
  ASSUME AccountInvariant, NEW p \in Processes, Revoke(p)
  PROVE  AccountInvariant'
<1>0. ServerTyped /\ CallsTyped /\ LoginsTyped /\ OperatorsTyped /\ AccountsTyped
      /\ CatalogsTyped /\ FileIsLocked /\ StateIsLocked /\ FileIsKnown /\ StatusIsSettled
  BY DEF AccountInvariant
<1>b. Becomes(p, account[p].credentials, account[p].history, OperatorTask(p), account[p].unseen)
  BY <1>0, LockBecomes DEF Revoke, Tasks
<1>1. CallsTyped' /\ LoginsTyped'
  BY <1>0 DEF Revoke, MayLock, CallsTyped, LoginsTyped
<1>2. AccountsTyped' /\ CatalogsTyped' /\ StatusIsSettled'
  BY <1>0, <1>b, QuietAccounts DEF Revoke, ServerTyped, Tasks
<1>3. ServerTyped'
  BY <1>0, <1>b DEF Revoke, MayLock, ServerTyped, CallsTyped, LoginsTyped, Becomes
<1>4. OperatorsTyped'
  BY <1>0, <1>b, SMTT(30) DEF Revoke, MayLock, OperatorsTyped, Becomes, OperatorRecord
<1>5. FileIsLocked'
  BY <1>0, <1>b DEF Revoke, MayLock, FileIsLocked, Becomes, OperatorsTyped, OperatorRecord
<1>6. StateIsLocked'
  BY <1>0, <1>b DEF Revoke, MayLock, StateIsLocked, ServerTyped, Becomes, OperatorsTyped,
    OperatorRecord
<1>7. FileIsKnown'
  BY <1>0, <1>b DEF Revoke, MayLock, FileIsKnown, ServerTyped, CallsTyped, FileIsLocked, Becomes
<1> QED BY <1>1, <1>2, <1>3, <1>4, <1>5, <1>6, <1>7 DEF AccountInvariant

LEMMA RevokeLocksKeeps ==
  ASSUME AccountInvariant, NEW p \in Processes, RevokeLocks(p)
  PROVE  AccountInvariant'
<1>0. ServerTyped /\ CallsTyped /\ LoginsTyped /\ OperatorsTyped /\ AccountsTyped
      /\ CatalogsTyped /\ FileIsLocked /\ StateIsLocked /\ FileIsKnown /\ StatusIsSettled
  BY DEF AccountInvariant
<1>b. \/ fileLock = Nobody /\ UNCHANGED account
      \/ fileLock # Nobody
         /\ Becomes(p, account[p].credentials, account[p].history, Nobody, account[p].unseen)
  BY <1>0, LockBecomes DEF RevokeLocks, Tasks
<1>t. Nobody \in Tasks /\ account[p].lock \in Tasks
  BY <1>0 DEF Tasks, AccountsTyped, AccountRecord
<1>1. ServerTyped' /\ CallsTyped' /\ LoginsTyped' /\ FileIsKnown'
  BY <1>0 DEF RevokeLocks, ServerTyped, CallsTyped, LoginsTyped, FileIsKnown
<1>2. AccountsTyped' /\ CatalogsTyped' /\ StatusIsSettled'
  BY <1>0, <1>b, <1>t, Standing, QuietAccounts DEF RevokeLocks, ServerTyped
<1>3. OperatorsTyped'
  BY <1>0, <1>b DEF RevokeLocks, OperatorsTyped, Becomes, OperatorRecord
<1>4. FileIsLocked'
  <2>1. \A q \in Processes : q # p => operator'[q] = operator[q]
    BY <1>0 DEF RevokeLocks, OperatorsTyped
  <2>2. \/ fileLock = Nobody /\ fileLock' = OperatorTask(p)
        \/ operator'[p].at = "idle" /\ UNCHANGED fileLock
    BY <1>0 DEF RevokeLocks, OperatorsTyped, OperatorRecord
  <2>3. UNCHANGED <<call, login>>
    BY DEF RevokeLocks
  <2> QED BY <1>0, <2>1, <2>2, <2>3 DEF FileIsLocked
<1>5. StateIsLocked'
  <2>1. \A q \in Processes : q # p => operator'[q] = operator[q]
    BY <1>0 DEF RevokeLocks, OperatorsTyped
  <2>2. /\ fileLock = Nobody => operator'[p].at = "delete"
        /\ fileLock # Nobody => operator'[p].at = "idle"
    BY <1>0 DEF RevokeLocks, OperatorsTyped, OperatorRecord
  <2>3. operator[p].at = "lock" /\ UNCHANGED call
    BY DEF RevokeLocks
  <2> QED BY <1>0, <1>b, <2>1, <2>2, <2>3 DEF StateIsLocked, Becomes
<1> QED BY <1>1, <1>2, <1>3, <1>4, <1>5 DEF AccountInvariant

LEMMA DeleteFileKeeps ==
  ASSUME AccountInvariant, NEW p \in Processes, DeleteFile(p)
  PROVE  AccountInvariant'
<1>0. ServerTyped /\ CallsTyped /\ LoginsTyped /\ OperatorsTyped /\ AccountsTyped
      /\ CatalogsTyped /\ FileIsLocked /\ StateIsLocked /\ FileIsKnown /\ StatusIsSettled
  BY DEF AccountInvariant
<1> DEFINE e == [revision |-> Revision(p) + 1, connected |-> FALSE, begun |-> FALSE]
           queue == catalog[p].queue
           q2 == Append(queue, e)
           h == account[p].history
           h2 == Append(h, FALSE)
<1>a. Becomes(p, None, h2, Nobody, account[p].unseen)
  BY <1>0, SignedOutBecomes DEF DeleteFile
<1>h. h \in Seq(BOOLEAN) /\ Revision(p) \in Nat \ {0} /\ Len(h) = Revision(p) /\ issued \in Nat
  BY <1>0 DEF AccountsTyped, AccountRecord, ServerTyped
<1>p. queue \in Seq(Event) /\ e \in Event /\ e.revision = Revision(p) + 1 /\ e.connected = FALSE
  BY <1>0, <1>h DEF CatalogsTyped, CatalogRecord, Event
<1>b. Shows(p, catalog[p].listed, catalog[p].seen, q2)
  BY <1>0, <1>p, QueueLists DEF DeleteFile
<1>g. /\ catalog[p].seen \in 1..Revision(p) /\ Settlement(p)
      /\ \A i \in DOMAIN queue : queue[i].revision \in 1..Revision(p)
  BY <1>0 DEF CatalogsTyped, StatusIsSettled
<1> HIDE DEF e, queue, h
<1>c. q2 # <<>> /\ \A i \in DOMAIN q2 : q2[i] = e \/ (i \in DOMAIN queue /\ q2[i] = queue[i])
  BY <1>p, Queueing
<1>i. Len(h2) = Revision(p) + 1 /\ h2[Revision(p) + 1] = FALSE /\ \A i \in 1..Revision(p) : h2[i] = h[i]
  <2>1. /\ Len(h2) = Len(h) + 1 /\ h2[Len(h) + 1] = FALSE
        /\ \A i \in 1..Len(h) : h2[i] = h[i]
    BY <1>h, Dropping
  <2> HIDE DEF h2
  <2> QED BY <1>h, <2>1
<1> HIDE DEF h2, q2
<1>d. /\ Revision(p)' = Revision(p) + 1
      /\ account'[p].history = h2
      /\ account'[p].credentials = None /\ account'[p].lock = Nobody
      /\ account'[p].unseen <=> account[p].unseen
      /\ \A q \in Processes : q # p => account'[q] = account[q] /\ Revision(q)' = Revision(q)
      /\ account' \in [Processes -> AccountRecord]
  BY <1>a, <1>i DEF Becomes
<1>j. /\ \A r \in Processes : Revision(r)' \in Nat \ {0} /\ account'[r].credentials \in 0..issued
      /\ 0 \in 0..issued
  <2> SUFFICES ASSUME NEW r \in Processes
               PROVE  Revision(r)' \in Nat \ {0} /\ account'[r].credentials \in 0..issued
    BY <1>h
  <2>1. CASE r # p
    BY <1>0, <1>d, <2>1 DEF AccountsTyped
  <2>2. CASE r = p
    BY <1>d, <1>h, <2>2
  <2> QED BY <2>1, <2>2
<1>e. /\ UNCHANGED <<issued, call>> /\ operator[p].at = "delete"
      /\ operator' \in [Processes -> OperatorRecord] /\ operator'[p].at = "idle"
      /\ \A q \in Processes : q # p => operator'[q] = operator[q]
  BY <1>0 DEF DeleteFile, OperatorsTyped, OperatorRecord
<1>1. CallsTyped' /\ LoginsTyped'
  BY <1>0 DEF DeleteFile, Settled, CallsTyped, LoginsTyped
<1>2. ServerTyped'
  BY <1>0, <1>d, <1>e DEF DeleteFile, Settled, ServerTyped, CallsTyped, LoginsTyped, Becomes
<1>3. OperatorsTyped'
  BY <1>e DEF OperatorsTyped
<1>4. AccountsTyped'
  BY <1>d, <1>e, <1>j DEF AccountsTyped
<1>5. CatalogsTyped'
  <2> SUFFICES ASSUME NEW r \in Processes
               PROVE  /\ catalog'[r].seen \in 1..Revision(r)'
                      /\ \A i \in DOMAIN catalog'[r].queue : catalog'[r].queue[i].revision \in 1..Revision(r)'
    BY <1>b DEF CatalogsTyped, Shows
  <2>1. CASE r # p
    BY <1>0, <1>b, <1>d, <2>1 DEF CatalogsTyped, Shows
  <2>2. CASE r = p
    <3>1. \A i \in DOMAIN q2 : q2[i].revision \in 1..(Revision(p) + 1)
      <4> SUFFICES ASSUME NEW i \in DOMAIN q2 PROVE q2[i].revision \in 1..(Revision(p) + 1)
        OBVIOUS
      <4>1. CASE q2[i] = e
        BY <1>h, <1>p, <4>1
      <4>2. CASE i \in DOMAIN queue /\ q2[i] = queue[i]
        BY <1>g, <1>h, <4>2
      <4> QED BY <1>c, <4>1, <4>2
    <3>2. catalog'[p].queue = q2 /\ catalog'[p].seen = catalog[p].seen /\ Revision(p)' = Revision(p) + 1
      BY <1>b, <1>d DEF Shows
    <3> QED BY <1>g, <1>h, <2>2, <3>1, <3>2
  <2> QED BY <2>1, <2>2
<1>6. FileIsLocked'
  BY <1>0, <1>d, <1>e DEF DeleteFile, Settled, FileIsLocked, Becomes, OperatorsTyped,
    OperatorRecord
<1>7. StateIsLocked'
  <2>1. \A c \in Calls : Home[c] \in Processes
    OBVIOUS
  <2>2. ASSUME NEW c \in Calls, call[c].at \in {"lock", "reload", "post", "write", "delete", "written", "deleted",
                                               "unlock", "failing"}
        PROVE  Home[c] # p
    BY <1>0, <1>e, <2>2 DEF StateIsLocked
  <2>3. \A q \in Processes : operator'[q].at \in {"lock", "delete"} => q # p /\ operator'[q] = operator[q]
    BY <1>e
  <2> QED BY <1>0, <1>d, <1>e, <2>1, <2>2, <2>3, ZenonT(40) DEF StateIsLocked
<1>8. FileIsKnown'
  BY <1>0, <1>d, <1>e DEF DeleteFile, Settled, FileIsKnown, ServerTyped, CallsTyped,
    FileIsLocked, Becomes
<1>9. StatusIsSettled'
  <2> SUFFICES ASSUME NEW r \in Processes PROVE Settlement(r)'
    BY DEF StatusIsSettled
  <2>1. CASE r # p
    <3>1. account'[r] = account[r] /\ catalog'[r] = catalog[r] /\ Settlement(r)
      BY <1>0, <1>b, <1>d, <2>1 DEF StatusIsSettled, Shows
    <3> QED BY <3>1 DEF Settlement
  <2>2. CASE r = p
    <3> SUFFICES ASSUME ~account[p].unseen PROVE Settlement(p)'
      BY <1>d, <2>2 DEF Settlement
    <3>1. \A i \in DOMAIN queue : queue[i].connected = h[queue[i].revision]
      BY <1>g DEF Settlement, queue, h
    <3>2. ASSUME NEW i \in DOMAIN q2 PROVE q2[i].connected = h2[q2[i].revision]
      <4>1. CASE q2[i] = e
        BY <1>i, <1>p, <4>1
      <4>2. CASE i \in DOMAIN queue /\ q2[i] = queue[i]
        <5>1. queue[i].revision \in 1..Revision(p)
          BY <1>g, <4>2
        <5> QED BY <1>i, <3>1, <4>2, <5>1
      <4> QED BY <1>c, <4>1, <4>2
    <3>3. catalog'[p].queue = q2 /\ catalog'[p].queue # <<>>
      BY <1>b, <1>c DEF Shows
    <3>4. Connected(account[p])' = account'[p].history[Revision(p)']
      BY <1>d, <1>i
    <3> QED BY <1>d, <3>2, <3>3, <3>4 DEF Settlement
  <2> QED BY <2>1, <2>2
<1> QED BY <1>1, <1>2, <1>3, <1>4, <1>5, <1>6, <1>7, <1>8, <1>9 DEF AccountInvariant

LEMMA SynchronizeKeeps ==
  ASSUME AccountInvariant, NEW p \in Processes, Synchronize(p)
  PROVE  AccountInvariant'
<1>0. ServerTyped /\ CallsTyped /\ LoginsTyped /\ OperatorsTyped /\ AccountsTyped
      /\ CatalogsTyped /\ FileIsLocked /\ StateIsLocked /\ FileIsKnown /\ StatusIsSettled
  BY DEF AccountInvariant
<1> DEFINE queue == catalog[p].queue
           next == queue[1]
           begun == [queue EXCEPT ![1].begun = TRUE]
<1>q. catalog \in [Processes -> CatalogRecord] /\ queue \in Seq(Event) /\ queue # <<>> /\ UNCHANGED account
  BY <1>0 DEF CatalogsTyped, CatalogRecord, Synchronize
<1> HIDE DEF queue
<1>p. /\ 1 \in DOMAIN queue /\ next \in Event /\ next.revision \in Nat /\ next.connected \in BOOLEAN
      /\ Head(queue) = next /\ begun \in Seq(Event) /\ Tail(queue) \in Seq(Event)
  <2>1. 1 \in DOMAIN queue /\ next \in Event
    BY <1>q
  <2>2. next.revision \in Nat /\ next.connected \in BOOLEAN
    BY <2>1 DEF Event
  <2> QED BY <1>q, <2>1, <2>2, Dequeueing, Beginning
<1>a. \/ Shows(p, TRUE, catalog[p].seen, begun)
      \/ Shows(p, next.connected, next.revision, Tail(queue))
  <2>1. \/ catalog' = [catalog EXCEPT ![p] = [@ EXCEPT !.listed = TRUE, !.queue = begun]]
        \/ catalog' = [catalog EXCEPT ![p] =
             [@ EXCEPT !.listed = next.connected, !.seen = next.revision, !.queue = Tail(queue)]]
    BY <1>p DEF Synchronize, AsOfRevision, queue
  <2> HIDE DEF next, begun
  <2> DEFINE r == Tail(queue)
  <2>2. r \in Seq(Event)
    BY <1>p
  <2> QED BY <1>0, <1>p, <2>1, <2>2, BegunLists, SeenLists
<1>c. /\ begun # <<>> /\ DOMAIN begun = DOMAIN queue
      /\ \A i \in DOMAIN queue : /\ begun[i].revision = queue[i].revision
                                 /\ begun[i].connected = queue[i].connected
      /\ \A i \in DOMAIN Tail(queue) : i + 1 \in DOMAIN queue /\ Tail(queue)[i] = queue[i + 1]
  BY <1>q, Beginning, Dequeueing
<1>g. /\ catalog[p].seen \in 1..Revision(p) /\ Settlement(p)
      /\ \A i \in DOMAIN queue : queue[i].revision \in 1..Revision(p)
  BY <1>0 DEF CatalogsTyped, StatusIsSettled, queue
<1> HIDE DEF begun
<1>1. ServerTyped' /\ CallsTyped' /\ LoginsTyped' /\ OperatorsTyped'
      /\ AccountsTyped' /\ FileIsLocked' /\ StateIsLocked' /\ FileIsKnown'
  BY <1>0 DEF Synchronize, AsOfRevision, ServerTyped, CallsTyped, LoginsTyped, OperatorsTyped,
    AccountsTyped, FileIsLocked, StateIsLocked, FileIsKnown
<1>2. CatalogsTyped'
  <2> SUFFICES ASSUME NEW r \in Processes
               PROVE  /\ catalog'[r].seen \in 1..Revision(r)
                      /\ \A i \in DOMAIN catalog'[r].queue : catalog'[r].queue[i].revision \in 1..Revision(r)
    BY <1>a, <1>q DEF CatalogsTyped, Shows
  <2>1. CASE r # p
    BY <1>0, <1>a, <2>1 DEF CatalogsTyped, Shows
  <2>2. CASE r = p
    <3>1. CASE Shows(p, TRUE, catalog[p].seen, begun)
      BY <1>c, <1>g, <2>2, <3>1 DEF Shows
    <3>2. CASE Shows(p, next.connected, next.revision, Tail(queue))
      <4>1. catalog'[p].queue = Tail(queue) /\ catalog'[p].seen = queue[1].revision
        BY <3>2 DEF Shows
      <4>2. \A i \in DOMAIN Tail(queue) : Tail(queue)[i].revision \in 1..Revision(p)
        BY <1>c, <1>g
      <4> QED BY <1>p, <1>g, <2>2, <4>1, <4>2
    <3> QED BY <1>a, <3>1, <3>2
  <2> QED BY <2>1, <2>2
<1>3. StatusIsSettled'
  <2> SUFFICES ASSUME NEW r \in Processes PROVE Settlement(r)'
    BY DEF StatusIsSettled
  <2>1. CASE r # p
    BY <1>0, <1>a, <1>q, <2>1, SMTT(60) DEF StatusIsSettled, Settlement, Shows
  <2>2. CASE r = p /\ Shows(p, TRUE, catalog[p].seen, begun)
    BY <1>c, <1>q, <1>g, <2>2 DEF Settlement, Shows, queue
  <2>3. CASE r = p /\ Shows(p, next.connected, next.revision, Tail(queue))
    <3> SUFFICES ASSUME ~account[p].unseen PROVE Settlement(p)'
      BY <1>q, <2>3 DEF Settlement
    <3>1. /\ Connected(account[p]) = account[p].history[Revision(p)]
          /\ \A i \in DOMAIN queue : queue[i].connected = account[p].history[queue[i].revision]
      BY <1>g DEF Settlement, queue
    <3>2. ASSUME NEW i \in DOMAIN Tail(queue)
          PROVE  Tail(queue)[i].connected = account[p].history[Tail(queue)[i].revision]
      BY <1>c, <3>1
    <3>3. /\ catalog'[p].queue = Tail(queue) /\ catalog'[p].seen = next.revision
          /\ catalog'[p].listed <=> next.connected
          /\ catalog'[p].listed \in BOOLEAN
      BY <2>3 DEF Shows, CatalogRecord
    <3>4. catalog'[p].listed = account[p].history[next.revision]
      BY <1>p, <3>1, <3>3
    <3> QED BY <1>q, <3>1, <3>2, <3>3, <3>4 DEF Settlement
  <2> QED BY <1>a, <2>1, <2>2, <2>3
<1> QED BY <1>1, <1>2, <1>3 DEF AccountInvariant

LEMMA PollKeeps ==
  ASSUME AccountInvariant, NEW p \in Processes, Poll(p)
  PROVE  AccountInvariant'
<1>0. ServerTyped /\ CallsTyped /\ LoginsTyped /\ OperatorsTyped /\ AccountsTyped
      /\ CatalogsTyped /\ FileIsLocked /\ StateIsLocked /\ FileIsKnown /\ StatusIsSettled
  BY DEF AccountInvariant
<1> DEFINE queue == catalog[p].queue
<1>e. Revision(p) \in Nat \ {0}
  BY <1>0 DEF AccountsTyped
<1>f. StatusNow(p) \in Event /\ StatusNow(p).revision = Revision(p) /\ StatusNow(p).connected = (account[p].credentials # None)
  BY <1>e DEF StatusNow, Event
<1>p. catalog \in [Processes -> CatalogRecord] /\ queue \in Seq(Event) /\ catalog[p].polls \in Nat
  BY <1>0 DEF CatalogsTyped, CatalogRecord
<1>a. \E q \in {queue, Append(queue, StatusNow(p))} : Shows(p, catalog[p].listed, catalog[p].seen, q)
  <2> DEFINE n == catalog[p].polls + 1
             r == Append(queue, StatusNow(p))
  <2>1. n \in Nat /\ r \in Seq(Event)
    BY <1>p, <1>f, Queueing
  <2>2. \/ catalog' = [catalog EXCEPT ![p].polls = n]
        \/ catalog' = [catalog EXCEPT ![p] = [@ EXCEPT !.polls = n, !.queue = r]]
    <3>1. CASE Revision(p) = catalog[p].seen
      BY <3>1 DEF Poll
    <3>2. CASE Revision(p) # catalog[p].seen
      BY <3>2 DEF Poll
    <3> QED BY <3>1, <3>2
  <2> HIDE DEF n
  <2> QED BY <1>0, <2>1, <2>2, CountedLists, PolledLists
<1>b. PICK q \in {queue, Append(queue, StatusNow(p))} : Shows(p, catalog[p].listed, catalog[p].seen, q)
  BY <1>a
<1>c. /\ \A i \in DOMAIN q : q[i] = StatusNow(p) \/ (i \in DOMAIN queue /\ q[i] = queue[i])
      /\ q = <<>> => queue = <<>>
  <2>1. CASE q = queue
    BY <2>1
  <2>2. CASE q = Append(queue, StatusNow(p))
    BY <2>2, <1>p, <1>f, Queueing
  <2> QED BY <2>1, <2>2
<1>d. UNCHANGED account
  BY DEF Poll
<1>g. /\ catalog[p].seen \in 1..Revision(p) /\ Settlement(p)
      /\ \A i \in DOMAIN queue : queue[i].revision \in 1..Revision(p)
  BY <1>0 DEF CatalogsTyped, StatusIsSettled
<1> HIDE DEF queue
<1>1. ServerTyped' /\ CallsTyped' /\ LoginsTyped' /\ OperatorsTyped'
      /\ AccountsTyped' /\ FileIsLocked' /\ StateIsLocked' /\ FileIsKnown'
  BY <1>0 DEF Poll, ServerTyped, CallsTyped, LoginsTyped, OperatorsTyped, AccountsTyped,
    FileIsLocked, StateIsLocked, FileIsKnown
<1>2. CatalogsTyped'
  <2> SUFFICES ASSUME NEW r \in Processes
               PROVE  /\ catalog'[r].seen \in 1..Revision(r)
                      /\ \A i \in DOMAIN catalog'[r].queue : catalog'[r].queue[i].revision \in 1..Revision(r)
    BY <1>b, <1>d DEF CatalogsTyped, Shows
  <2>1. CASE r # p
    BY <1>0, <1>b, <2>1 DEF CatalogsTyped, Shows
  <2>2. CASE r = p
    <3>1. ASSUME NEW i \in DOMAIN q PROVE q[i].revision \in 1..Revision(p)
      <4>1. CASE q[i] = StatusNow(p)
        BY <1>e, <1>f, <4>1
      <4>2. CASE i \in DOMAIN queue /\ q[i] = queue[i]
        BY <1>g, <4>2
      <4> QED BY <1>c, <4>1, <4>2
    <3>2. catalog'[p].queue = q /\ catalog'[p].seen = catalog[p].seen
      BY <1>b DEF Shows
    <3> QED BY <1>g, <2>2, <3>1, <3>2
  <2> QED BY <2>1, <2>2
<1>3. StatusIsSettled'
  <2> SUFFICES ASSUME NEW r \in Processes PROVE Settlement(r)'
    BY DEF StatusIsSettled
  <2>1. CASE r # p
    BY <1>0, <1>b, <1>d, <2>1 DEF StatusIsSettled, Settlement, Shows
  <2>2. CASE r = p
    <3> SUFFICES ASSUME ~account[p].unseen PROVE Settlement(p)'
      BY <1>d, <2>2 DEF Settlement
    <3>1. /\ Connected(account[p]) = account[p].history[Revision(p)]
          /\ \A i \in DOMAIN queue : queue[i].connected = account[p].history[queue[i].revision]
          /\ queue = <<>> => catalog[p].listed = account[p].history[catalog[p].seen]
      BY <1>g DEF Settlement, queue
    <3>2. ASSUME NEW i \in DOMAIN q PROVE q[i].connected = account[p].history[q[i].revision]
      <4>1. CASE q[i] = StatusNow(p)
        BY <1>f, <3>1, <4>1
      <4>2. CASE i \in DOMAIN queue /\ q[i] = queue[i]
        BY <3>1, <4>2
      <4> QED BY <1>c, <4>1, <4>2
    <3>3. /\ catalog'[p].queue = q /\ catalog'[p].seen = catalog[p].seen
          /\ catalog'[p].listed <=> catalog[p].listed
          /\ catalog'[p].listed \in BOOLEAN /\ catalog[p].listed \in BOOLEAN
      BY <1>0, <1>b DEF Shows, CatalogRecord, CatalogsTyped
    <3> QED BY <1>c, <1>d, <3>1, <3>2, <3>3 DEF Settlement
  <2> QED BY <2>1, <2>2
<1> QED BY <1>1, <1>2, <1>3 DEF AccountInvariant

LEMMA StartLoginKeeps ==
  ASSUME AccountInvariant, NEW p \in Processes, StartLogin(p)
  PROVE  AccountInvariant'
<1>0. ServerTyped /\ CallsTyped /\ LoginsTyped /\ OperatorsTyped /\ AccountsTyped
      /\ CatalogsTyped /\ FileIsLocked /\ StateIsLocked /\ FileIsKnown /\ StatusIsSettled
  BY DEF AccountInvariant
<1>b. Becomes(p, account[p].credentials, account[p].history, account[p].lock, account[p].unseen)
  BY <1>0, StartedBecomes DEF StartLogin
<1>t. account[p].lock \in Tasks
  BY <1>0 DEF AccountsTyped, AccountRecord
<1>1. ServerTyped' /\ CallsTyped' /\ FileIsKnown'
  BY <1>0 DEF StartLogin, Ask, MayLock, ServerTyped, CallsTyped, FileIsKnown
<1>2. AccountsTyped' /\ CatalogsTyped' /\ StatusIsSettled'
  BY <1>0, <1>b, <1>t, QuietAccounts DEF StartLogin, ServerTyped
<1>3. LoginsTyped'
  BY <1>0, <1>b DEF StartLogin, Ask, MayLock, LoginsTyped, ServerTyped, Becomes, LoginRecord
<1>4. OperatorsTyped'
  BY <1>0, <1>b DEF StartLogin, Ask, MayLock, OperatorsTyped, Becomes, OperatorRecord
<1>5. FileIsLocked'
  BY <1>0, <1>b DEF StartLogin, Ask, MayLock, FileIsLocked, Becomes, LoginsTyped, LoginRecord,
    OperatorsTyped, OperatorRecord
<1>6. StateIsLocked'
  BY <1>0, <1>b DEF StartLogin, Ask, MayLock, StateIsLocked, ServerTyped, Becomes,
    OperatorsTyped, OperatorRecord
<1> QED BY <1>1, <1>2, <1>3, <1>4, <1>5, <1>6 DEF AccountInvariant

LEMMA CancelLoginKeeps ==
  ASSUME AccountInvariant, NEW p \in Processes, CancelLogin(p)
  PROVE  AccountInvariant'
<1>0. ServerTyped /\ CallsTyped /\ LoginsTyped /\ OperatorsTyped /\ AccountsTyped
      /\ CatalogsTyped /\ FileIsLocked /\ StateIsLocked /\ FileIsKnown /\ StatusIsSettled
  BY DEF AccountInvariant
<1>b. Becomes(p, account[p].credentials, account[p].history, account[p].lock, account[p].unseen)
  BY <1>0, ErrorBecomes DEF CancelLogin
<1>t. account[p].lock \in Tasks
  BY <1>0 DEF AccountsTyped, AccountRecord
<1>1. CallsTyped'
  BY <1>0 DEF CancelLogin, Ask, MayLock, DetachLogin, FileUnlocked, CallsTyped
<1>2. AccountsTyped' /\ CatalogsTyped' /\ StatusIsSettled'
  BY <1>0, <1>b, <1>t, QuietAccounts DEF CancelLogin, DetachLogin, ServerTyped
<1>3. ServerTyped'
  BY <1>0, <1>b DEF CancelLogin, Ask, MayLock, DetachLogin, FileUnlocked, ServerTyped,
    CallsTyped, LoginsTyped, Becomes
<1>4. LoginsTyped'
  BY <1>0, <1>b DEF CancelLogin, Ask, MayLock, DetachLogin, FileUnlocked, LoginsTyped,
    ServerTyped, Becomes, LoginRecord
<1>5. OperatorsTyped'
  BY <1>0, <1>b DEF CancelLogin, Ask, MayLock, DetachLogin, FileUnlocked, OperatorsTyped,
    Becomes, OperatorRecord
<1>6. FileIsLocked'
  BY <1>0, <1>b DEF CancelLogin, Ask, MayLock, DetachLogin, FileUnlocked, FileIsLocked,
    Becomes, LoginsTyped, LoginRecord, OperatorsTyped, OperatorRecord
<1>7. StateIsLocked'
  BY <1>0, <1>b DEF CancelLogin, Ask, MayLock, DetachLogin, FileUnlocked, StateIsLocked,
    ServerTyped, Becomes, OperatorsTyped, OperatorRecord
<1>8. FileIsKnown'
  BY <1>0, <1>b DEF CancelLogin, Ask, MayLock, DetachLogin, FileUnlocked, FileIsKnown,
    ServerTyped, CallsTyped, FileIsLocked, Becomes, LoginsTyped, LoginRecord
<1> QED BY <1>1, <1>2, <1>3, <1>4, <1>5, <1>6, <1>7, <1>8 DEF AccountInvariant

LEMMA CloseAccountKeeps ==
  ASSUME AccountInvariant, NEW p \in Processes, CloseAccount(p)
  PROVE  AccountInvariant'
<1>0. ServerTyped /\ CallsTyped /\ LoginsTyped /\ OperatorsTyped /\ AccountsTyped
      /\ CatalogsTyped /\ FileIsLocked /\ StateIsLocked /\ FileIsKnown /\ StatusIsSettled
  BY DEF AccountInvariant
<1>b. Becomes(p, account[p].credentials, account[p].history, account[p].lock, account[p].unseen)
  BY <1>0, ClosedBecomes DEF CloseAccount
<1>t. account[p].lock \in Tasks
  BY <1>0 DEF AccountsTyped, AccountRecord
<1>1. CallsTyped'
  BY <1>0 DEF CloseAccount, Ask, MayLock, DetachLogin, FileUnlocked, CallsTyped
<1>2. AccountsTyped' /\ CatalogsTyped' /\ StatusIsSettled'
  BY <1>0, <1>b, <1>t, QuietAccounts DEF CloseAccount, DetachLogin, ServerTyped
<1>3. ServerTyped'
  BY <1>0, <1>b DEF CloseAccount, Ask, MayLock, DetachLogin, FileUnlocked, ServerTyped,
    CallsTyped, LoginsTyped, Becomes
<1>4. LoginsTyped'
  BY <1>0, <1>b DEF CloseAccount, Ask, MayLock, DetachLogin, FileUnlocked, LoginsTyped,
    ServerTyped, Becomes, LoginRecord
<1>5. OperatorsTyped'
  BY <1>0, <1>b DEF CloseAccount, Ask, MayLock, DetachLogin, FileUnlocked, OperatorsTyped,
    Becomes, OperatorRecord
<1>6. FileIsLocked'
  BY <1>0, <1>b DEF CloseAccount, Ask, MayLock, DetachLogin, FileUnlocked, FileIsLocked,
    Becomes, LoginsTyped, LoginRecord, OperatorsTyped, OperatorRecord
<1>7. StateIsLocked'
  BY <1>0, <1>b DEF CloseAccount, Ask, MayLock, DetachLogin, FileUnlocked, StateIsLocked,
    ServerTyped, Becomes, OperatorsTyped, OperatorRecord
<1>8. FileIsKnown'
  BY <1>0, <1>b DEF CloseAccount, Ask, MayLock, DetachLogin, FileUnlocked, FileIsKnown,
    ServerTyped, CallsTyped, FileIsLocked, Becomes, LoginsTyped, LoginRecord
<1> QED BY <1>1, <1>2, <1>3, <1>4, <1>5, <1>6, <1>7, <1>8 DEF AccountInvariant

LEMMA DisconnectKeeps ==
  ASSUME AccountInvariant, NEW p \in Processes, Disconnect(p)
  PROVE  AccountInvariant'
<1>0. ServerTyped /\ CallsTyped /\ LoginsTyped /\ OperatorsTyped /\ AccountsTyped
      /\ CatalogsTyped /\ FileIsLocked /\ StateIsLocked /\ FileIsKnown /\ StatusIsSettled
  BY DEF AccountInvariant
<1>1. CallsTyped' /\ AccountsTyped' /\ CatalogsTyped' /\ StatusIsSettled'
  BY <1>0 DEF Disconnect, Ask, MayLock, DetachLogin, FileUnlocked, CallsTyped, AccountsTyped,
    CatalogsTyped, StatusIsSettled, Settlement
<1>2. ServerTyped'
  BY <1>0 DEF Disconnect, Ask, MayLock, DetachLogin, FileUnlocked, ServerTyped, CallsTyped,
    LoginsTyped
<1>3. LoginsTyped'
  BY <1>0 DEF Disconnect, Ask, MayLock, DetachLogin, FileUnlocked, LoginsTyped, ServerTyped,
    LoginRecord
<1>4. OperatorsTyped'
  BY <1>0 DEF Disconnect, Ask, MayLock, DetachLogin, FileUnlocked, OperatorsTyped, OperatorRecord
<1>5. FileIsLocked'
  BY <1>0 DEF Disconnect, Ask, MayLock, DetachLogin, FileUnlocked, FileIsLocked, LoginsTyped,
    LoginRecord, OperatorsTyped, OperatorRecord
<1>6. StateIsLocked'
  BY <1>0 DEF Disconnect, Ask, MayLock, DetachLogin, FileUnlocked, StateIsLocked, ServerTyped,
    OperatorsTyped, OperatorRecord
<1>7. FileIsKnown'
  BY <1>0 DEF Disconnect, Ask, MayLock, DetachLogin, FileUnlocked, FileIsKnown, ServerTyped,
    CallsTyped, FileIsLocked, LoginsTyped, LoginRecord
<1> QED BY <1>1, <1>2, <1>3, <1>4, <1>5, <1>6, <1>7 DEF AccountInvariant

LEMMA LandKeeps ==
  ASSUME AccountInvariant, NEW g \in threads, Land(g)
  PROVE  AccountInvariant'
<1>0. ServerTyped /\ CallsTyped /\ LoginsTyped /\ OperatorsTyped /\ AccountsTyped
      /\ CatalogsTyped /\ FileIsLocked /\ StateIsLocked /\ FileIsKnown /\ StatusIsSettled
  BY DEF AccountInvariant
<1>1. CallsTyped' /\ LoginsTyped' /\ OperatorsTyped' /\ AccountsTyped'
      /\ CatalogsTyped' /\ FileIsLocked' /\ StateIsLocked' /\ StatusIsSettled'
  BY <1>0 DEF Land, CallsTyped, LoginsTyped, OperatorsTyped, AccountsTyped, CatalogsTyped,
    FileIsLocked, StateIsLocked, StatusIsSettled, Settlement
<1>2. ServerTyped'
  BY <1>0 DEF Land, ServerTyped, CallsTyped, LoginsTyped
<1>3. FileIsKnown'
  BY <1>0 DEF Land, FileIsKnown, ServerTyped, CallsTyped, FileIsLocked
<1> QED BY <1>1, <1>2, <1>3 DEF AccountInvariant

LEMMA AgeKeeps ==
  ASSUME AccountInvariant, NEW g \in Generation, Age(g)
  PROVE  AccountInvariant'
<1>0. ServerTyped /\ CallsTyped /\ LoginsTyped /\ OperatorsTyped /\ AccountsTyped
      /\ CatalogsTyped /\ FileIsLocked /\ StateIsLocked /\ FileIsKnown /\ StatusIsSettled
  BY DEF AccountInvariant
<1>1. CallsTyped' /\ LoginsTyped' /\ OperatorsTyped' /\ AccountsTyped'
      /\ CatalogsTyped' /\ FileIsLocked' /\ StateIsLocked' /\ StatusIsSettled'
  BY <1>0 DEF Age, CallsTyped, LoginsTyped, OperatorsTyped, AccountsTyped, CatalogsTyped,
    FileIsLocked, StateIsLocked, StatusIsSettled, Settlement
<1>2. ServerTyped'
  BY <1>0 DEF Age, ServerTyped, CallsTyped, LoginsTyped
<1>3. FileIsKnown'
  BY <1>0 DEF Age, FileIsKnown, ServerTyped, CallsTyped, FileIsLocked
<1> QED BY <1>1, <1>2, <1>3 DEF AccountInvariant

HIDE AccountConstants DEF At, Going, Leave, LoginAt, LoginGoing, OperatorAt, Disk, Server, None,
  Nobody, Generation, CallTask, LoginTask, OperatorTask, Revision, Connected

LEMMA AccountStarts == AccountInit => AccountInvariant
<1> SUFFICES ASSUME AccountInit PROVE AccountInvariant
  OBVIOUS
<1>1. PICK g \in {None, 1} :
        /\ file = g /\ issued = g /\ accepted = {g} \ {None}
        /\ account = [p \in Processes |->
                   [credentials |-> g, history |-> <<g # None>>, lock |-> Nobody,
                    closed |-> FALSE, error |-> FALSE, signedOut |-> FALSE,
                    unseen |-> FALSE]]
        /\ fileLock = Nobody /\ threads = {} /\ due = {} /\ stranded = {}
        /\ call = [c \in Calls |-> [at |-> "new", using |-> None, got |-> None, recovers |-> "no"]]
        /\ login = [p \in Processes |-> [at |-> "none", got |-> None]]
        /\ operator = [p \in Processes |-> [at |-> "idle", asked |-> 0]]
        /\ catalog = [p \in Processes |-> [listed |-> g # None, seen |-> 1,
                                       queue |-> <<>>, polls |-> 0]]
  BY DEF AccountInit
<1> USE AccountConstants DEF None
<1>2. ServerTyped /\ CallsTyped /\ LoginsTyped /\ OperatorsTyped
  BY <1>1 DEF ServerTyped, CallsTyped, CallRecord, CallPlaces, LoginsTyped, LoginRecord,
    OperatorsTyped,
     OperatorRecord
<1>3. PICK b \in BOOLEAN : b = (g # None)
  OBVIOUS
<1>4. <<b>> \in Seq(BOOLEAN) /\ Len(<<b>>) = 1 /\ <<b>>[1] = b /\ <<g # None>> = <<b>>
  BY <1>3
<1> DEFINE h == <<g # None>>
<1> HIDE DEF h
<1>5. /\ \A p \in Processes : account[p].credentials = g /\ account[p].history = h /\ account[p].unseen = FALSE
      /\ h \in Seq(BOOLEAN) /\ Len(h) = 1 /\ h[1] = (g # None)
      /\ account \in [Processes -> AccountRecord]
  <2>1. h \in Seq(BOOLEAN) /\ Len(h) = 1 /\ h[1] = (g # None)
    BY <1>3, <1>4 DEF h
  <2>2. account = [p \in Processes |->
                   [credentials |-> g, history |-> h, lock |-> Nobody,
                    closed |-> FALSE, error |-> FALSE, signedOut |-> FALSE,
                    unseen |-> FALSE]]
    BY <1>1 DEF h
  <2>3. Nobody \in Tasks
    BY DEF Tasks
  <2> QED BY <2>1, <2>2, <2>3 DEF AccountRecord
<1>6. AccountsTyped
  <2>1. g \in 0..issued
    BY <1>1
  <2>2. \A p \in Processes : Revision(p) = 1
    BY <1>5 DEF Revision
  <2> QED BY <1>5, <2>1, <2>2 DEF AccountsTyped
<1>7. /\ catalog \in [Processes -> CatalogRecord]
      /\ \A p \in Processes : /\ catalog[p].queue = <<>> /\ catalog[p].seen = 1
                              /\ catalog[p].listed = (g # None)
  <2>1. catalog = [p \in Processes |-> [listed |-> b, seen |-> 1, queue |-> <<>>, polls |-> 0]]
    BY <1>1, <1>3
  <2>2. <<>> \in Seq(Event)
    OBVIOUS
  <2> QED BY <1>3, <2>1, <2>2 DEF CatalogRecord
<1>8. CatalogsTyped
  <2>1. \A p \in Processes : Revision(p) = 1
    BY <1>5 DEF Revision
  <2>2. \A p \in Processes : DOMAIN catalog[p].queue = {}
    BY <1>7
  <2> QED BY <1>7, <2>1, <2>2 DEF CatalogsTyped
<1>9. FileIsLocked /\ StateIsLocked /\ FileIsKnown
  BY <1>1 DEF FileIsLocked, StateIsLocked, FileIsKnown
<1>10. StatusIsSettled
  BY <1>5, <1>7 DEF StatusIsSettled, Settlement, Connected, Revision
<1> QED BY <1>2, <1>6, <1>8, <1>9, <1>10 DEF AccountInvariant

LEMMA AccountKept == AccountInvariant /\ [AccountNext]_accountVars => AccountInvariant'
<1> SUFFICES ASSUME AccountInvariant, [AccountNext]_accountVars PROVE AccountInvariant'
  OBVIOUS
<1>1. CASE \E c \in Calls : CallStep(c) \/ Aborted(c)
  BY <1>1, AccessKeeps, ServedKeeps, RejectedKeeps, RecoverKeeps, LockFileKeeps,
    LockTimesOutKeeps,
     ReloadKeeps, GrantedKeeps, DeniedKeeps, AnswerLostKeeps, WriteFileKeeps, SettleKeeps, UnlockKeeps,
     AbortedKeeps DEF CallStep
<1>2. CASE \E p \in Processes : LoginStep(p) \/ OperatorStep(p) \/ Synchronize(p) \/ Poll(p)
  BY <1>2, ExchangeKeeps, LoginFailsKeeps, LoginLocksKeeps, LoginWritesKeeps, LoginCompletesKeeps,
     RevokeKeeps, RevokeLocksKeeps, DeleteFileKeeps, SynchronizeKeeps, PollKeeps
  DEF LoginStep, OperatorStep
<1>3. CASE \E p \in Processes : StartLogin(p) \/ CancelLogin(p) \/ CloseAccount(p) \/ Disconnect(p)
  BY <1>3, StartLoginKeeps, CancelLoginKeeps, CloseAccountKeeps, DisconnectKeeps
<1>4. CASE (\E g \in threads : Land(g)) \/ (\E g \in Generation : Age(g))
  BY <1>4, LandKeeps, AgeKeeps
<1>5. CASE UNCHANGED accountVars
  BY <1>5 DEF accountVars, AccountInvariant, ServerTyped, CallsTyped, LoginsTyped, OperatorsTyped,
     AccountsTyped, CatalogsTyped, FileIsLocked, StateIsLocked, FileIsKnown, StatusIsSettled, Settlement, Revision,
     Connected
<1> QED BY <1>1, <1>2, <1>3, <1>4, <1>5 DEF AccountNext

LEMMA SoundAccount == AccountInvariant => AccountIsSound
<1> SUFFICES ASSUME AccountInvariant PROVE AccountIsSound
  OBVIOUS
<1>1. RenewedSessionSurvives
  BY DEF RenewedSessionSurvives, AccountInvariant, FileIsKnown, ServerTyped, At, None
<1>2. ListedAsLastSeen
  BY DEF ListedAsLastSeen, AccountInvariant, StatusIsSettled, Settlement
<1> QED BY <1>1, <1>2 DEF AccountIsSound

\* A refused refresh deletes only the session it was refused for, and the models are
\* listed as of the revision last looked at (auth/manager.py, auth/store.py,
\* application/connected_accounts.py): for any processes, calls and generations.
THEOREM AccountStaysSound == AccountSpec => []AccountIsSound
<1>1. AccountSpec => []AccountInvariant
  BY AccountStarts, AccountKept, PTL DEF AccountSpec
<1> QED BY <1>1, SoundAccount, PTL

\* Both halves of what the run checks: neither two processes nor two attempts to
\* sign in take an account from one another (auth/manager.py, auth/login.py).
THEOREM AccountsStaySound == AccountSpec /\ LoginSpec => []AccountsAreSound
BY AccountStaysSound, LoginStaysSound, PTL DEF AccountsAreSound

-----------------------------------------------------------------------------
(* The registries of custom providers and combos *)

Passphrases == Materials \cup {NoMaterial}
Keys == [text : ApiKeys, seals : {<<>>} \cup {<<m>> : m \in Materials}]
ProviderRows == [id : Ids, created : Nat, key : Keys]
ComboRows == [id : Ids, nodes : NodeLists, enabled : BOOLEAN, created : Nat]

Table(rows) == [file : [intact : BOOLEAN, rows : SUBSET rows], cache : SUBSET rows]

\* One row for an id.
Keyed(rows) == \A r, s \in rows : r.id = s.id => r = s

Sealed(rows) == \A r \in rows : r.key.text # NoKey => IsEncrypted(r.key)

\* What is true of the providers between two requests.
ProviderInvariant ==
  /\ material \in Passphrases /\ lastWrite \in Passphrases /\ writes \in Nat
  /\ providers \in Table(ProviderRows)
  /\ {Entry(r) : r \in providers.cache} = entered
  /\ Keyed(providers.cache)
  /\ providers.file.intact => providers.file.rows = providers.cache
  /\ lastWrite # NoMaterial /\ providers.file.intact => Sealed(providers.file.rows)

\* And of the combos: what was saved is a row of the list and of an intact file.
HoldsSaved(rows) == saved \subseteq rows /\ Keyed(rows)
ComboInvariant ==
  /\ HoldsSaved(combos.cache)
  /\ combos.file.intact => HoldsSaved(combos.file.rows)

CombosTyped == combos \in Table(ComboRows)

RegistryInvariant == ProviderInvariant /\ ComboInvariant /\ CombosTyped

-----------------------------------------------------------------------------
\* An id that is given out is new.
LEMMA NewId ==
  ASSUME NEW name \in Names, NEW ids, NEW id \in UniqueId(name, ids)
  PROVE  id \in Ids /\ id \notin ids
<1>1. PICK i \in DOMAIN Candidates[name] : id = Candidates[name][i] /\ id \notin ids
  BY DEF UniqueId
<1>2. QED BY <1>1 DEF Ids, ToSet

\* Encrypting changes the envelope and nothing else.
LEMMA Encrypted ==
  ASSUME NEW key \in Keys, material \in Materials
  PROVE  /\ Encrypt(key) \in Keys
         /\ Encrypt(key).text = key.text
         /\ key.text # NoKey => IsEncrypted(Encrypt(key))
<1>1. CASE key.text = NoKey \/ key.seals # <<>>
  BY <1>1 DEF Encrypt, IsEncrypted
<1>2. CASE key.text # NoKey /\ key.seals = <<>>
  <2>1. Encrypt(key) = [key EXCEPT !.seals = Append(<<>>, material)]
    BY <1>2 DEF Encrypt, IsEncrypted
  <2>2. Append(<<>>, material) = <<material>> /\ <<material>> # <<>>
    OBVIOUS
  <2>3. Encrypt(key) = [text |-> key.text, seals |-> <<material>>]
    BY <2>1, <2>2 DEF Keys
  <2> QED BY <2>2, <2>3 DEF Keys, IsEncrypted
<1> QED BY <1>1, <1>2

LEMMA EncryptedRows ==
  ASSUME NEW rows \in SUBSET ProviderRows, material \in Passphrases, Keyed(rows)
  PROVE  LET out == EncryptForWrite(rows) IN
         /\ out \subseteq ProviderRows /\ Keyed(out)
         /\ {Entry(r) : r \in out} = {Entry(r) : r \in rows}
         /\ material # NoMaterial => Sealed(out)
<1> DEFINE seal(r) == [r EXCEPT !.key = Encrypt(@)]
<1>1. CASE material = NoMaterial
  BY <1>1 DEF EncryptForWrite
<1>2. CASE material # NoMaterial
  <2>1. material \in Materials /\ EncryptForWrite(rows) = {seal(r) : r \in rows}
    BY <1>2 DEF Passphrases, EncryptForWrite
  <2>2. \A r \in rows : /\ seal(r) \in ProviderRows
                        /\ seal(r).id = r.id /\ seal(r).created = r.created
                        /\ seal(r).key = Encrypt(r.key)
    BY <2>1, Encrypted DEF ProviderRows
  <2>3. \A r \in rows : Entry(seal(r)) = Entry(r)
    BY <2>1, <2>2, Encrypted DEF ProviderRows, Entry
  <2>4. \A r \in rows : r.key.text # NoKey => IsEncrypted(seal(r).key)
    BY <2>1, <2>2, Encrypted DEF ProviderRows
  <2>5. \A r \in rows : seal(r).key.text = r.key.text
    BY <2>1, <2>2, Encrypted DEF ProviderRows
  <2> HIDE DEF seal
  <2>6. Keyed({seal(r) : r \in rows})
    BY <2>2 DEF Keyed
  <2>7. {Entry(r) : r \in {seal(s) : s \in rows}} = {Entry(r) : r \in rows}
    BY <2>3
  <2>8. Sealed({seal(r) : r \in rows})
    BY <2>4, <2>5 DEF Sealed
  <2> QED BY <2>1, <2>2, <2>6, <2>7, <2>8
<1> QED BY <1>1, <1>2

\* What a client of a provider is built with is what was entered, or an error.
LEMMA KeyOrError ==
  ASSUME NEW key \in Keys, material \in Passphrases
  PROVE  \/ EffectiveKey(key) = Plain(key.text)
         \/ EffectiveKey(key) = Unreadable /\ key.seals # <<material>>
<1>1. CASE key.seals = <<>>
  BY <1>1 DEF EffectiveKey, IsEncrypted, Plain, Keys
<1>2. ASSUME NEW m \in Materials, key.seals = <<m>>
      PROVE  \/ EffectiveKey(key) = Plain(key.text)
             \/ EffectiveKey(key) = Unreadable /\ key.seals # <<material>>
  <2>1. <<m>> # <<>> /\ Last(<<m>>) = m /\ Front(<<m>>) = <<>>
    BY DEF Last, Front
  <2>2. EffectiveKey(key) = IF material = m THEN [key EXCEPT !.seals = <<>>] ELSE Unreadable
    BY <1>2, <2>1, RegistryConstants DEF EffectiveKey, IsEncrypted, Decrypt
  <2>3. CASE material = m
    BY <1>2, <2>2, <2>3 DEF Plain, Keys
  <2>4. CASE material # m
    <3>1. <<m>> # <<material>>
      BY <2>4
    <3> QED BY <1>2, <2>2, <2>4, <3>1
  <2> QED BY <2>3, <2>4
<1> QED BY <1>1, <1>2 DEF Keys

-----------------------------------------------------------------------------
\* Writing a table of rows that stand for what was entered leaves them standing.
LEMMA Persisted ==
  ASSUME NEW rows \in SUBSET ProviderRows, Keyed(rows), material \in Passphrases,
         PersistProviders(rows), material' = material,
         entered' = {Entry(r) : r \in rows}, writes' \in Nat
  PROVE  ProviderInvariant'
<1> DEFINE out == EncryptForWrite(rows)
<1>1. /\ out \subseteq ProviderRows /\ Keyed(out)
      /\ {Entry(r) : r \in out} = entered'
      /\ material # NoMaterial => Sealed(out)
  BY EncryptedRows
<1>2. providers' = [file |-> File(out), cache |-> out] /\ lastWrite' = material
  BY DEF PersistProviders
<1> HIDE DEF out
<1>3. /\ providers'.cache = out /\ providers'.file.rows = out
      /\ providers' \in Table(ProviderRows)
  BY <1>1, <1>2 DEF File, Table
<1> QED BY <1>1, <1>2, <1>3 DEF ProviderInvariant

LEMMA ProvidersStep == ProviderInvariant /\ [RegistryNext]_registryVars => ProviderInvariant'
<1> SUFFICES ASSUME ProviderInvariant, [RegistryNext]_registryVars PROVE ProviderInvariant'
  OBVIOUS
<1>t. /\ providers.cache \subseteq ProviderRows /\ providers.file.rows \subseteq ProviderRows
      /\ providers = [file |-> providers.file, cache |-> providers.cache]
      /\ providers.file = [intact |-> providers.file.intact, rows |-> providers.file.rows]
      /\ providers.file.intact \in BOOLEAN
  BY DEF ProviderInvariant, Table
<1>k. ASSUME UNCHANGED <<material, lastWrite, providers, entered>>, writes' \in Nat
      PROVE  ProviderInvariant'
  BY <1>k DEF ProviderInvariant
<1>w. Write => writes' \in Nat
  BY DEF Write, ProviderInvariant
<1>1. ASSUME NEW name \in Names, NEW text \in ApiKeys, CreateProvider(name, text)
      PROVE  ProviderInvariant'
  <2>1. PICK id \in UniqueId(name, IdsOf(providers.cache)) :
          LET row == [id |-> id, created |-> writes, key |-> Plain(text)] IN
          \/ /\ PersistProviders(Upsert(providers.cache, row))
             /\ entered' = entered \cup {Entry(row)}
          \/ UNCHANGED <<providers, lastWrite, entered>>
    BY <1>1 DEF CreateProvider
  <2> DEFINE row == [id |-> id, created |-> writes, key |-> Plain(text)]
  <2>2. material' = material /\ writes' \in Nat
    BY <1>1, <1>w DEF CreateProvider
  <2>3. CASE UNCHANGED <<providers, lastWrite, entered>>
    BY <2>2, <2>3, <1>k
  <2>4. CASE /\ PersistProviders(Upsert(providers.cache, row))
             /\ entered' = entered \cup {Entry(row)}
    <3>1. id \in Ids /\ \A r \in providers.cache : r.id # id
      BY <2>1, NewId DEF IdsOf
    <3>2. row \in ProviderRows
      BY <3>1 DEF ProviderRows, Keys, Plain, ProviderInvariant
    <3>3. Upsert(providers.cache, row) = providers.cache \cup {row}
      BY <3>1 DEF Upsert, Without
    <3> HIDE DEF row
    <3>4. row.id = id
      BY DEF row
    <3>5. Keyed(providers.cache \cup {row})
      BY <3>1, <3>4 DEF Keyed, ProviderInvariant
    <3>6. entered' = {Entry(r) : r \in providers.cache \cup {row}}
      BY <2>4 DEF ProviderInvariant
    <3>7. PersistProviders(providers.cache \cup {row})
      BY <2>4, <3>3
    <3>8. providers.cache \cup {row} \in SUBSET ProviderRows /\ material \in Passphrases
      BY <1>t, <3>2 DEF ProviderInvariant
    <3> QED BY <2>2, <3>5, <3>6, <3>7, <3>8, Persisted
  <2> QED BY <2>1, <2>3, <2>4
<1>2. ASSUME NEW id \in Ids, DeleteProvider(id)
      PROVE  ProviderInvariant'
  <2>1. material' = material /\ writes' \in Nat
    BY <1>2, <1>w DEF DeleteProvider
  <2>2. CASE UNCHANGED <<providers, lastWrite, entered>>
    BY <2>1, <2>2, <1>k
  <2>3. CASE PersistProviders(Without(providers.cache, id)) /\ entered' = Without(entered, id)
    <3> DEFINE kept == Without(providers.cache, id)
    <3>1. kept \in SUBSET ProviderRows /\ Keyed(kept) /\ material \in Passphrases
      BY <1>t DEF Without, Keyed, ProviderInvariant
    <3>2. \A r \in ProviderRows : Entry(r).id = r.id
      BY DEF Entry
    <3>3. entered' = {Entry(r) : r \in kept}
      BY <1>t, <2>3, <3>2 DEF Without, ProviderInvariant
    <3> QED BY <2>1, <2>3, <3>1, <3>3, Persisted
  <2> QED BY <1>2, <2>2, <2>3 DEF DeleteProvider
<1>3. ASSUME NEW m \in Passphrases, RestartWith(m)
      PROVE  ProviderInvariant'
  <2>1. /\ material' = m /\ lastWrite' = lastWrite /\ writes' \in Nat
        /\ providers' = [file |-> providers.file, cache |-> ReadRecords(providers.file)]
        /\ entered' = IF providers.file.intact THEN entered ELSE {}
    BY <1>3, <1>t, <1>w DEF RestartWith
  <2>2. CASE providers.file.intact
    <3>1. ReadRecords(providers.file) = providers.cache
      BY <2>2 DEF ReadRecords, ProviderInvariant
    <3>2. providers' = providers /\ entered' = entered
      BY <1>t, <2>1, <2>2, <3>1
    <3> QED BY <2>1, <3>2 DEF ProviderInvariant
  <2>3. CASE ~providers.file.intact
    <3>1. providers'.cache = {} /\ providers'.file = providers.file /\ entered' = {}
      BY <2>1, <2>3 DEF ReadRecords
    <3>2. providers' \in Table(ProviderRows)
      BY <1>t, <2>1, <2>3 DEF Table, ReadRecords
    <3>3. {Entry(r) : r \in providers'.cache} = entered' /\ Keyed(providers'.cache)
      BY <3>1 DEF Keyed
    <3> QED BY <2>1, <2>3, <3>1, <3>2, <3>3 DEF ProviderInvariant
  <2> QED BY <2>2, <2>3
<1>4. ASSUME Damage PROVE ProviderInvariant'
  <2>1. UNCHANGED <<material, lastWrite, entered>> /\ writes' \in Nat
    BY <1>4, <1>w DEF Damage
  <2>2. CASE providers' = providers
    BY <2>1, <2>2, <1>k
  <2>3. CASE providers' = [providers EXCEPT !.file.intact = FALSE]
    <3>1. /\ providers'.cache = providers.cache /\ ~providers'.file.intact
          /\ providers' \in Table(ProviderRows)
      BY <1>t, <2>3 DEF Table
    <3> QED BY <2>1, <3>1 DEF ProviderInvariant
  <2> QED BY <1>4, <2>2, <2>3 DEF Damage
<1>5. ASSUME NEW rows, NEW success, NEW failure, PersistCombos(rows, success, failure), Write
      PROVE  ProviderInvariant'
  BY <1>5, <1>k, <1>w DEF PersistCombos
<1>6. ASSUME NEW name \in Names, NEW nodes, NEW enabled, CreateCombo(name, nodes, enabled)
      PROVE  ProviderInvariant'
  BY <1>5, <1>6 DEF CreateCombo, SaveRow
<1>7. ASSUME NEW id \in Ids, NEW nodes, NEW enabled, UpdateCombo(id, nodes, enabled)
      PROVE  ProviderInvariant'
  BY <1>5, <1>7 DEF UpdateCombo, SaveRow
<1>8. ASSUME NEW id \in Ids, DeleteCombo(id) PROVE ProviderInvariant'
  BY <1>5, <1>8 DEF DeleteCombo
<1>9. CASE UNCHANGED registryVars
  BY <1>9, <1>k DEF registryVars, ProviderInvariant
<1> QED BY <1>1, <1>2, <1>3, <1>4, <1>6, <1>7, <1>8, <1>9 DEF RegistryNext, Passphrases

-----------------------------------------------------------------------------
\* Changing the row of one id keeps the saved rows of the others.
LEMMA Upserted ==
  ASSUME NEW rows, NEW row, HoldsSaved(rows), saved' = Upsert(saved, row)
  PROVE  saved' \subseteq Upsert(rows, row) /\ Keyed(Upsert(rows, row))
BY DEF HoldsSaved, Keyed, Upsert, Without

LEMMA Dropped ==
  ASSUME NEW rows, NEW id, HoldsSaved(rows), saved' = Without(saved, id)
  PROVE  /\ saved' \subseteq rows
         /\ saved' \subseteq Without(rows, id) /\ Keyed(Without(rows, id))
BY DEF HoldsSaved, Keyed, Without

LEMMA Replaced ==
  ASSUME NEW rows, NEW row, HoldsSaved(rows), saved' = Without(saved, row.id)
  PROVE  saved' \subseteq Upsert(rows, row) /\ Keyed(Upsert(rows, row))
BY DEF HoldsSaved, Keyed, Upsert, Without

LEMMA CombosStep ==
  ASSUME CombosTyped, ComboInvariant, [RegistryNext]_registryVars
  PROVE  ComboInvariant'
<1>t. /\ combos = [file |-> combos.file, cache |-> combos.cache]
      /\ combos.file = [intact |-> combos.file.intact, rows |-> combos.file.rows]
  BY DEF CombosTyped, Table
<1>k. ASSUME UNCHANGED <<combos, saved>> PROVE ComboInvariant'
  BY <1>k DEF ComboInvariant, HoldsSaved
<1>s. ASSUME NEW row, SaveRow(row) PROVE ComboInvariant'
  <2>1. CASE /\ combos' = [file |-> File(Upsert(combos.cache, row)), cache |-> Upsert(combos.cache, row)]
             /\ saved' = Upsert(saved, row)
    BY <2>1, Upserted DEF ComboInvariant, HoldsSaved, File
  <2>2. CASE /\ combos' = [combos EXCEPT !.cache = Upsert(combos.cache, row)]
             /\ saved' = Without(saved, row.id)
    <3>1. combos'.cache = Upsert(combos.cache, row) /\ combos'.file = combos.file
      BY <1>t, <2>2
    <3>2. saved' \subseteq combos'.cache /\ Keyed(combos'.cache)
      BY <2>2, <3>1, Replaced DEF ComboInvariant
    <3>3. combos.file.intact => saved' \subseteq combos.file.rows
      BY <2>2, Dropped DEF ComboInvariant
    <3> QED BY <3>1, <3>2, <3>3 DEF ComboInvariant, HoldsSaved
  <2> QED BY <1>s, <2>1, <2>2 DEF SaveRow, PersistCombos
<1>1. ASSUME NEW name \in Names, NEW nodes, NEW enabled, CreateCombo(name, nodes, enabled)
      PROVE  ComboInvariant'
  BY <1>s, <1>1 DEF CreateCombo
<1>2. ASSUME NEW id \in Ids, NEW nodes, NEW enabled, UpdateCombo(id, nodes, enabled)
      PROVE  ComboInvariant'
  BY <1>s, <1>2 DEF UpdateCombo
<1>3. ASSUME NEW id \in Ids, DeleteCombo(id) PROVE ComboInvariant'
  <2>1. saved' = Without(saved, id)
    BY <1>3 DEF DeleteCombo, PersistCombos
  <2>2. /\ saved' \subseteq Without(combos.cache, id) /\ Keyed(Without(combos.cache, id))
        /\ combos.file.intact => saved' \subseteq combos.file.rows
    BY <2>1, Dropped DEF ComboInvariant
  <2>3. CASE combos' = [file |-> File(Without(combos.cache, id)), cache |-> Without(combos.cache, id)]
    BY <2>2, <2>3 DEF ComboInvariant, HoldsSaved, File
  <2>4. CASE combos' = [combos EXCEPT !.cache = Without(combos.cache, id)]
    <3>1. combos'.cache = Without(combos.cache, id) /\ combos'.file = combos.file
      BY <1>t, <2>4
    <3> QED BY <2>2, <3>1 DEF ComboInvariant, HoldsSaved
  <2> QED BY <1>3, <2>3, <2>4 DEF DeleteCombo, PersistCombos
<1>4. ASSUME NEW m \in Passphrases, RestartWith(m) PROVE ComboInvariant'
  <2>1. /\ combos'.cache = ReadRecords(combos.file) /\ combos'.file = combos.file
        /\ saved' = IF combos.file.intact THEN saved ELSE {}
    BY <1>t, <1>4 DEF RestartWith
  <2> QED BY <2>1 DEF ComboInvariant, HoldsSaved, Keyed, ReadRecords
<1>5. CASE Damage
  <2>1. saved' = saved
    BY <1>5 DEF Damage
  <2>2. CASE combos' = combos
    BY <1>k, <2>1, <2>2
  <2>3. CASE combos' = [combos EXCEPT !.file.intact = FALSE]
    <3>1. combos'.cache = combos.cache /\ ~combos'.file.intact
      BY <1>t, <2>3
    <3> QED BY <2>1, <3>1 DEF ComboInvariant, HoldsSaved
  <2> QED BY <1>5, <2>2, <2>3 DEF Damage
<1>6. ASSUME NEW name, NEW text, CreateProvider(name, text) PROVE ComboInvariant'
  BY <1>k, <1>6 DEF CreateProvider
<1>7. ASSUME NEW id, DeleteProvider(id) PROVE ComboInvariant'
  BY <1>k, <1>7 DEF DeleteProvider
<1>8. CASE UNCHANGED registryVars
  BY <1>k, <1>8 DEF registryVars
<1> QED BY <1>1, <1>2, <1>3, <1>4, <1>5, <1>6, <1>7, <1>8 DEF RegistryNext, Passphrases

\* A row that is there is found, and is what its id resolves to.
LEMMA Resolved ==
  ASSUME NEW rows, HoldsSaved(rows), NEW row \in saved
  PROVE  ResolveCombo(rows, row.id) = IF row.enabled THEN ResolvedNodes(row) ELSE NoNodes
<1>1. FindCombo(rows, row.id) = {row}
  BY DEF HoldsSaved, Keyed, FindCombo
<1>2. CASE row.enabled
  <2>1. (CHOOSE r \in {row} : r.enabled) = row
    BY <1>2
  <2> QED BY <1>1, <1>2, <2>1 DEF ResolveCombo
<1>3. CASE ~row.enabled
  BY <1>1, <1>3 DEF ResolveCombo
<1> QED BY <1>2, <1>3

LEMMA CombosStayTyped ==
  ASSUME ProviderInvariant, CombosTyped, [RegistryNext]_registryVars
  PROVE  CombosTyped'
<1>t. /\ combos.cache \subseteq ComboRows /\ combos.file.rows \subseteq ComboRows
      /\ combos = [file |-> combos.file, cache |-> combos.cache]
      /\ combos.file = [intact |-> combos.file.intact, rows |-> combos.file.rows]
      /\ combos.file.intact \in BOOLEAN
  BY DEF CombosTyped, Table
<1>k. ASSUME UNCHANGED combos PROVE CombosTyped'
  BY <1>k DEF CombosTyped
<1>p. ASSUME NEW rows \in SUBSET ComboRows, NEW success, NEW failure,
             PersistCombos(rows, success, failure)
      PROVE  CombosTyped'
  <2>1. CASE combos' = [file |-> File(rows), cache |-> rows]
    BY <2>1 DEF CombosTyped, Table, File
  <2>2. CASE combos' = [combos EXCEPT !.cache = rows]
    <3>1. combos' = [file |-> combos.file, cache |-> rows]
      BY <1>t, <2>2
    <3> QED BY <1>t, <3>1 DEF CombosTyped, Table
  <2> QED BY <1>p, <2>1, <2>2 DEF PersistCombos
<1>s. ASSUME NEW row \in ComboRows, SaveRow(row) PROVE CombosTyped'
  <2>1. Upsert(combos.cache, row) \in SUBSET ComboRows
    BY <1>t DEF Upsert, Without
  <2> QED BY <1>p, <1>s, <2>1 DEF SaveRow
<1>1. ASSUME NEW name \in Names, NEW nodes \in NodeLists, NEW enabled \in BOOLEAN,
             CreateCombo(name, nodes, enabled)
      PROVE  CombosTyped'
  <2>1. PICK id \in UniqueId(name, IdsOf(combos.cache)) :
          SaveRow([id |-> id, nodes |-> nodes, enabled |-> enabled, created |-> writes])
    BY <1>1 DEF CreateCombo
  <2>2. [id |-> id, nodes |-> nodes, enabled |-> enabled, created |-> writes] \in ComboRows
    BY NewId DEF ComboRows, ProviderInvariant
  <2> QED BY <1>s, <2>1, <2>2
<1>2. ASSUME NEW id \in Ids, NEW nodes \in NodeLists, NEW enabled \in BOOLEAN,
             UpdateCombo(id, nodes, enabled)
      PROVE  CombosTyped'
  <2>1. PICK old \in combos.cache :
          SaveRow([id |-> id, nodes |-> nodes, enabled |-> enabled, created |-> old.created])
    BY <1>2 DEF UpdateCombo, FindCombo
  <2>2. [id |-> id, nodes |-> nodes, enabled |-> enabled, created |-> old.created] \in ComboRows
    BY <1>t DEF ComboRows
  <2> QED BY <1>s, <2>1, <2>2
<1>3. ASSUME NEW id \in Ids, DeleteCombo(id) PROVE CombosTyped'
  <2>1. Without(combos.cache, id) \in SUBSET ComboRows
    BY <1>t DEF Without
  <2> QED BY <1>p, <1>3, <2>1 DEF DeleteCombo
<1>4. ASSUME NEW m \in Passphrases, RestartWith(m) PROVE CombosTyped'
  <2>1. combos' = [file |-> combos.file, cache |-> ReadRecords(combos.file)]
    BY <1>t, <1>4 DEF RestartWith
  <2> QED BY <1>t, <2>1 DEF CombosTyped, Table, ReadRecords
<1>5. CASE Damage
  <2>1. CASE combos' = [combos EXCEPT !.file.intact = FALSE]
    BY <1>t, <2>1 DEF CombosTyped, Table
  <2> QED BY <1>k, <1>5, <2>1 DEF Damage
<1>6. ASSUME NEW name, NEW text, CreateProvider(name, text) PROVE CombosTyped'
  BY <1>k, <1>6 DEF CreateProvider
<1>7. ASSUME NEW id, DeleteProvider(id) PROVE CombosTyped'
  BY <1>k, <1>7 DEF DeleteProvider
<1>8. CASE UNCHANGED registryVars
  BY <1>k, <1>8 DEF registryVars
<1> QED BY <1>1, <1>2, <1>3, <1>4, <1>5, <1>6, <1>7, <1>8 DEF RegistryNext, Passphrases

LEMMA InvariantHolds == RegistrySpec => []RegistryInvariant
<1>1. RegistryInit => RegistryInvariant
  BY RegistryConstants
     DEF RegistryInit, RegistryInvariant, ProviderInvariant, ComboInvariant, CombosTyped, Table,
         File, HoldsSaved, Keyed, Sealed, Passphrases
<1>2. RegistryInvariant /\ [RegistryNext]_registryVars => RegistryInvariant'
  BY ProvidersStep, CombosStep, CombosStayTyped DEF RegistryInvariant
<1> QED BY <1>1, <1>2, PTL DEF RegistrySpec

\* The providers are those that were created and not removed, each under its own id and with the
\* key that was entered, once encrypted for good (custom_providers.py, secret_crypto.py).
THEOREM ProvidersAreKept == RegistrySpec => [](ProvidersStand /\ KeysAreSealed)
<1>1. RegistryInvariant => ProvidersStand /\ KeysAreSealed
  <2> SUFFICES ASSUME RegistryInvariant PROVE ProvidersStand /\ KeysAreSealed
    OBVIOUS
  <2>1. \A r \in providers.cache : r.key \in Keys
    BY DEF RegistryInvariant, ProviderInvariant, Table, ProviderRows
  <2>2. material \in Passphrases
    BY DEF RegistryInvariant, ProviderInvariant
  <2>3. \A r \in providers.cache :
           \/ EffectiveKey(r.key) = Plain(r.key.text)
           \/ EffectiveKey(r.key) = Unreadable /\ r.key.seals # <<material>>
    BY <2>1, <2>2, KeyOrError
  <2>4. ProvidersStand
    BY <2>3 DEF ProvidersStand, RegistryInvariant, ProviderInvariant, Keyed
  <2> QED BY <2>4 DEF RegistryInvariant, ProviderInvariant, KeysAreSealed, Sealed
<1> QED BY <1>1, InvariantHolds, PTL

\* A combo that was saved routes as it was saved, here and after a restart (combos.py).
THEOREM CombosAreKept == RegistrySpec => []CombosStand
<1>1. RegistryInvariant => CombosStand
  BY Resolved DEF RegistryInvariant, ComboInvariant, CombosStand
<1> QED BY <1>1, InvariantHolds, PTL

\* Both registries keep what they were given, whatever fails and whenever the process restarts.
THEOREM RegistriesKeepWhatWasSaved == RegistrySpec => []RegistriesAreSound
BY ProvidersAreKept, CombosAreKept, PTL DEF RegistriesAreSound

-----------------------------------------------------------------------------
(* The server.  The two halves of what is asked of it are kept by different *)
(* parts of the state: owners and ingress, and should_exit and generations. *)

Owners == Messaging \cup Everything

UsersOutlive ==
  \A x \in Owners \ owners :
    /\ Users(x) \cap owners = {}
    /\ x \in {"delivery"} \cup Everything => ~ingress

\* The owners of a server that has not started its messaging are its own.
NewServer ==
  worker.at \in {"built", "startup"} => owners = Everything /\ ~ingress

\* A server is registered only from its start to its end, and no thread is
\* scheduled meanwhile.
Registered ==
  /\ worker.at \in {"none", "starting", "loop", "load", "built"} => exiting = "none"
  /\ supervisor.scheduled => worker.at = "starting"

Steps == {"none", "starting", "loop", "load", "built", "startup", "serving", "partial",
          "failed", "shutdown", "exited", "ending"}

SupervisorTyped ==
  /\ worker \in [at : Steps, read : Nat]
  /\ supervisor \in [scheduled : BOOLEAN, running : BOOLEAN, stopping : BOOLEAN, generation : Nat]
  /\ ingress \in BOOLEAN
  /\ owners \subseteq Owners

ServerInvariant ==
  SupervisorTyped /\ UsersOutlive /\ NewServer /\ Registered /\ NoRestartIsOverlooked

\* The stage a close takes up is one that has something to close, and no stage
\* before it has.
LEMMA FirstStage ==
  ASSUME Ahead # {}
  PROVE  /\ First \in Ahead
         /\ First \in 1..7
         /\ \A i \in 1..7 : i < First => ~Present(Stages[i])
<1>1. /\ Ahead \subseteq 1..7
      /\ \A i \in Ahead : Present(Stages[i])
      /\ \A i \in 1..7 : Present(Stages[i]) /\ i \notin Ahead => i > 4 /\ Scope = 1..4
  BY DEF Ahead, Scope, Stages
<1>2. \E i \in Ahead : \A j \in Ahead : i <= j
  <2>1. PICK i \in Ahead : TRUE
    OBVIOUS
  <2>2. CASE 1 \in Ahead
    BY <1>1, <2>2
  <2>3. CASE 1 \notin Ahead /\ 2 \in Ahead
    BY <1>1, <2>3
  <2>4. CASE 1 \notin Ahead /\ 2 \notin Ahead /\ 3 \in Ahead
    BY <1>1, <2>4
  <2>5. CASE 1 \notin Ahead /\ 2 \notin Ahead /\ 3 \notin Ahead /\ 4 \in Ahead
    BY <1>1, <2>5
  <2>6. CASE {1, 2, 3, 4} \cap Ahead = {} /\ 5 \in Ahead
    BY <1>1, <2>6
  <2>7. CASE {1, 2, 3, 4} \cap Ahead = {} /\ 5 \notin Ahead /\ 6 \in Ahead
    BY <1>1, <2>7
  <2>8. CASE {1, 2, 3, 4} \cap Ahead = {} /\ 5 \notin Ahead /\ 6 \notin Ahead
    BY <1>1, <2>1, <2>8
  <2> QED BY <2>2, <2>3, <2>4, <2>5, <2>6, <2>7, <2>8
<1>3. First \in Ahead /\ \A j \in Ahead : First <= j
  BY <1>2 DEF First
<1>4. ASSUME NEW i \in 1..7, i < First PROVE ~Present(Stages[i])
  <2>1. i \notin Ahead /\ First \in 1..7
    BY <1>1, <1>3, <1>4
  <2>2. ASSUME Present(Stages[i]) PROVE FALSE
    <3>1. i > 4 /\ Scope = 1..4
      BY <1>1, <2>1, <2>2
    <3>2. First \in 1..4
      BY <1>3, <3>1 DEF Ahead
    <3> QED BY <1>4, <3>1, <3>2
  <2> QED BY <2>2
<1> QED BY <1>1, <1>3, <1>4

\* What the stages before it say about the owners when one is taken up.
Reached(stage, gone) ==
  \/ /\ stage = "ingress" /\ gone \cap Owners = {}
  \/ /\ stage = "workflow" /\ ~ingress /\ gone = {"workflow", "cli"}
  \/ /\ stage = "cli" /\ ~ingress /\ "workflow" \notin owners /\ gone = {"cli"}
  \/ /\ stage = "delivery" /\ ~ingress /\ {"workflow", "cli"} \cap owners = {}
     /\ gone = {"delivery"}
  \/ /\ stage = "transcriber" /\ ~ingress /\ Messaging \cap owners = {}
     /\ gone = {"transcriber"}
  \/ /\ stage = "providers" /\ ~ingress
     /\ (Messaging \cup {"transcriber"}) \cap owners = {}
     /\ gone = {"providers"}
  \/ /\ stage = "accounts" /\ ~ingress
     /\ (Messaging \cup {"transcriber", "providers"}) \cap owners = {}
     /\ gone \subseteq Accounts

LEMMA StageReached ==
  ASSUME Ahead # {}, NEW gone, gone \subseteq Released(Stages[First]),
         Stages[First] # "accounts" => gone = Released(Stages[First])
  PROVE  Reached(Stages[First], gone)
<1> DEFINE stage == Stages[First]
<1>1. /\ stage \in {"ingress", "workflow", "cli", "delivery", "transcriber", "providers",
                    "accounts"}
      /\ stage \in {"workflow", "cli", "delivery", "transcriber", "providers", "accounts"} =>
           ~Present("ingress")
      /\ stage \in {"cli", "delivery", "transcriber", "providers", "accounts"} =>
           ~Present("workflow")
      /\ stage \in {"delivery", "transcriber", "providers", "accounts"} => ~Present("cli")
      /\ stage \in {"transcriber", "providers", "accounts"} => ~Present("delivery")
      /\ stage \in {"providers", "accounts"} => ~Present("transcriber")
      /\ stage = "accounts" => ~Present("providers")
  BY FirstStage DEF Stages
<1>2. /\ Present("ingress") <=> ingress
      /\ \A x \in {"workflow", "cli", "delivery", "transcriber", "providers"} :
           Present(x) <=> x \in owners
  BY DEF Present
<1>3. /\ Released("ingress") = {"ingress"}
      /\ Released("workflow") = {"workflow", "cli"}
      /\ Released("accounts") = Accounts
      /\ \A x \in {"cli", "delivery", "transcriber", "providers"} : Released(x) = {x}
  BY DEF Released
<1>4. "ingress" \notin Owners
  BY SupervisionAssumption DEF Owners, Messaging, Everything
<1> HIDE DEF stage
<1> QED BY <1>1, <1>2, <1>3, <1>4 DEF Reached, Messaging, stage

\* Nothing that is released is still used, and nothing that is used is released.
LEMMA StageKeeps ==
  ASSUME UsersOutlive, NEW stage, NEW gone, Reached(stage, gone)
  PROVE  \A x \in Owners \ (owners \ gone) :
           /\ Users(x) \cap (owners \ gone) = {}
           /\ x \in {"delivery"} \cup Everything => ~ingress
<1> SUFFICES ASSUME NEW x \in Owners, x \notin owners \ gone
             PROVE  /\ Users(x) \cap (owners \ gone) = {}
                    /\ x \in {"delivery"} \cup Everything => ~ingress
  OBVIOUS
<1>1. CASE x \notin owners
  BY <1>1 DEF UsersOutlive
<1>2. CASE x \in owners
  <2>1. x \in gone /\ stage # "ingress"
    BY <1>2 DEF Reached
  <2>2. Users(x) \cap (owners \ gone) = {}
    BY <2>1, SupervisionAssumption DEF Reached, Users, Messaging
  <2> QED BY <2>1, <2>2 DEF Reached
<1> QED BY <1>1, <1>2

\* Whoever closes a stage leaves the users of what is open alone.
LEMMA ClosingKeeps ==
  ASSUME ServerInvariant, Closing, Ahead # {}, NEW gone, gone \subseteq Released(Stages[First]),
         Stages[First] # "accounts" => gone = Released(Stages[First]),
         owners' = owners \ gone, ingress' = ingress \/ ingress' = FALSE,
         ingress' \in BOOLEAN
  PROVE  UsersOutlive' /\ (owners \subseteq Owners)'
<1>1. UsersOutlive /\ owners \subseteq Owners
  BY DEF ServerInvariant, SupervisorTyped
<1>2. \A x \in Owners \ (owners \ gone) :
        /\ Users(x) \cap (owners \ gone) = {}
        /\ x \in {"delivery"} \cup Everything => ~ingress
  BY <1>1, StageReached, StageKeeps
<1>3. (ingress' => ingress) /\ (owners' \subseteq owners)
  OBVIOUS
<1> QED BY <1>1, <1>2, <1>3 DEF UsersOutlive, Owners, Messaging, Everything

\* Whatever the thread, the desktop shell or the Admin API does.
LEMMA ServerKept ==
  ASSUME ServerInvariant, ServerNext
  PROVE  ServerInvariant'
<1>0. /\ worker \in [at : Steps, read : Nat]
      /\ supervisor \in [scheduled : BOOLEAN, running : BOOLEAN, stopping : BOOLEAN,
                         generation : Nat]
      /\ ingress \in BOOLEAN
      /\ owners \subseteq Owners
      /\ UsersOutlive /\ NewServer /\ Registered /\ NoRestartIsOverlooked
  BY DEF ServerInvariant, SupervisorTyped
<1>00. Everything' = Everything /\ Owners' = Owners
  BY DEF Everything, Owners, Messaging
<1> USE <1>00 DEF ServerInvariant, SupervisorTyped, Steps
<1>1. CASE UNCHANGED <<owners, ingress>>
  <2>1. UsersOutlive' /\ (ingress \in BOOLEAN /\ owners \subseteq Owners)'
    BY <1>0, <1>1 DEF UsersOutlive, Owners, Messaging, Everything
  <2>2. CASE StartThread
    BY <1>0, <2>1, <2>2 DEF StartThread, At_, Next_, NewServer, Registered, NoRestartIsOverlooked
  <2>3. CASE RequestRestart
    BY <1>0, <1>1, <2>1, <2>3
    DEF RequestRestart, At_, Next_, NewServer, Registered, NoRestartIsOverlooked
  <2>4. CASE RequestStop
    <3>1. /\ supervisor' = [supervisor EXCEPT !.stopping = TRUE, !.scheduled = FALSE]
          /\ exiting' = IF exiting # "none" THEN "yes" ELSE exiting
          /\ worker' = worker
      BY <2>4 DEF RequestStop
    <3>2. /\ supervisor' \in [scheduled : BOOLEAN, running : BOOLEAN, stopping : BOOLEAN,
                              generation : Nat]
          /\ ~supervisor'.scheduled
      BY <1>0, <3>1
    <3>3. exiting' # "no" /\ (exiting = "none" => exiting' = "none")
      BY <3>1
    <3> QED
      BY <1>0, <1>1, <2>1, <3>1, <3>2, <3>3 DEF NewServer, Registered, NoRestartIsOverlooked
  <2>5. CASE BeginRun
    BY <1>0, <2>1, <2>5 DEF BeginRun, At_, Next_, NewServer, Registered, NoRestartIsOverlooked
  <2>6. CASE ReadGeneration
    BY <1>0, <2>1, <2>6
    DEF ReadGeneration, At_, Next_, NewServer, Registered, NoRestartIsOverlooked
  <2>7. CASE Register
    BY <1>0, <1>1, <2>1, <2>7
    DEF Register, ExitsAtOnce, At_, Next_, NewServer, Registered, NoRestartIsOverlooked
  <2>8. CASE LeaveMainLoop
    BY <1>0, <2>1, <2>8
    DEF LeaveMainLoop, At_, Next_, NewServer, Registered, NoRestartIsOverlooked
  <2>9. CASE CloseEnds
    BY <1>0, <2>1, <2>9
    DEF CloseEnds, Closing, At_, Next_, NewServer, Registered, NoRestartIsOverlooked
  <2>10. CASE AfterServer
    BY <1>0, <2>1, <2>10
    DEF AfterServer, At_, Next_, NewServer, Registered, NoRestartIsOverlooked
  <2>11. CASE EndRun
    BY <1>0, <2>1, <2>11 DEF EndRun, At_, Next_, NewServer, Registered, NoRestartIsOverlooked
  <2>12. CASE LoadSettings
    BY <1>0, <1>1, <2>1, <2>12
    DEF LoadSettings, At_, Next_, NewServer, Registered, NoRestartIsOverlooked
  <2>13. CASE StartMessaging
    BY <1>0, <1>1, <2>1, <2>13
    DEF StartMessaging, At_, Next_, NewServer, Registered, NoRestartIsOverlooked
  <2>14. CASE CloseStep
    BY <1>0, <2>1, <2>14
    DEF CloseStep, Closing, At_, Next_, NewServer, Registered, NoRestartIsOverlooked
  <2>15. CASE CloseFails
    BY <1>0, <2>1, <2>15
    DEF CloseFails, Closing, At_, Next_, NewServer, Registered, NoRestartIsOverlooked
  <2> QED
    BY <2>2, <2>3, <2>4, <2>5, <2>6, <2>7, <2>8, <2>9, <2>10, <2>11, <2>12, <2>13, <2>14, <2>15
    DEF ServerNext, WorkerStep
<1>2. CASE LoadSettings /\ ~UNCHANGED <<owners, ingress>>
  <2>1. owners' = Everything /\ ingress' = FALSE /\ Next_("built") /\ At_("load")
        /\ UNCHANGED <<supervisor, exiting>>
    BY <1>0, <1>2 DEF LoadSettings
  <2>2. UsersOutlive'
    BY <2>1, SupervisionAssumption DEF UsersOutlive, Owners, Users, Messaging, Everything
  <2> QED
    BY <1>0, <2>1, <2>2
    DEF At_, Next_, Owners, NewServer, Registered, NoRestartIsOverlooked
<1>3. CASE StartMessaging /\ ~UNCHANGED <<owners, ingress>>
  <2>1. PICK made \in {{"delivery"}, {"delivery", "cli"}, Messaging} :
          /\ owners' = Everything \cup made
          /\ ingress' = TRUE
    BY <1>0, <1>3 DEF StartMessaging, NewServer, At_
  <2>2. UsersOutlive' /\ (owners \subseteq Owners)'
    BY <2>1, SupervisionAssumption DEF UsersOutlive, Owners, Users, Messaging, Everything
  <2> QED
    BY <1>0, <1>3, <2>1, <2>2
    DEF StartMessaging, At_, Next_, NewServer, Registered, NoRestartIsOverlooked
<1>4. CASE CloseStep /\ ~UNCHANGED <<owners, ingress>>
  <2>1. /\ Closing /\ Ahead # {}
        /\ owners' = owners \ Released(Stages[First])
        /\ ingress' = (ingress /\ Stages[First] # "ingress")
        /\ UNCHANGED <<supervisor, worker, exiting>>
    BY <1>4 DEF CloseStep
  <2>2. UsersOutlive' /\ (owners \subseteq Owners)'
    BY <1>0, <2>1, ClosingKeeps
  <2> QED
    BY <1>0, <2>1, <2>2 DEF Closing, At_, NewServer, Registered, NoRestartIsOverlooked
<1>5. CASE CloseFails /\ ~UNCHANGED <<owners, ingress>>
  <2>1. /\ Closing /\ Ahead # {} /\ Stages[First] = "accounts"
        /\ UNCHANGED <<supervisor, exiting, ingress>>
        /\ Next_(IF At_("partial") THEN "failed" ELSE "exited")
    BY <1>5 DEF CloseFails
  <2>2. PICK done \in SUBSET (owners \cap Accounts) : owners' = owners \ done
    BY <1>5, <2>1 DEF CloseFails
  <2>3. Released(Stages[First]) = Accounts
    BY <2>1 DEF Released
  <2>4. UsersOutlive' /\ (owners \subseteq Owners)'
    BY <1>0, <2>1, <2>2, <2>3, ClosingKeeps
  <2> QED
    BY <1>0, <2>1, <2>4 DEF Closing, At_, Next_, NewServer, Registered, NoRestartIsOverlooked
<1>6. ~UNCHANGED <<owners, ingress>> =>
        LoadSettings \/ StartMessaging \/ CloseStep \/ CloseFails
  BY DEF ServerNext, WorkerStep, StartThread, RequestRestart, RequestStop, BeginRun,
         ReadGeneration, Register, LeaveMainLoop, CloseEnds, AfterServer, EndRun
<1> QED BY <1>1, <1>2, <1>3, <1>4, <1>5, <1>6

\* However often a close is taken up again, the owners go in their order, and
\* no server that was not told to exit runs with settings older than a restart
\* that was promised (runtime/application.py, cli/commands.py).
THEOREM ServerStaysSupervised == ServerSpec => []ServerIsSupervised
<1>1. ServerInit => ServerInvariant
  <2> SUFFICES ASSUME ServerInit PROVE ServerInvariant
    OBVIOUS
  <2>1. UsersOutlive
    BY DEF ServerInit, UsersOutlive
  <2>2. SupervisorTyped
    BY DEF ServerInit, SupervisorTyped, Steps
  <2>3. NewServer /\ Registered /\ NoRestartIsOverlooked
    BY DEF ServerInit, NewServer, Registered, NoRestartIsOverlooked
  <2> QED BY <2>1, <2>2, <2>3 DEF ServerInvariant
<1>2. ServerInvariant /\ [ServerNext]_serverVars => ServerInvariant'
  <2>1. ASSUME ServerInvariant, UNCHANGED serverVars PROVE ServerInvariant'
    BY <2>1
    DEF serverVars, ServerInvariant, SupervisorTyped, UsersOutlive, NewServer, Registered,
        NoRestartIsOverlooked
  <2> QED BY <2>1, ServerKept
<1>3. ServerInvariant => ServerIsSupervised
  BY DEF ServerInvariant, UsersOutlive, ServerIsSupervised, UsersCloseFirst, Owners
<1> QED BY <1>1, <1>2, <1>3, PTL DEF ServerSpec

-----------------------------------------------------------------------------
(* The configuration.  An update that waits for the generation to be replaced *)
(* was prepared from the file as it still is: the config lock keeps every     *)
(* other one out.                                                             *)

ManagedIsWhole == managed = NoFile \/ DOMAIN managed = Fields

PreparedIsCurrent ==
  update # NoFile =>
    \E u \in Updates : /\ update.target = Target(u)
                       /\ update.settings = Prospective(u)
                       /\ Pending(u) = {}

RunsWithWhatIsSaved ==
  up /\ ~restartDue =>
    \A f \in Fields : Steady(f) => /\ settings[f] = SettingsFrom(managed)[f]
                                   /\ f \in NeedsRestart => effect[f] = settings[f]

ConfigInvariant ==
  ManagedIsWhole /\ PreparedIsCurrent /\ RunsWithWhatIsSaved /\ provider.cache = provider.file

\* What the Admin page calls the value of a field is what Settings() reads,
\* save for a token the process exports.
LEMMA SteadyValue ==
  ASSUME NEW m, NEW f \in Fields, Steady(f)
  PROVE  SettingsFrom(m)[f] = StateValue(m, f)
BY DEF SettingsFrom, Steady, StateValue

LEMMA OnlyOpenFieldsAreSubmitted ==
  ASSUME NEW u, NEW f, Submitted(u, f)
  PROVE  ~IsLocked(f)
BY Zenon DEF Submitted

\* The new managed file gives what was submitted and, for the rest, what the
\* sources gave before.
LEMMA TargetValue ==
  ASSUME ManagedIsWhole, NEW u, NEW f \in Fields
  PROVE  StateValue(Target(u), f) = IF Submitted(u, f) THEN u[f] ELSE StateValue(managed, f)
<1>1. DOMAIN Target(u) = Fields
  BY DEF Target
<1>2. Target(u)[f] = IF Submitted(u, f) THEN u[f]
                     ELSE IF managed # NoFile
                          THEN (IF Defines(managed, f) THEN managed[f] ELSE Default[f])
                     ELSE IF IsLocked(f) THEN Default[f]
                     ELSE StateValue(managed, f)
  BY DEF Target
<1>3. managed # NoFile => Defines(managed, f)
  BY DEF ManagedIsWhole, Defines
<1>4. CASE IsLocked(f)
  BY <1>4, OnlyOpenFieldsAreSubmitted DEF StateValue, DotenvValue, IsLocked
<1>5. CASE ~IsLocked(f)
  <2>1. StateValue(Target(u), f) = Target(u)[f]
    BY <1>1, <1>5 DEF StateValue, DotenvValue, IsLocked, Defines
  <2>2. managed # NoFile => StateValue(managed, f) = managed[f]
    BY <1>3, <1>5 DEF StateValue, DotenvValue, IsLocked
  <2> QED BY <1>2, <1>3, <1>5, <2>1, <2>2
<1> QED BY <1>4, <1>5

\* A generation made for an update that changes no restart-only field runs with
\* what the file it writes gives.
LEMMA ProspectiveValue ==
  ASSUME ManagedIsWhole, NEW u, Pending(u) = {}, NEW f \in Fields, Steady(f)
  PROVE  /\ Prospective(u)[f] = StateValue(Target(u), f)
         /\ f \in NeedsRestart => Prospective(u)[f] = StateValue(managed, f)
<1>1. f \in NeedsRestart => StateValue(Target(u), f) = StateValue(managed, f)
  BY TargetValue DEF Pending
<1>2. Prospective(u)[f] = IF f \in DotenvFirst /\ DotenvDefines(managed, f)
                          THEN DotenvValue(managed, f)
                          ELSE IF IsLocked(f) THEN StateValue(managed, f)
                          ELSE Target(u)[f]
  BY DEF Prospective
<1>3. CASE f \in DotenvFirst /\ DotenvDefines(managed, f)
  <2>1. StateValue(managed, f) = DotenvValue(managed, f)
    BY <1>3 DEF Steady, StateValue
  <2> QED BY <1>1, <1>2, <1>3, <2>1, ConfigurationAssumption
<1>4. CASE ~(f \in DotenvFirst /\ DotenvDefines(managed, f)) /\ IsLocked(f)
  <2>1. ~Submitted(u, f)
    BY <1>4, OnlyOpenFieldsAreSubmitted
  <2> QED BY <1>2, <1>4, <2>1, TargetValue
<1>5. CASE ~(f \in DotenvFirst /\ DotenvDefines(managed, f)) /\ ~IsLocked(f)
  <2>1. StateValue(Target(u), f) = Target(u)[f]
    BY <1>5 DEF Target, StateValue, DotenvValue, IsLocked, Defines
  <2> QED BY <1>1, <1>2, <1>5, <2>1
<1> QED BY <1>3, <1>4, <1>5

\* What an update comes to is read from the sources and the managed file only.
LEMMA SameSources ==
  ASSUME UNCHANGED <<external, managed>>, NEW u
  PROVE  Target(u)' = Target(u) /\ Prospective(u)' = Prospective(u) /\ Pending(u)' = Pending(u)
BY DEF Target, Prospective, Pending, Submitted, IsLocked, DotenvDefines, DotenvValue, StateValue

LEMMA PreparedKept ==
  ASSUME PreparedIsCurrent, UNCHANGED <<external, managed, update>>
  PROVE  PreparedIsCurrent'
<1> SUFFICES ASSUME update' # NoFile
             PROVE  \E u \in Updates : /\ update'.target = Target(u)'
                                       /\ update'.settings = Prospective(u)'
                                       /\ Pending(u)' = {}
  BY DEF PreparedIsCurrent
<1>1. PICK u \in Updates : /\ update.target = Target(u)
                          /\ update.settings = Prospective(u)
                          /\ Pending(u) = {}
  BY DEF PreparedIsCurrent
<1> QED BY <1>1, SameSources

LEMMA ConfigKept ==
  ASSUME ConfigInvariant, ConfigNext
  PROVE  ConfigInvariant'
<1>0. ManagedIsWhole /\ PreparedIsCurrent /\ RunsWithWhatIsSaved /\ provider.cache = provider.file
  BY DEF ConfigInvariant
<1>1. ASSUME UNCHANGED <<external, managed, update>> PROVE (ManagedIsWhole /\ PreparedIsCurrent)'
  <2>1. ManagedIsWhole'
    BY <1>0, <1>1 DEF ManagedIsWhole
  <2> QED BY <1>0, <1>1, <2>1, PreparedKept
<1>2. ASSUME UNCHANGED external, ManagedIsWhole', update' = NoFile
      PROVE  (ManagedIsWhole /\ PreparedIsCurrent)'
  BY <1>2 DEF PreparedIsCurrent
<1>3. ASSUME UNCHANGED <<external, managed, settings, effect>>, up' => up, restartDue => restartDue'
      PROVE  RunsWithWhatIsSaved'
  BY <1>0, <1>3
  DEF RunsWithWhatIsSaved, Steady, SettingsFrom, DotenvDefines, DotenvValue, StateValue
<1>4. ASSUME UNCHANGED <<external, managed>>, settings' = SettingsFrom(managed),
             effect' = settings'
      PROVE  RunsWithWhatIsSaved'
  BY <1>4
  DEF RunsWithWhatIsSaved, Steady, SettingsFrom, DotenvDefines, DotenvValue, StateValue
<1>5. ASSUME NEW u \in Updates, ApplyWithRestart(u) PROVE ConfigInvariant'
  <2>1. ManagedIsWhole'
    BY <1>0, <1>5 DEF ApplyWithRestart, ManagedIsWhole, Target
  <2>2. update' = NoFile /\ UNCHANGED external /\ provider' = provider
    BY <1>5 DEF ApplyWithRestart
  <2>3. RunsWithWhatIsSaved'
    <3>1. CASE restartDue' = TRUE
      BY <3>1 DEF RunsWithWhatIsSaved
    <3>2. CASE UNCHANGED <<managed, restartDue>>
      BY <1>3, <1>5, <3>2 DEF ApplyWithRestart
    <3> QED BY <1>5, <3>1, <3>2 DEF ApplyWithRestart
  <2> QED BY <1>0, <1>2, <2>1, <2>2, <2>3 DEF ConfigInvariant
<1>6. ASSUME NEW u \in Updates, PrepareUpdate(u) PROVE ConfigInvariant'
  <2>1. /\ UNCHANGED <<external, managed, settings, effect, up, restartDue, provider>>
        /\ Pending(u) = {}
        /\ update' = [target |-> Target(u), settings |-> Prospective(u)]
    BY <1>6 DEF PrepareUpdate
  <2>2. Target(u)' = Target(u) /\ Prospective(u)' = Prospective(u) /\ Pending(u)' = Pending(u)
    BY <2>1, SameSources
  <2>3. PreparedIsCurrent'
    <3>1. update'.target = Target(u)' /\ update'.settings = Prospective(u)' /\ Pending(u)' = {}
      BY <2>1, <2>2
    <3> QED BY <3>1 DEF PreparedIsCurrent
  <2>4. ManagedIsWhole'
    BY <1>0, <2>1 DEF ManagedIsWhole
  <2> QED BY <1>0, <1>3, <2>1, <2>3, <2>4 DEF ConfigInvariant
<1>7. CASE CommitUpdate
  <2>1. PICK u \in Updates : /\ managed' = Target(u)
                             /\ settings' = Prospective(u)
                             /\ Pending(u) = {}
    BY <1>0, <1>7 DEF CommitUpdate, PreparedIsCurrent
  <2>2. UNCHANGED <<external, effect, up, restartDue, provider>> /\ update' = NoFile
    BY <1>7 DEF CommitUpdate
  <2>3. ManagedIsWhole'
    BY <2>1 DEF ManagedIsWhole, Target
  <2>4. ASSUME up', ~restartDue', NEW f \in Fields, Steady(f)'
        PROVE  /\ settings'[f] = SettingsFrom(managed)'[f]
               /\ f \in NeedsRestart => effect'[f] = settings'[f]
    <3>1. Steady(f)
      BY <2>2, <2>4 DEF Steady
    <3>2. SettingsFrom(managed)' = SettingsFrom(Target(u))
      BY <2>1, <2>2 DEF SettingsFrom, DotenvDefines, DotenvValue, StateValue
    <3>3. settings'[f] = StateValue(Target(u), f)
      BY <1>0, <2>1, <3>1, ProspectiveValue
    <3>4. f \in NeedsRestart => settings'[f] = StateValue(managed, f)
      BY <1>0, <2>1, <3>1, ProspectiveValue
    <3>5. f \in NeedsRestart => effect[f] = StateValue(managed, f)
      BY <1>0, <2>2, <2>4, <3>1, SteadyValue DEF RunsWithWhatIsSaved
    <3> QED BY <2>2, <3>1, <3>2, <3>3, <3>4, <3>5, SteadyValue
  <2>5. RunsWithWhatIsSaved'
    BY <2>4 DEF RunsWithWhatIsSaved
  <2> QED BY <1>0, <1>2, <2>2, <2>3, <2>5 DEF ConfigInvariant
<1>8. CASE UpdateFails
  <2>1. UNCHANGED <<external, managed, settings, effect, up, restartDue, provider>>
        /\ update' = NoFile
    BY <1>8 DEF UpdateFails
  <2>2. ManagedIsWhole'
    BY <1>0, <2>1 DEF ManagedIsWhole
  <2> QED BY <1>0, <1>2, <1>3, <2>1, <2>2 DEF ConfigInvariant
<1>9. CASE RestartServer \/ NewProcess
  <2>1. UNCHANGED <<external, managed>> /\ update' = NoFile
        /\ settings' = SettingsFrom(managed) /\ effect' = settings'
    BY <1>9 DEF RestartServer, NewProcess
  <2>2. provider'.cache = provider'.file
    <3>1. CASE RestartServer
      BY <1>0, <3>1 DEF RestartServer
    <3>2. CASE NewProcess
      BY <1>0, <3>2 DEF NewProcess
    <3> QED BY <1>9, <3>1, <3>2
  <2>3. ManagedIsWhole'
    BY <1>0, <2>1 DEF ManagedIsWhole
  <2> QED BY <1>2, <1>4, <2>1, <2>2, <2>3 DEF ConfigInvariant
<1>10. CASE \/ \E c \in {Absent, "enabled", "disabled"} : SaveCombo(c)
            \/ \E url \in {Absent, "old", "new"} : SaveProvider(url)
            \/ UseProvider
  <2>1. UNCHANGED <<external, managed, settings, effect, up, restartDue, update>>
    BY <1>10 DEF SaveCombo, SaveProvider, UseProvider
  <2>2. provider'.cache = provider'.file
    <3>1. CASE \E url \in {Absent, "old", "new"} : SaveProvider(url)
      <4>1. PICK url \in {Absent, "old", "new"} : SaveProvider(url)
        BY <3>1
      <4> QED BY <1>0, <4>1 DEF SaveProvider
    <3>2. CASE UNCHANGED provider
      BY <1>0, <3>2
    <3> QED BY <1>10, <3>1, <3>2 DEF SaveCombo, UseProvider
  <2> QED BY <1>1, <1>3, <2>1, <2>2 DEF ConfigInvariant
<1> QED BY <1>5, <1>6, <1>7, <1>8, <1>9, <1>10 DEF ConfigNext

LEMMA ConfigStays ==
  ConfigSpec => []ConfigInvariant
<1>1. ConfigInit => ConfigInvariant
  <2> SUFFICES ASSUME ConfigInit PROVE ConfigInvariant
    OBVIOUS
  <2>1. ManagedIsWhole /\ PreparedIsCurrent
    BY DEF ConfigInit, ManagedIsWhole, PreparedIsCurrent
  <2>2. settings = SettingsFrom(managed) /\ effect = settings
    BY DEF ConfigInit
  <2>3. RunsWithWhatIsSaved
    BY <2>2 DEF RunsWithWhatIsSaved
  <2>4. provider.cache = provider.file
    BY DEF ConfigInit
  <2> QED BY <2>1, <2>3, <2>4 DEF ConfigInvariant
<1>2. ConfigInvariant /\ [ConfigNext]_configVars => ConfigInvariant'
  <2>1. ASSUME ConfigInvariant, UNCHANGED configVars PROVE ConfigInvariant'
    <3>1. ManagedIsWhole' /\ provider'.cache = provider'.file
      BY <2>1 DEF configVars, ConfigInvariant, ManagedIsWhole
    <3>2. UNCHANGED <<external, managed, update>>
      BY <2>1 DEF configVars
    <3>3. PreparedIsCurrent'
      BY <2>1, <3>2, PreparedKept DEF ConfigInvariant
    <3>4. RunsWithWhatIsSaved'
      BY <2>1
      DEF configVars, ConfigInvariant, RunsWithWhatIsSaved, Steady, SettingsFrom, DotenvDefines,
          DotenvValue, StateValue
    <3> QED BY <3>1, <3>3, <3>4 DEF ConfigInvariant
  <2> QED BY <2>1, ConfigKept
<1> QED BY <1>1, <1>2, PTL DEF ConfigSpec

\* Unless a restart is due, the server runs with what the files give, whatever
\* the sources say that the Admin page may not write.
THEOREM NothingStaysForgotten == ConfigSpec => []NothingSavedIsForgotten
<1>1. ConfigInvariant => NothingSavedIsForgotten
  BY DEF ConfigInvariant, RunsWithWhatIsSaved, NothingSavedIsForgotten
<1> QED BY <1>1, ConfigStays, PTL

\* A save changes what was submitted and nothing else, also when it takes the
\* place of the sources below the managed file.
THEOREM OnlyWhatWasAskedIsApplied == ConfigSpec => AppliesOnlyWhatWasAsked
<1> DEFINE Asked == \E u \in Updates : \A f \in Fields :
                      Steady(f) => StateValue(managed', f) =
                        (IF Submitted(u, f) THEN u[f] ELSE StateValue(managed, f))
<1>1. ConfigInvariant /\ [ConfigNext]_configVars => [managed' # managed => Asked]_configVars
  <2> SUFFICES ASSUME ConfigInvariant, ConfigNext, managed' # managed
               PROVE  Asked
    BY DEF configVars
  <2>1. \E u \in Updates : managed' = Target(u)
    BY DEF ConfigNext, ApplyWithRestart, PrepareUpdate, CommitUpdate, UpdateFails, RestartServer,
           NewProcess, SaveCombo, SaveProvider, UseProvider, ConfigInvariant, PreparedIsCurrent
  <2>2. PICK u \in Updates : managed' = Target(u)
    BY <2>1
  <2>3. \A f \in Fields :
          StateValue(managed', f) = IF Submitted(u, f) THEN u[f] ELSE StateValue(managed, f)
    BY <2>2, TargetValue DEF ConfigInvariant
  <2> QED BY <2>3
<1> QED BY <1>1, ConfigStays, PTL DEF ConfigSpec, AppliesOnlyWhatWasAsked

-----------------------------------------------------------------------------
(* Canonical failures *)

IsFailure(f) == f = Failure(f.kind, f.status, f.advice)

LEMMA FailureIsOne ==
  ASSUME NEW kind, NEW status, NEW advice
  PROVE  IsFailure(Failure(kind, status, advice))
BY DEF Failure, IsFailure

\* What is reported is a canonical failure.
LEMMA MeaningIsAFailure ==
  ASSUME NEW e
  PROVE  IsFailure(Meaning(e))
<1>1. IsFailure(OverloadedFailure)
  BY FailureIsOne DEF OverloadedFailure
<1>2. IsFailure(OfAnSdkError(e))
  BY <1>1, FailureIsOne DEF OfAnSdkError
<1>3. IsFailure(OfAResponse(e))
  BY <1>1, FailureIsOne DEF OfAResponse
<1>4. IsFailure(OfTheTransport(e))
  BY FailureIsOne DEF OfTheTransport
<1> QED BY <1>1, <1>2, <1>3, <1>4, FailureIsOne DEF Meaning

\* A boundary that sees a reported failure reports it as it is.
LEMMA ReportIsKept ==
  ASSUME NEW f, IsFailure(f), NEW own
  PROVE  Effective(f, own) = f /\ Meaning(f) = f
<1>1. f.class = "execution"
  BY DEF Failure, IsFailure
<1>2. Effective(f, own) = f
  BY <1>1 DEF Effective, Overridden
<1>3. Meaning(f) = Failure(f.kind, f.status, f.advice)
  BY <1>1 DEF Meaning
<1> QED BY <1>2, <1>3 DEF IsFailure

-----------------------------------------------------------------------------
(* Statuses *)

LEMMA RetryStatuses ==
  /\ RetryStatus(429) /\ RetryStatus(500) /\ RetryStatus(502) /\ RetryStatus(503)
  /\ RetryStatus(529)
  /\ ~RetryStatus(NoStatus) /\ ~RetryStatus(400) /\ ~RetryStatus(401) /\ ~RetryStatus(403)
BY DEF RetryStatus, NoStatus

LEMMA WordStatuses ==
  ASSUME NEW words
  PROVE  /\ OfWords(words) \in {429, 500, 503, NoStatus}
         /\ "overload" \in words => OfWords(words) # NoStatus
BY DEF OfWords, NoStatus

\* A status that was inferred is one to retry.
LEMMA TransientIsRetry ==
  ASSUME NEW e, TransientStatus(e) # NoStatus
  PROVE  RetryStatus(TransientStatus(e))
<1>1. OfWords(Text(e)) # NoStatus => RetryStatus(OfWords(Text(e)))
  BY WordStatuses, RetryStatuses
<1> QED BY <1>1, RetryStatuses DEF TransientStatus

\* Words of an overload always give a status.
LEMMA OverloadIsTransient ==
  ASSUME NEW e, e.class \notin {"execution", "http_status"}, "overload" \in Text(e)
  PROVE  TransientStatus(e) # NoStatus
<1>1. OfWords(Text(e)) # NoStatus /\ 429 # NoStatus
  BY WordStatuses DEF NoStatus
<1> QED BY <1>1, RetryStatuses DEF TransientStatus

-----------------------------------------------------------------------------
(* What is reported agrees with what a new attempt would be made for *)

Agrees(f, e) ==
  /\ f.advice = "retry" <=> Retryable(Raised(e), "provider")
  /\ f.advice = "retry" => f.kind \in Passing /\ RetryStatus(f.status)

LEMMA RetryableByClass ==
  ASSUME NEW e
  PROVE  Retryable(Raised(e), "provider") <=>
           IF e.class = "execution" THEN e.advice = "retry"
           ELSE /\ e.class \notin {"authentication", "bad_request", "permission"}
                /\ \/ TransientStatus(e) # NoStatus
                   \/ e.class \in {"timeout", "remote_protocol", "protocol", "read_timeout"}
                                   \cup Timeouts \cup Networks \cup Connections
BY DEF Retryable, Raised, Transport

LEMMA FinalAgrees ==
  ASSUME NEW e, NEW kind, NEW status, ~Retryable(Raised(e), "provider")
  PROVE  Agrees(Failure(kind, status, "final"), e)
BY DEF Agrees, Failure

LEMMA RetryAgrees ==
  ASSUME NEW e, NEW kind \in Passing, NEW status, Retryable(Raised(e), "provider"),
         RetryStatus(status)
  PROVE  Agrees(Failure(kind, status, "retry"), e)
BY DEF Agrees, Failure

LEMMA AdviceAgrees ==
  ASSUME NEW e, NEW kind \in Passing, NEW status,
         Retryable(Raised(e), "provider") => RetryStatus(status)
  PROVE  Agrees(Failure(kind, status, Advice(Retryable(Raised(e), "provider"))), e)
BY FinalAgrees, RetryAgrees DEF Advice

LEMMA OverloadAgrees ==
  ASSUME NEW e, Retryable(Raised(e), "provider")
  PROVE  Agrees(OverloadedFailure, e)
BY RetryAgrees, RetryStatuses DEF OverloadedFailure, Passing

LEMMA AnSdkErrorAgrees ==
  ASSUME NEW e, e.class \in {"sdk_status", "sdk_event"}
  PROVE  Agrees(OfAnSdkError(e), e)
<1>1. Retryable(Raised(e), "provider") <=> TransientStatus(e) # NoStatus
  BY RetryableByClass DEF Timeouts, Networks, Connections
<1>2. {"rate_limit", "upstream"} \subseteq Passing
  BY DEF Passing
<1>3. CASE TransientStatus(e) = 429
  <2>1. Retryable(Raised(e), "provider")
    BY <1>1, <1>3, RetryStatuses
  <2> QED BY <1>2, <1>3, <2>1, RetryAgrees, RetryStatuses DEF OfAnSdkError
<1>4. CASE TransientStatus(e) # 429 /\ "overload" \in Text(e)
  BY <1>1, <1>4, OverloadIsTransient, OverloadAgrees DEF OfAnSdkError
<1>5. CASE TransientStatus(e) # 429 /\ "overload" \notin Text(e) /\ SdkStatus(e) \in {401, 403}
  <2>1. ~Retryable(Raised(e), "provider")
    BY <1>1, <1>5, TransientIsRetry, RetryStatuses DEF SdkStatus
  <2> QED BY <1>5, <2>1, FinalAgrees DEF OfAnSdkError
<1>6. CASE TransientStatus(e) # 429 /\ "overload" \notin Text(e) /\ SdkStatus(e) \notin {401, 403}
  <2>1. Retryable(Raised(e), "provider") => RetryStatus(SdkStatus(e))
    BY <1>1, TransientIsRetry DEF SdkStatus
  <2> QED BY <1>2, <1>6, <2>1, AdviceAgrees DEF OfAnSdkError
<1> QED BY <1>3, <1>4, <1>5, <1>6

LEMMA AResponseAgrees ==
  ASSUME NEW e, e.class = "http_status", e.status \in HttpErrors
  PROVE  Agrees(OfAResponse(e), e)
<1>1. TransientStatus(e) = IF RetryStatus(e.status) THEN e.status ELSE NoStatus
  BY DEF TransientStatus
<1>2. Retryable(Raised(e), "provider") <=> RetryStatus(e.status)
  BY <1>1, RetryableByClass, RetryStatuses DEF Timeouts, Networks, Connections
<1>3. {"rate_limit", "upstream"} \subseteq Passing
  BY DEF Passing
<1>4. CASE e.status \in {400, 401, 403}
  BY <1>2, <1>4, FinalAgrees, RetryStatuses DEF OfAResponse
<1>5. CASE e.status = 429
  BY <1>2, <1>3, <1>5, RetryAgrees, RetryStatuses DEF OfAResponse
<1>6. CASE e.status \notin {400, 401, 403, 429} /\ e.status \in 502 .. 504
  <2>1. RetryStatus(e.status)
    BY <1>6 DEF RetryStatus
  <2> QED BY <1>2, <1>6, <2>1, OverloadAgrees, ZenonT(40) DEF OfAResponse
<1>7. CASE e.status \notin {400, 401, 403, 429} /\ e.status \notin 502 .. 504
  <2>1. Advice(RetryStatus(e.status)) = Advice(Retryable(Raised(e), "provider"))
    BY <1>2 DEF Advice
  <2> QED BY <1>2, <1>3, <1>7, <2>1, AdviceAgrees DEF OfAResponse
<1> QED BY <1>4, <1>5, <1>6, <1>7

\* Every exception a provider may raise: its meaning agrees with its retry.
LEMMA MeaningAgrees ==
  ASSUME NEW e \in RawErrors
  PROVE  Agrees(Meaning(e), e)
<1> USE DEF RawErrors, HasItsClass, FailureKeepsItsWord
<1>1. {"rate_limit", "upstream", "timeout", "unavailable"} \subseteq Passing
  BY DEF Passing
<1>2. e.status \in HttpErrors \cup {NoStatus} /\ e.class \in Classes /\ e.advice \in {"retry", "final"}
  BY DEF ErrorRecords
<1>3. CASE e.class = "execution"
  BY <1>2, <1>3, RetryableByClass, FinalAgrees, RetryAgrees DEF Meaning
<1>4. CASE e.class \in {"authentication", "permission", "bad_request"}
  BY <1>4, RetryableByClass, FinalAgrees DEF Meaning
<1>5. CASE e.class = "rate_limit"
  <2>1. Retryable(Raised(e), "provider")
    BY <1>5, RetryableByClass, RetryStatuses DEF TransientStatus
  <2> QED BY <1>1, <1>5, <2>1, RetryAgrees, RetryStatuses DEF Meaning
<1>6. CASE e.class \in Connections
  BY <1>1, <1>6, RetryableByClass, RetryAgrees, RetryStatuses DEF Meaning, Connections
<1>7. CASE e.class = "internal"
  <2>1. RetryStatus(e.status)
    BY <1>2, <1>7 DEF HttpErrors, RetryStatus, NoStatus
  <2>2. TransientStatus(e) # NoStatus
    BY <1>7, <2>1, RetryStatuses DEF TransientStatus
  <2>3. Retryable(Raised(e), "provider")
    BY <1>7, <2>2, RetryableByClass
  <2> QED BY <1>1, <1>7, <2>1, <2>3, OverloadAgrees, RetryAgrees DEF Meaning
<1>8. CASE e.class \in {"sdk_status", "sdk_event"}
  BY <1>8, AnSdkErrorAgrees DEF Meaning
<1>9. CASE e.class = "http_status"
  <2>1. e.status \in HttpErrors
    BY <1>2, <1>9
  <2> QED BY <1>9, <2>1, AResponseAgrees DEF Meaning
<1>10. CASE e.class \in Timeouts \cup Networks \cup {"remote_protocol", "timeout", "protocol", "other"}
  <2>1. Meaning(e) = OfTheTransport(e)
    BY <1>10 DEF Meaning, Timeouts, Networks
  <2> QED BY <1>1, <2>1, AdviceAgrees, RetryStatuses DEF OfTheTransport
<1> QED
  BY <1>2, <1>3, <1>4, <1>5, <1>6, <1>7, <1>8, <1>9, <1>10 DEF Classes, ByStatus

\* A provider's override is as good as its exception.
LEMMA EffectiveAgrees ==
  ASSUME NEW e \in RawErrors, NEW own \in BOOLEAN
  PROVE  Agrees(Meaning(Effective(e, own)), Effective(e, own))
<1>1. CASE ~Overridden(e, own)
  BY <1>1, MeaningAgrees DEF Effective
<1>2. CASE Overridden(e, own)
  <2>1. Effective(e, own) = Failure("context_window", 400, "final") \/ Effective(e, own) = OverloadedFailure
    BY <1>2 DEF Effective, Override
  <2>2. ASSUME NEW kind, NEW status, NEW advice,
               Effective(e, own) = Failure(kind, status, advice)
        PROVE  /\ Meaning(Effective(e, own)) = Failure(kind, status, advice)
               /\ Retryable(Raised(Effective(e, own)), "provider") <=> advice = "retry"
    BY <2>2, FailureIsOne, ReportIsKept, RetryableByClass DEF Failure
  <2>3. CASE Effective(e, own) = Failure("context_window", 400, "final")
    BY <2>2, <2>3, FinalAgrees
  <2>4. CASE Effective(e, own) = OverloadedFailure
    BY <2>2, <2>4, OverloadAgrees DEF OverloadedFailure
  <2> QED BY <2>1, <2>3, <2>4
<1> QED BY <1>1, <1>2

\* A locked out account is reported as one, unless an event of a stream said so.
LEMMA LockoutByClass ==
  ASSUME NEW e \in RawErrors, e.class # "sdk_event", LockedOut(e),
         ~Retryable(Raised(e), "provider")
  PROVE  Meaning(e).kind \in {"authentication", "permission"}
<1> USE DEF RawErrors, HasItsClass
<1>1. e.class \in Classes
  BY DEF ErrorRecords
<1>2. \A kind, status, advice : Failure(kind, status, advice).kind = kind
  BY DEF Failure
<1>3. CASE e.class = "execution"
  BY <1>2, <1>3 DEF Meaning, LockedOut
<1>4. CASE e.class \in ByStatus
  <2>1. e.class \in {"authentication", "permission"}
    BY <1>4 DEF LockedOut, ByStatus, NoStatus
  <2> QED BY <1>2, <2>1 DEF Meaning
<1>5. CASE e.class = "sdk_status"
  <2>1. e.status \in {401, 403}
    BY <1>5 DEF LockedOut
  <2>2. TransientStatus(e) = NoStatus
    BY <1>5, RetryableByClass
  <2>3. SdkStatus(e) = e.status
    BY <1>5, <2>2 DEF SdkStatus
  <2>4. "overload" \notin Text(e) /\ TransientStatus(e) # 429
    BY <1>5, <2>2, OverloadIsTransient DEF NoStatus
  <2> QED BY <1>2, <1>5, <2>1, <2>3, <2>4 DEF Meaning, OfAnSdkError
<1>6. CASE e.class = "http_status"
  <2>1. e.status \in {401, 403}
    BY <1>6 DEF LockedOut
  <2> QED BY <1>2, <1>6, <2>1 DEF Meaning, OfAResponse
<1>7. CASE e.class \notin ByStatus \cup {"execution", "sdk_status", "http_status"}
  <2>1. e.status = NoStatus /\ e.body = Silent /\ e.nested = Silent
    BY <1>7
  <2>2. BodyStatus(e) = NoStatus
    BY <2>1 DEF BodyStatus, PartStatus, Silent, OfWords
  <2> QED BY <1>7, <2>1, <2>2 DEF LockedOut, ByStatus, NoStatus
<1> QED BY <1>3, <1>4, <1>5, <1>6, <1>7

-----------------------------------------------------------------------------
(* The way of one exception *)

\* Admission decided once, by what the exception means to this provider.
DecidedOnce ==
  decided # "nothing" =>
    decided = IF Retryable(Raised(Effective(first, special)), "provider") THEN "retry"
              ELSE IF LockedOut(Effective(first, special)) THEN "lockout" ELSE "final"

\* Every exception that travels is the one that was raised, wrapped or reported.
THEOREM FailureTyped == FailureSpec => [](FailureTypes /\ DecidedOnce)
<1>1. FailureInit => FailureTypes /\ DecidedOnce
  BY DEF FailureInit, FailureTypes, DecidedOnce
<1>2. FailureTypes /\ DecidedOnce /\ [FailureStep]_failureVars
        => FailureTypes' /\ DecidedOnce'
  <2> SUFFICES ASSUME FailureTypes, DecidedOnce, [FailureStep]_failureVars
               PROVE  FailureTypes' /\ DecidedOnce'
    OBVIOUS
  <2>1. CASE Decide
    BY <2>1 DEF Decide, FailureTypes, DecidedOnce
  <2>2. CASE Exhaust
    <3>1. held = Raised(first)
      BY <2>2 DEF Exhaust, FailureTypes, Raised, Failure
    <3> QED BY <2>2, <3>1 DEF Exhaust, FailureTypes, DecidedOnce, Raised
  <2>3. CASE Report
    <3>1. IsFailure(Meaning(Effective(first, special)))
      BY MeaningIsAFailure
    <3>2. held.error \in {first, Meaning(Effective(first, special))}
      BY DEF FailureTypes, Raised
    <3>3. Classified = Meaning(Effective(first, special))
      BY <3>1, <3>2, ReportIsKept DEF Classified
    <3> QED BY <2>3, <3>3 DEF Report, FailureTypes, DecidedOnce
  <2>4. CASE UNCHANGED failureVars
    BY <2>4 DEF failureVars, FailureTypes, DecidedOnce
  <2> QED BY <2>1, <2>2, <2>3, <2>4 DEF FailureStep
<1> QED BY <1>1, <1>2, PTL DEF FailureSpec

\* For any exceptions, with or without an override: the meaning survives wrapping and
\* repeated reports, admission, boundary and failover agree on what a retry may help,
\* a retry is told by its status, and a lockout by its kind.
THEOREM OneFailure == FailureSpec => []FailureIsOneThing
<1>1. FailureTypes /\ DecidedOnce => FailureIsOneThing
  <2> SUFFICES ASSUME FailureTypes, DecidedOnce
               PROVE  FailureIsOneThing
    OBVIOUS
  <2> DEFINE effective == Effective(first, special)
  <2>1. first \in RawErrors /\ special \in BOOLEAN
    BY ErrorsAssumption DEF FailureTypes
  <2>2. MeaningIsKept
    <3>1. held.error \in {first, Meaning(Effective(first, special))}
      BY DEF FailureTypes, Raised
    <3> QED BY <3>1, MeaningIsAFailure, ReportIsKept DEF MeaningIsKept, Classified
  <2>3. Classified = Meaning(effective)
    BY <2>2 DEF MeaningIsKept
  <2>4. Agrees(Meaning(effective), effective)
    BY <2>1, EffectiveAgrees
  <2>5. LayersAgree
    BY <2>3, <2>4 DEF LayersAgree, DecidedOnce, Agrees, FailsOver
  <2>6. RetryIsSaid
    BY <2>3, <2>4 DEF RetryIsSaid, Agrees
  <2>7. LockoutIsTold
    <3> SUFFICES ASSUME decided = "lockout", first.class # "sdk_event"
                 PROVE  Classified.kind \in {"authentication", "permission"}
      BY DEF LockoutIsTold
    <3>1. LockedOut(effective) /\ ~Retryable(Raised(effective), "provider")
      BY DEF DecidedOnce
    <3>2. CASE Overridden(first, special)
      <4>1. effective.kind \in {"context_window", "overloaded"} /\ effective.class = "execution"
        BY <3>2 DEF Effective, Override, OverloadedFailure, Failure
      <4> QED BY <3>1, <4>1 DEF LockedOut
    <3>3. CASE ~Overridden(first, special)
      BY <2>1, <2>3, <3>1, <3>3, LockoutByClass DEF Effective
    <3> QED BY <3>2, <3>3
  <2>8. RecoveryIsNarrower
    BY DEF RecoveryIsNarrower, Retryable, Transport
  <2> QED BY <2>2, <2>5, <2>6, <2>7, <2>8 DEF FailureIsOneThing
<1> QED BY <1>1, FailureTyped, PTL

-----------------------------------------------------------------------------
(* The listed models *)

AdminCalls == [does : {"refresh", "apply", "changed"}, with : Applied, connected : BOOLEAN,
               revision : Nat, asks : SUBSET (Supported \cup Custom), begun : BOOLEAN]

ListingTyped ==
  /\ inForce \in Applied
  /\ session \in [connected : BOOLEAN, revision : Nat \ {0}]
  /\ noticed \in Nat
  /\ lists \in [Supported -> Lists \cup {NoList}]
  /\ admin \in Seq(AdminCalls)

\* Nobody has seen a revision that is still to come, and nobody any, or
\* asks for anything, at the start.
NoneIsForeseen ==
  /\ noticed <= session.revision
  /\ \A i \in 1..Len(admin) : admin[i].revision <= session.revision
  /\ discovery.at = "warming" => noticed = 0 /\ admin = <<>>

\* The scope may be ahead of the account, but not of the settings.
ScopeIsUsable == scope \ {Account} \subseteq Configured[inForce]

ListingInvariant == /\ ListingTyped
                    /\ NoneIsForeseen
                    /\ ScopeIsUsable
                    /\ ModelsAreTrue

-----------------------------------------------------------------------------
\* What a cache keeps of the answers is of its type.
LEMMA CachedIsTyped ==
  ASSUME NEW cache \in [Supported -> Lists \cup {NoList}], NEW ids, NEW s, NEW asks,
         NEW answers \in Answers(s, asks)
  PROVE  Cached(cache, ids, answers) \in [Supported -> Lists \cup {NoList}]
  BY DEF Cached, Answers

\* A publication leaves a cache and a file that agree with settings and account.
LEMMA PublicationIsTrue ==
  ASSUME NEW cache \in [Supported -> Lists \cup {NoList}],
         ListingTyped, inForce' \in Applied, session' = session,
         PublishCatalog(inForce', cache)
  PROVE  /\ lists' \in [Supported -> Lists \cup {NoList}]
         /\ ScopeIsUsable'
         /\ ModelsAreTrue'
  <1> DEFINE ids == Usable(inForce', session.connected)
  <1>1. /\ scope' = ids
        /\ lists' = Within(cache, ids)
    BY DEF PublishCatalog
  <1>2. lists' \in [Supported -> Lists \cup {NoList}]
    BY <1>1 DEF Within
  <1>3. ScopeIsUsable'
    BY <1>1 DEF ScopeIsUsable, Usable
  <1>4. ListedIsUsable'
    <2>1. \A p \in Supported : lists'[p] # NoList => p \in ids
      BY <1>1 DEF Within
    <2>2. \A p \in Supported \ {Account} : lists'[p] # NoList => p \in Configured[inForce']
      BY <2>1 DEF Usable
    <2>3. ASSUME ~session.connected PROVE lists'[Account] = NoList
      <3>1. Account \in Supported /\ Account \notin ids
        BY <2>3, ListingConstants DEF Usable
      <3>2. QED
        BY <3>1, <2>1
    <2>4. QED
      BY <2>2, <2>3 DEF ListedIsUsable
  <1>5. Within(lists', ids) = Within(cache, ids)
    BY <1>1 DEF Within
  <1>6. CatalogFollows'
    <2>1. CASE outdated' = TRUE
      BY <2>1 DEF CatalogFollows
    <2>2. CASE published' = [by |-> "process", says |-> Inventory(inForce', Within(cache, ids))]
      <3>1. published'.says = Inventory(inForce', Within(lists', ids))
        BY <2>2, <1>5
      <3>2. QED
        BY <3>1 DEF CatalogFollows
    <2>3. \/ outdated' = TRUE
          \/ published' = [by |-> "process", says |-> Inventory(inForce', Within(cache, ids))]
      BY DEF PublishCatalog
    <2>4. QED
      BY <2>1, <2>2, <2>3
  <1>7. QED
    BY <1>2, <1>3, <1>4, <1>6 DEF ModelsAreTrue

\* A reader of the cache, too, leaves what agrees.
LEMMA ReadingIsTrue ==
  ASSUME ListingInvariant,
         scope' = Usable(inForce, session.connected), lists' = Within(lists, scope'),
         UNCHANGED <<inForce, session, noticed, published, outdated>>
  PROVE  /\ lists' \in [Supported -> Lists \cup {NoList}]
         /\ ScopeIsUsable'
         /\ ModelsAreTrue'
  <1> DEFINE ids == Usable(inForce, session.connected)
  <1>1. lists' = Within(lists, ids) /\ lists \in [Supported -> Lists \cup {NoList}]
    BY DEF ListingInvariant, ListingTyped
  <1>2. lists' \in [Supported -> Lists \cup {NoList}]
    BY <1>1 DEF Within
  <1>3. ScopeIsUsable' /\ ListedIsUsable'
    <2>1. \A p \in Supported : lists'[p] # NoList => lists[p] # NoList
      BY <1>1 DEF Within
    <2>2. ScopeIsUsable'
      BY DEF ScopeIsUsable, Usable
    <2>3. Account \in Supported
      BY ListingConstants
    <2>4. QED
      BY <2>1, <2>2, <2>3 DEF ListingInvariant, ModelsAreTrue, ListedIsUsable
  <1>4. Within(lists', ids) = Within(lists, ids)
    BY <1>1 DEF Within
  <1>5. CatalogFollows'
    BY <1>4 DEF ListingInvariant, ModelsAreTrue, CatalogFollows
  <1>6. QED
    BY <1>2, <1>3, <1>5 DEF ModelsAreTrue

\* A step that touches none of what the properties are about.
LEMMA ElsewhereIsTrue ==
  ASSUME ListingInvariant, UNCHANGED <<inForce, session, noticed, scope, lists, published, outdated>>
  PROVE  /\ lists' \in [Supported -> Lists \cup {NoList}]
         /\ ScopeIsUsable'
         /\ ModelsAreTrue'
  BY DEF ListingInvariant, ListingTyped, ScopeIsUsable, ModelsAreTrue, ListedIsUsable,
         CatalogFollows

-----------------------------------------------------------------------------
LEMMA ListingStarts == ListingInit => ListingInvariant
  <1> SUFFICES ASSUME ListingInit PROVE ListingInvariant
    OBVIOUS
  <1>1. ListingTyped /\ NoneIsForeseen
    BY DEF ListingInit, ListingTyped, NoneIsForeseen
  <1>2. ScopeIsUsable
    BY DEF ListingInit, ScopeIsUsable, Usable
  <1>3. ModelsAreTrue
    BY DEF ListingInit, ModelsAreTrue, ListedIsUsable, CatalogFollows
  <1>4. QED
    BY <1>1, <1>2, <1>3 DEF ListingInvariant

\* The start and the background task.
LEMMA DiscoveryIsTrue ==
  ASSUME ListingInvariant, Warmed \/ Discover \/ Discovered
  PROVE  ListingInvariant'
  <1> USE DEF ListingInvariant
  <1>1. CASE Warmed
    <2>1. PICK answers \in Answers(inForce, discovery.asks) :
            IF published.by = "nobody"
            THEN PublishCatalog(inForce, Cached(lists, scope, answers))
            ELSE /\ lists' = Cached(lists, scope, answers)
                 /\ UNCHANGED <<scope, published, outdated>>
      BY <1>1 DEF Warmed
    <2>2. Cached(lists, scope, answers) \in [Supported -> Lists \cup {NoList}]
      BY CachedIsTyped DEF ListingTyped
    <2>3. UNCHANGED <<inForce, session, noticed, admin>> /\ noticed = 0
      BY <1>1 DEF Warmed, NoneIsForeseen
    <2>4. /\ lists' \in [Supported -> Lists \cup {NoList}]
          /\ ScopeIsUsable'
          /\ ModelsAreTrue'
      <3>1. CASE published.by = "nobody"
        BY <3>1, <2>1, <2>2, <2>3, PublicationIsTrue DEF ListingTyped
      <3>2. CASE published.by # "nobody"
        <4>1. lists' = Cached(lists, scope, answers) /\ UNCHANGED scope
          BY <3>2, <2>1
        <4>2. noticed' # session'.revision
          BY <2>3 DEF ListingTyped
        <4>3. \A p \in Supported \ {Account} : lists'[p] # NoList => p \in Configured[inForce]
          BY <4>1 DEF Cached, ScopeIsUsable, ModelsAreTrue, ListedIsUsable
        <4>4. QED
          BY <4>1, <4>2, <4>3, <2>2, <2>3
          DEF ScopeIsUsable, ModelsAreTrue, ListedIsUsable, CatalogFollows
      <3>3. QED
        BY <3>1, <3>2
    <2>5. discovery'.at = "created"
      BY <1>1 DEF Warmed, NothingAsked
    <2>6. QED
      BY <2>3, <2>4, <2>5 DEF ListingTyped, NoneIsForeseen
  <1>2. CASE Discover
    <2>1. UNCHANGED <<inForce, session, noticed, scope, lists, published, outdated, admin>>
      BY <1>2 DEF Discover
    <2>2. discovery'.at # "warming"
      BY <1>2 DEF Discover
    <2>3. QED
      BY <2>1, <2>2, ElsewhereIsTrue DEF ListingTyped, NoneIsForeseen
  <1>3. CASE Discovered
    <2>1. PICK answers \in Answers(inForce, discovery.asks) :
            PublishCatalog(inForce, Cached(lists, scope, answers))
      BY <1>3 DEF Discovered
    <2>2. Cached(lists, scope, answers) \in [Supported -> Lists \cup {NoList}]
      BY CachedIsTyped DEF ListingTyped
    <2>3. UNCHANGED <<inForce, session, noticed, admin>> /\ discovery'.at = "none"
      BY <1>3 DEF Discovered, NothingAsked
    <2>4. QED
      BY <2>1, <2>2, <2>3, PublicationIsTrue DEF ListingTyped, NoneIsForeseen
  <1>4. QED
    BY <1>1, <1>2, <1>3

-----------------------------------------------------------------------------
\* A call that queues for the lock, knowing no revision but the last.
LEMMA QueuedIsTyped ==
  ASSUME ListingInvariant, NEW caller \in AdminCalls, Queued(caller),
         NEW revision \in Nat, caller.revision <= revision, session.revision <= revision
  PROVE  /\ admin' \in Seq(AdminCalls)
         /\ \A i \in 1..Len(admin') : admin'[i].revision <= revision
  <1>1. admin \in Seq(AdminCalls) /\ admin' = Append(admin, caller)
    BY DEF ListingInvariant, ListingTyped, Queued
  <1>2. ASSUME NEW i \in 1..Len(admin')
        PROVE  admin'[i].revision <= revision
    <2>1. CASE i = Len(admin) + 1
      BY <1>1, <2>1
    <2>2. CASE i \in 1..Len(admin)
      <3>1. admin'[i] = admin[i] /\ admin[i] \in AdminCalls
        BY <1>1, <2>2
      <3>2. admin[i].revision <= session.revision
        BY <2>2 DEF ListingInvariant, NoneIsForeseen
      <3>3. admin[i].revision \in Nat /\ session.revision \in Nat
        BY <3>1 DEF AdminCalls, ListingInvariant, ListingTyped
      <3>4. QED
        BY <3>1, <3>2, <3>3
    <2>3. QED
      BY <1>1, <2>1, <2>2
  <1>3. QED
    BY <1>1, <1>2

\* The requests of the Admin pages.
LEMMA AskingIsTrue ==
  ASSUME ListingInvariant,
         AskRefresh \/ AskStatus \/ AskDisconnect \/ \E s \in Applied : AskApply(s)
  PROVE  ListingInvariant'
  <1> USE DEF ListingInvariant
  <1>0. discovery.at # "warming" /\ UNCHANGED <<discovery, inForce, noticed>>
    BY DEF AskRefresh, AskStatus, AskDisconnect, AskApply, Comes
  <1>1. CASE AskRefresh
    <2>1. Call("refresh", inForce, FALSE, 0) \in AdminCalls
      BY DEF Call, AdminCalls, ListingTyped
    <2>2. Queued(Call("refresh", inForce, FALSE, 0))
      BY <1>1 DEF AskRefresh
    <2>3. /\ admin' \in Seq(AdminCalls)
          /\ \A i \in 1..Len(admin') : admin'[i].revision <= session.revision
      BY <2>1, <2>2, QueuedIsTyped DEF Call, ListingTyped
    <2>4. UNCHANGED <<inForce, session, noticed, scope, lists, published, outdated>>
      BY <1>1 DEF AskRefresh
    <2>5. QED
      BY <1>0, <2>3, <2>4, ElsewhereIsTrue DEF ListingTyped, NoneIsForeseen
  <1>2. CASE \E s \in Applied : AskApply(s)
    <2>0. PICK s \in Applied : AskApply(s)
      BY <1>2
    <2>1. Call("apply", s, FALSE, 0) \in AdminCalls
      BY DEF Call, AdminCalls
    <2>2. Queued(Call("apply", s, FALSE, 0))
      BY <2>0 DEF AskApply
    <2>3. /\ admin' \in Seq(AdminCalls)
          /\ \A i \in 1..Len(admin') : admin'[i].revision <= session.revision
      BY <2>1, <2>2, QueuedIsTyped DEF Call, ListingTyped
    <2>4. UNCHANGED <<inForce, session, noticed, scope, lists, published, outdated>>
      BY <2>0 DEF AskApply
    <2>5. QED
      BY <1>0, <2>3, <2>4, ElsewhereIsTrue DEF ListingTyped, NoneIsForeseen
  <1>3. CASE AskStatus
    <2>1. CASE session.revision = noticed
      <3>1. /\ scope' = Usable(inForce, session.connected)
            /\ lists' = Within(lists, scope')
            /\ UNCHANGED <<inForce, session, noticed, published, outdated, admin>>
        BY <1>3, <2>1 DEF AskStatus
      <3>2. QED
        BY <1>0, <3>1, ReadingIsTrue DEF ListingTyped, NoneIsForeseen
    <2>2. CASE session.revision # noticed
      <3>1. Call("changed", inForce, session.connected, session.revision) \in AdminCalls
        BY DEF Call, AdminCalls, ListingTyped
      <3>2. /\ Queued(Call("changed", inForce, session.connected, session.revision))
            /\ UNCHANGED <<inForce, session, noticed, scope, lists, published, outdated>>
        BY <1>3, <2>2 DEF AskStatus
      <3>3. /\ admin' \in Seq(AdminCalls)
            /\ \A i \in 1..Len(admin') : admin'[i].revision <= session.revision
        BY <3>1, <3>2, QueuedIsTyped DEF Call, ListingTyped
      <3>4. QED
        BY <1>0, <3>2, <3>3, ElsewhereIsTrue DEF ListingTyped, NoneIsForeseen
    <2>3. QED
      BY <2>1, <2>2
  <1>4. CASE AskDisconnect
    <2>1. Call("changed", inForce, FALSE, session.revision + 1) \in AdminCalls
      BY DEF Call, AdminCalls, ListingTyped
    <2>2. /\ Queued(Call("changed", inForce, FALSE, session.revision + 1))
          /\ session' = [connected |-> FALSE, revision |-> session.revision + 1]
          /\ UNCHANGED <<inForce, noticed, scope, lists, published, outdated>>
      BY <1>4 DEF AskDisconnect
    <2>3. /\ admin' \in Seq(AdminCalls)
          /\ \A i \in 1..Len(admin') : admin'[i].revision <= session.revision + 1
      <3> DEFINE later == session.revision + 1
                 caller == Call("changed", inForce, FALSE, later)
      <3>1. later \in Nat /\ session.revision <= later /\ caller.revision <= later
        BY DEF Call, ListingTyped
      <3>2. caller \in AdminCalls /\ Queued(caller)
        BY <2>1, <2>2
      <3> HIDE DEF later, caller
      <3>3. admin' \in Seq(AdminCalls) /\ \A i \in 1..Len(admin') : admin'[i].revision <= later
        BY <3>1, <3>2, QueuedIsTyped
      <3>4. QED
        BY <3>3 DEF later
    <2>4. noticed' <= session'.revision /\ noticed' # session'.revision
      BY <2>2 DEF ListingTyped, NoneIsForeseen
    <2>5. session' \in [connected : BOOLEAN, revision : Nat \ {0}]
      BY <2>2 DEF ListingTyped
    <2>6. session'.revision = session.revision + 1
      BY <2>2
    <2>7. ListingTyped' /\ NoneIsForeseen'
      BY <1>0, <2>2, <2>3, <2>4, <2>5, <2>6 DEF ListingTyped, NoneIsForeseen
    <2>8. ScopeIsUsable' /\ ModelsAreTrue'
      BY <1>0, <2>2, <2>4 DEF ScopeIsUsable, ModelsAreTrue, ListedIsUsable, CatalogFollows
    <2>9. QED
      BY <2>7, <2>8
  <1>5. QED
    BY <1>1, <1>2, <1>3, <1>4

\* The holder of the lock is as it queued.
LEMMA HolderIsTyped ==
  ASSUME ListingInvariant, admin # <<>>
  PROVE  /\ Head(admin) \in AdminCalls
         /\ Head(admin).revision <= session.revision
         /\ Tail(admin) \in Seq(AdminCalls)
         /\ \A i \in 1..Len(Tail(admin)) : Tail(admin)[i].revision <= session.revision
  <1>1. admin \in Seq(AdminCalls) /\ Len(admin) >= 1
    BY DEF ListingInvariant, ListingTyped
  <1>2. \A i \in 1..Len(admin) : admin[i].revision <= session.revision
    BY DEF ListingInvariant, NoneIsForeseen
  <1>3. Head(admin) = admin[1] /\ Head(admin) \in AdminCalls
    BY <1>1
  <1>4. /\ Tail(admin) \in Seq(AdminCalls)
        /\ \A i \in 1..Len(Tail(admin)) : Tail(admin)[i] = admin[i + 1] /\ i + 1 \in 1..Len(admin)
    BY <1>1
  <1>5. QED
    BY <1>1, <1>2, <1>3, <1>4

\* A call under the lock that only begins.
LEMMA BeginningIsTrue ==
  ASSUME ListingInvariant, RefreshBegins \/ AddBegins
  PROVE  ListingInvariant'
  <1> USE DEF ListingInvariant
  <1>1. PICK asks \in SUBSET (Supported \cup Custom) : Begins(asks)
    <2>1. WorthAsking(inForce) \subseteq Supported
      BY ListingConstants DEF WorthAsking, Usable, ListingTyped
    <2>2. {Account} \subseteq Supported
      BY ListingConstants
    <2>3. QED
      BY <2>1, <2>2 DEF RefreshBegins, AddBegins
  <1>2. admin # <<>>
    BY DEF RefreshBegins, AddBegins, Holds
  <1> DEFINE caller == [admin[1] EXCEPT !.begun = TRUE, !.asks = asks]
  <1>3. /\ admin \in Seq(AdminCalls) /\ 1 \in 1..Len(admin) /\ admin[1] \in AdminCalls
        /\ admin' = [admin EXCEPT ![1] = caller]
    <2>1. admin' = [admin EXCEPT ![1].begun = TRUE, ![1].asks = asks]
      BY <1>1 DEF Begins
    <2>2. admin \in Seq(AdminCalls) /\ 1 \in 1..Len(admin) /\ admin[1] \in AdminCalls
      BY <1>2 DEF ListingTyped
    <2>3. QED
      BY <2>1, <2>2
  <1>10. caller \in AdminCalls /\ caller.revision = admin[1].revision
    BY <1>3 DEF AdminCalls
  <1> HIDE DEF caller
  <1>4. admin' \in Seq(AdminCalls) /\ Len(admin') = Len(admin)
    BY <1>3, <1>10
  <1>5. \A i \in 1..Len(admin) : admin'[i].revision = admin[i].revision
    BY <1>3, <1>10
  <1>6. UNCHANGED <<inForce, session, noticed, lists, published, outdated>>
    BY DEF RefreshBegins, AddBegins
  <1>7. discovery'.at # "warming"
    BY <1>2 DEF RefreshBegins, AddBegins, Cancelled, NothingAsked, NoneIsForeseen
  <1>8. scope' \subseteq scope \cup {Account}
    BY DEF RefreshBegins, AddBegins
  <1>9. QED
    BY <1>2, <1>4, <1>5, <1>6, <1>7, <1>8
    DEF ListingTyped, NoneIsForeseen, ScopeIsUsable, ModelsAreTrue, ListedIsUsable, CatalogFollows

\* A call under the lock that publishes and leaves.
LEMMA PublishingIsTrue ==
  ASSUME ListingInvariant, RefreshEnds \/ Replace \/ Evict \/ AddEnds
  PROVE  ListingInvariant'
  <1> USE DEF ListingInvariant
  <1>1. admin # <<>> /\ admin' = Tail(admin) /\ session' = session
    BY DEF RefreshEnds, Replace, Evict, AddEnds, Holds, Leaves
  <1>2. inForce' \in Applied
    BY <1>1, HolderIsTyped DEF RefreshEnds, Replace, Evict, AddEnds, AdminCalls, ListingTyped
  <1>3. PICK cache \in [Supported -> Lists \cup {NoList}] : PublishCatalog(inForce', cache)
    <2>1. CASE RefreshEnds
      <3>1. PICK answers \in Answers(inForce, Head(admin).asks) :
              PublishCatalog(inForce, Cached(lists, scope, answers))
        BY <2>1 DEF RefreshEnds
      <3>2. Cached(lists, scope, answers) \in [Supported -> Lists \cup {NoList}]
        BY CachedIsTyped DEF ListingTyped
      <3>3. QED
        BY <2>1, <3>1, <3>2 DEF RefreshEnds
    <2>2. CASE Replace
      BY <2>2 DEF Replace, ListingTyped
    <2>3. CASE Evict
      <3>1. [lists EXCEPT ![Account] = NoList] \in [Supported -> Lists \cup {NoList}]
        BY DEF ListingTyped
      <3>2. QED
        BY <2>3, <3>1 DEF Evict
    <2>4. CASE AddEnds
      <3>1. PICK answers \in Answers(inForce, {Account}) :
              PublishCatalog(inForce, Cached(lists, scope, answers))
        BY <2>4 DEF AddEnds
      <3>2. Cached(lists, scope, answers) \in [Supported -> Lists \cup {NoList}]
        BY CachedIsTyped DEF ListingTyped
      <3>3. QED
        BY <2>4, <3>1, <3>2 DEF AddEnds
    <2>5. QED
      BY <2>1, <2>2, <2>3, <2>4
  <1>4. /\ lists' \in [Supported -> Lists \cup {NoList}]
        /\ ScopeIsUsable'
        /\ ModelsAreTrue'
    BY <1>1, <1>2, <1>3, PublicationIsTrue
  <1>5. noticed' \in Nat /\ noticed' <= session.revision
    BY <1>1, HolderIsTyped
    DEF RefreshEnds, Replace, Evict, AddEnds, AdminCalls, ListingTyped, NoneIsForeseen
  <1>6. discovery'.at # "warming"
    BY <1>1 DEF RefreshEnds, Replace, Evict, AddEnds, NothingAsked, NoneIsForeseen
  <1>7. QED
    BY <1>1, <1>2, <1>4, <1>5, <1>6, HolderIsTyped DEF ListingTyped, NoneIsForeseen

\* The answer of a provider test, a reader, and a change of the account.
LEMMA UnlockedIsTrue ==
  ASSUME ListingInvariant,
         \/ \E p \in Supported \cup Custom : Test(p)
         \/ \E t \in testing : Tested(t)
         \/ ListModels \/ SessionChanges \/ SessionReturns
  PROVE  ListingInvariant'
  <1> USE DEF ListingInvariant
  <1>1. CASE \E p \in Supported \cup Custom : Test(p)
    <2>1. UNCHANGED <<inForce, session, noticed, scope, lists, published, outdated, discovery, admin>>
      BY <1>1 DEF Test
    <2>2. QED
      BY <2>1, ElsewhereIsTrue DEF ListingTyped, NoneIsForeseen
  <1>2. CASE \E t \in testing : Tested(t)
    <2>0. PICK t \in testing : Tested(t)
      BY <1>2
    <2>1. UNCHANGED <<inForce, session, noticed, discovery, admin>>
      BY <2>0 DEF Tested
    <2>2. PICK answers \in Answers(t.with, {t.about}) :
            IF answers[t.about] = NoList
            THEN UNCHANGED <<scope, lists, published, outdated>>
            ELSE PublishCatalog(inForce, Cached(lists, scope, answers))
      BY <2>0 DEF Tested
    <2>3. Cached(lists, scope, answers) \in [Supported -> Lists \cup {NoList}]
      BY CachedIsTyped DEF ListingTyped
    <2>4. /\ lists' \in [Supported -> Lists \cup {NoList}]
          /\ ScopeIsUsable'
          /\ ModelsAreTrue'
      <3>1. CASE answers[t.about] = NoList
        BY <3>1, <2>1, <2>2, ElsewhereIsTrue
      <3>2. CASE answers[t.about] # NoList
        BY <3>2, <2>1, <2>2, <2>3, PublicationIsTrue DEF ListingTyped
      <3>3. QED
        BY <3>1, <3>2
    <2>5. QED
      BY <2>1, <2>4 DEF ListingTyped, NoneIsForeseen
  <1>3. CASE ListModels
    <2>1. /\ scope' = Usable(inForce, session.connected)
          /\ lists' = Within(lists, scope')
          /\ UNCHANGED <<inForce, session, noticed, published, outdated, discovery, admin>>
      BY <1>3 DEF ListModels
    <2>2. QED
      BY <2>1, ReadingIsTrue DEF ListingTyped, NoneIsForeseen
  <1>4. CASE SessionChanges
    <2>1. /\ session' = [connected |-> ~session.connected, revision |-> session.revision + 1]
          /\ UNCHANGED <<inForce, noticed, scope, lists, published, outdated, discovery, admin>>
      BY <1>4 DEF SessionChanges
    <2>2. session' \in [connected : BOOLEAN, revision : Nat \ {0}]
      BY <2>1 DEF ListingTyped
    <2>3. noticed' <= session'.revision /\ noticed' # session'.revision
      BY <2>1 DEF ListingTyped, NoneIsForeseen
    <2>4. \A i \in 1..Len(admin) : admin[i].revision <= session'.revision
      <3>1. \A i \in 1..Len(admin) : admin[i] \in AdminCalls
        BY DEF ListingTyped
      <3>2. QED
        BY <2>1, <3>1 DEF ListingTyped, AdminCalls, NoneIsForeseen
    <2>5. QED
      BY <2>1, <2>2, <2>3, <2>4
      DEF ListingTyped, NoneIsForeseen, ScopeIsUsable, ModelsAreTrue, ListedIsUsable, CatalogFollows
  <1>5. CASE SessionReturns
    <2>1. /\ ~session.connected /\ session'.connected /\ session'.revision = session.revision
          /\ session' \in [connected : BOOLEAN, revision : Nat \ {0}]
          /\ UNCHANGED <<inForce, noticed, scope, lists, published, outdated, discovery, admin>>
      BY <1>5 DEF SessionReturns, ListingTyped
    <2>2. ListingTyped' /\ NoneIsForeseen' /\ ScopeIsUsable' /\ ListedIsUsable'
      BY <2>1 DEF ListingTyped, NoneIsForeseen, ScopeIsUsable, ModelsAreTrue, ListedIsUsable
    <2>3. ASSUME ~outdated, noticed = session.revision
          PROVE  Within(lists, Usable(inForce, TRUE)) = Within(lists, Usable(inForce, FALSE))
      <3>1. lists[Account] = NoList
        BY <2>1, <2>3 DEF ModelsAreTrue, ListedIsUsable
      <3>2. QED
        BY <3>1 DEF Within, Usable
    <2>4. CatalogFollows'
      <3>1. SUFFICES ASSUME ~outdated, noticed = session.revision
                     PROVE  published.says = Inventory(inForce, Within(lists, Usable(inForce, TRUE)))
        BY <2>1 DEF CatalogFollows, Usable, Inventory, Within
      <3>2. published.says = Inventory(inForce, Within(lists, Usable(inForce, FALSE)))
        BY <2>1, <3>1 DEF ModelsAreTrue, CatalogFollows, Usable
      <3>3. QED
        BY <2>3, <3>1, <3>2
    <2>5. QED
      BY <2>2, <2>4 DEF ModelsAreTrue
  <1>6. QED
    BY <1>1, <1>2, <1>3, <1>4, <1>5

-----------------------------------------------------------------------------
LEMMA ListingStays == ListingInvariant /\ [ListingNext]_listingVars => ListingInvariant'
  <1> SUFFICES ASSUME ListingInvariant, [ListingNext]_listingVars PROVE ListingInvariant'
    OBVIOUS
  <1>1. CASE UNCHANGED listingVars
    <2>1. UNCHANGED <<inForce, session, noticed, scope, lists, published, outdated, discovery, admin>>
      BY <1>1 DEF listingVars
    <2>2. QED
      BY <2>1, ElsewhereIsTrue DEF ListingInvariant, ListingTyped, NoneIsForeseen
  <1>2. CASE Warmed \/ Discover \/ Discovered
    BY <1>2, DiscoveryIsTrue
  <1>3. CASE AskRefresh \/ AskStatus \/ AskDisconnect \/ \E s \in Applied : AskApply(s)
    BY <1>3, AskingIsTrue
  <1>4. CASE RefreshBegins \/ AddBegins
    BY <1>4, BeginningIsTrue
  <1>5. CASE RefreshEnds \/ Replace \/ Evict \/ AddEnds
    BY <1>5, PublishingIsTrue
  <1>6. CASE ReplaceFails
    <2>1. /\ UNCHANGED <<inForce, session, noticed, scope, lists, published, outdated>>
          /\ admin # <<>> /\ admin' = Tail(admin)
          /\ discovery'.at = "warming" => discovery.at = "warming"
      BY <1>6 DEF ReplaceFails, Holds, Leaves, Cancelled, NothingAsked
    <2>2. QED
      BY <2>1, HolderIsTyped, ElsewhereIsTrue DEF ListingInvariant, ListingTyped, NoneIsForeseen
  <1>7. CASE \/ \E p \in Supported \cup Custom : Test(p)
             \/ \E t \in testing : Tested(t)
             \/ ListModels \/ SessionChanges \/ SessionReturns
    BY <1>7, UnlockedIsTrue
  <1>8. QED
    BY <1>1, <1>2, <1>3, <1>4, <1>5, <1>6, <1>7 DEF ListingNext

\* Nothing is listed of a provider that the settings in force are not complete
\* for or of an account whose end was acted on, and the catalog file says what
\* the process lists (runtime/provider_manager.py).
THEOREM ModelsStayTrue == ListingSpec => []ModelsAreTrue
  <1>1. ListingInvariant => ModelsAreTrue
    BY DEF ListingInvariant
  <1>2. QED
    BY <1>1, ListingStarts, ListingStays, PTL DEF ListingSpec
==============================================================================
