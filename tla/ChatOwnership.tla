--------------------------- MODULE ChatOwnership ---------------------------
(***************************************************************************)
(* Who owns the messages of one chat: prompts, voice notes on their way to *)
(* becoming turns, the status messages Claudey posts for them, the startup *)
(* notice; and the commands that cross all of it, /stop and /clear, typed  *)
(* or spoken, for the chat or in reply to a message.                       *)
(*                                                                         *)
(* Sources: messaging/{voice, workflow, turn_intake, commands,             *)
(* transcription}.py, platforms/voice_flow.py,                             *)
(* session/managed_message_log.py.                                         *)
(*                                                                         *)
(* What a turn does once it is in a tree is in ConversationTrees, how      *)
(* messages reach the platform in MessagingDelivery.  The text of messages *)
(* and the error replies sent outside the log are left out.                *)
(***************************************************************************)
EXTENDS Integers, Sequences, FiniteSets

CONSTANTS
  Prompts,    \* typed prompts
  Flows,      \* deliveries of voice notes to the voice flow
  Note,       \* by flow, the message id of its voice note; two flows may share one
  Commands,   \* typed commands
  Says,       \* what a voice note may turn out to say: "prompt", "stop", "clear"
  Kinds,      \* what the typed commands may be: see Issue
  RepliesTo   \* by turn, the turn it replies to, or NoTurn

Turns == Prompts \cup Flows
Callers == Commands \cup Flows
NoTurn == 0

ASSUME ChatOwnershipConstants ==
  /\ Prompts \cap Flows = {} /\ Commands \cap Turns = {} /\ NoTurn \notin Turns
  /\ Says \subseteq {"prompt", "stop", "clear"}
  /\ Kinds \subseteq {"stop", "clear", "stopReply", "clearReply"}
  /\ RepliesTo \in [Turns -> Turns \cup {NoTurn}]
  /\ \A f \in Flows : Note[f] \notin Prompts

VARIABLES
  flow,       \* where each delivery of a voice note is
  registry,   \* claims of the PendingVoiceRegistry
  bound,      \* those whose status message is bound
  shielded,   \* claims of _active_cancellations
  cancelled,  \* handoff tasks that were cancelled
  says,       \* what a note said
  turn,       \* where the intake of a turn is
  token,      \* its AdmissionToken
  parent,     \* the turn its reply resolved to, or NoTurn
  node,       \* its place in the trees: "none", "live", "stopped" or "removed"
  op,         \* the operation of a command: where it is, its kind and target
  joins,      \* claims it took over
  deletes,    \* messages it is to delete
  notice,     \* the startup notice: where it is, and the clear generation it saw
  onChat,     \* messages in the chat
  tracked,    \* the managed message log
  stopGen, clearGen,
  refused,    \* ghost: messages the platform refused to delete
  dropped,    \* ghost: notes whose claim was taken over or given up
  ended       \* ghost: turns and notes a finished stop or clear has dealt with

chatOwnershipVars ==
  <<flow, registry, bound, shielded, cancelled, says, turn, token, parent, node, op, joins,
    deletes, notice, onChat, tracked, stopGen, clearGen, refused, dropped, ended>>

-----------------------------------------------------------------------------
\* Messages: those of users, the status message of a turn, the notice.
UserMessage(x) == <<"user", IF x \in Flows THEN Note[x] ELSE x>>
Status(x) == <<"status", x>>
Notice == <<"notice", NoTurn>>
MessagesOf(x) == {UserMessage(x), Status(x)}

InTree(x) == node[x] \in {"live", "stopped"}

NoOp == [at |-> "idle", kind |-> "none", target |-> NoTurn]

ChatOwnershipInit ==
  /\ flow = [f \in Flows |-> "idle"]
  /\ registry = {} /\ bound = {} /\ shielded = {} /\ cancelled = {}
  /\ says = [f \in Flows |-> "prompt"]
  /\ turn = [x \in Turns |-> "idle"]
  /\ token = [x \in Turns |-> <<0, 0>>]
  /\ parent = [x \in Turns |-> NoTurn]
  /\ node = [x \in Turns |-> "none"]
  /\ op = [c \in Callers |-> NoOp]
  /\ joins = [c \in Callers |-> {}]
  /\ deletes = [c \in Callers |-> {}]
  /\ notice = [at |-> "idle", gen |-> 0]
  /\ onChat = {} /\ tracked = {}
  /\ stopGen = 0 /\ clearGen = 0
  /\ refused = {} /\ dropped = {} /\ ended = {}

voiceVars == <<flow, registry, bound, shielded, cancelled, says>>
turnVars == <<turn, token, parent, node>>
opVars == <<op, joins, deletes, ended>>
chatVars == <<onChat, tracked, refused>>
gens == <<stopGen, clearGen>>

\* A best-effort deletion: the platform may refuse any of the messages.
Delete(messages) ==
  \E no \in {{}, messages \cap onChat} :
    /\ onChat' = onChat \ (messages \ no)
    /\ refused' = refused \cup no

-----------------------------------------------------------------------------
\* The flow of a voice note.
Go(f, place) == flow' = [flow EXCEPT ![f] = place]

\* The note is delivered and its claim reserved, unless the same note is pending.
Reserve(f) ==
  /\ flow[f] = "idle"
  /\ onChat' = IF UserMessage(f) \in refused \cup onChat
                    \/ \E g \in Flows \ {f} : Note[g] = Note[f] /\ flow[g] # "idle"
               THEN onChat ELSE onChat \cup {UserMessage(f)}
  /\ IF \E g \in registry : Note[g] = Note[f]
       THEN Go(f, "done") /\ UNCHANGED registry
       ELSE Go(f, "posting") /\ registry' = registry \cup {f}
  /\ UNCHANGED <<bound, shielded, cancelled, says, turnVars, opVars, tracked, refused, gens,
                 notice, dropped>>

\* _clear_failed_pending_voice before the handoff: the claim is discarded, and the status message
\* deleted by whoever still owns it.
GiveUp(f) ==
  /\ registry' = registry \ {f}
  /\ dropped' = dropped \cup {f}
  /\ Go(f, "done")
  /\ IF f \in registry \/ f \notin bound THEN Delete({Status(f)})
     ELSE UNCHANGED <<onChat, refused>>
  /\ UNCHANGED <<bound, shielded, cancelled, says, turnVars, opVars, tracked, gens, notice>>

\* The status message is delivered, or could not be.
PostStatus(f) ==
  /\ flow[f] = "posting"
  /\ Go(f, "binding")
  /\ onChat' = onChat \cup {Status(f)}
  /\ UNCHANGED <<registry, bound, shielded, cancelled, says, turnVars, opVars, tracked, refused,
                 gens, notice, dropped>>

BindStatus(f) ==
  /\ flow[f] = "binding" /\ f \in registry
  /\ bound' = bound \cup {f}
  /\ Go(f, "waiting")
  /\ UNCHANGED <<registry, shielded, cancelled, says, turnVars, opVars, chatVars, gens, notice,
                 dropped>>

\* Transcriptions run one at a time, in a thread that is never interrupted.
Transcribe(f) ==
  /\ flow[f] = "waiting"
  /\ \A g \in Flows : flow[g] # "transcribing"
  /\ Go(f, "transcribing")
  /\ UNCHANGED <<registry, bound, shielded, cancelled, says, turnVars, opVars, chatVars, gens,
                 notice, dropped>>

\* The handoff is published if the claim still stands: its task runs the workflow.
Handoff(f) ==
  /\ flow[f] = "transcribing" /\ f \in registry
  /\ \E s \in Says : says' = [says EXCEPT ![f] = s]
  /\ Go(f, "handler")
  /\ UNCHANGED <<registry, bound, shielded, cancelled, turnVars, opVars, chatVars, gens, notice,
                 dropped>>

\* The delivery of the status, the binding, the transcription or the handoff failed, or its
\* caller was cancelled: the claim is given up.
Abort(f) ==
  /\ \/ flow[f] \in {"posting", "waiting", "transcribing"}
     \/ flow[f] = "binding" /\ f \notin registry
  /\ GiveUp(f)

\* The task of the handoff is over; its flow removes the claim it may still own.
Idle(f) == turn[f] \in {"idle", "over", "failed"} /\ op[f].at \in {"idle", "done"}
FinishHandoff(f) ==
  /\ flow[f] = "handler" /\ Idle(f) /\ (f \in cancelled \/ turn[f] \in {"over", "failed"} \/ op[f].at = "done")
  /\ registry' = registry \ {f}
  /\ Go(f, "done")
  /\ UNCHANGED <<bound, shielded, cancelled, says, turnVars, opVars, chatVars, gens, notice, dropped>>

-----------------------------------------------------------------------------
\* Turns.  A prompt, or the handoff of a note that is one, is received: its message is recorded
\* and the generations are read, under the state lock.
MayReceive(x) == IF x \in Flows THEN flow[x] = "handler" /\ says[x] = "prompt" /\ x \notin cancelled
                 ELSE TRUE
Receive(x) ==
  /\ turn[x] = "idle" /\ MayReceive(x)
  /\ turn' = [turn EXCEPT ![x] = "received"]
  /\ token' = [token EXCEPT ![x] = <<stopGen, clearGen>>]
  /\ onChat' = IF x \in Prompts THEN onChat \cup {UserMessage(x)} ELSE onChat
  /\ tracked' = tracked \cup {UserMessage(x)}
  /\ UNCHANGED <<voiceVars, parent, node, opVars, refused, gens, notice, dropped>>

\* The reply is resolved and the status message delivered, or edited when the note has one.
ShowStatus(x) ==
  /\ turn[x] = "received" /\ x \notin cancelled
  /\ turn' = [turn EXCEPT ![x] = "admitting"]
  /\ LET to == RepliesTo[x]
     IN  parent' = [parent EXCEPT ![x] = IF to # NoTurn /\ InTree(to) THEN to ELSE NoTurn]
  /\ onChat' = IF x \in Prompts THEN onChat \cup {Status(x)} ELSE onChat
  /\ tracked' = tracked \cup {Status(x)}
  /\ UNCHANGED <<voiceVars, token, node, opVars, refused, gens, notice, dropped>>

\* The platform does not take the status message, or its edit: the turn ends there, and what may
\* be on the chat, the status of a voice note surely, is not recorded.
StatusFails(x) ==
  /\ turn[x] = "received" /\ x \notin cancelled
  /\ turn' = [turn EXCEPT ![x] = "failed"]
  /\ \/ UNCHANGED onChat
     \/ x \in Prompts /\ onChat' = onChat \cup {Status(x)}
  /\ UNCHANGED <<voiceVars, token, parent, node, opVars, tracked, refused, gens, notice, dropped>>

\* A cancelled handoff ends at its next wait; an admission under way is finished first.
Unwind(f) ==
  /\ turn[f] = "received" /\ f \in cancelled
  /\ turn' = [turn EXCEPT ![f] = "over"]
  /\ UNCHANGED <<voiceVars, token, parent, node, opVars, chatVars, gens, notice, dropped>>

\* Whether no stop and no clear of the chat has crossed the turn since it was received.
NotCleared(x) == token[x][2] = clearGen
NotCrossed(x) == token[x] = <<stopGen, clearGen>>

Duplicate(x) == \E y \in Turns \ {x} : UserMessage(y) = UserMessage(x) /\ InTree(y)
ParentRemoved(x) == parent[x] # NoTurn /\ ~InTree(parent[x])

\* Admission under the state lock.
Admit(x) ==
  /\ turn[x] = "admitting"
  /\ IF NotCrossed(x) /\ ~Duplicate(x) /\ ~ParentRemoved(x)
       THEN /\ node' = [node EXCEPT ![x] = "live"]
            /\ turn' = [turn EXCEPT ![x] = "over"]
       ELSE /\ turn' = [turn EXCEPT ![x] = IF NotCrossed(x) /\ ~Duplicate(x) THEN "orphaned"
                                          ELSE "rejected"]
            /\ UNCHANGED node
  /\ UNCHANGED <<voiceVars, token, parent, opVars, chatVars, gens, notice, dropped>>

\* _discard_rejected_messages: the status, and the prompt whose parent was removed.
Unadmitted == {"rejected", "orphaned"}
Discarded(x) == {Status(x)} \cup (IF turn[x] = "orphaned" THEN {UserMessage(x)} ELSE {})
Discard(x) ==
  /\ turn[x] \in Unadmitted /\ x \notin cancelled
  /\ turn' = [turn EXCEPT ![x] = "over"]
  /\ Delete(Discarded(x))
  /\ tracked' = tracked \ Discarded(x)
  /\ UNCHANGED <<voiceVars, token, parent, node, opVars, gens, notice, dropped>>

\* Of a cancelled handoff nothing is forgotten, nor deleted unless that had begun.
UnwindRejected(f) ==
  /\ turn[f] \in Unadmitted /\ f \in cancelled
  /\ turn' = [turn EXCEPT ![f] = "over"]
  /\ Delete(Discarded(f)) \/ UNCHANGED <<onChat, refused>>
  /\ UNCHANGED <<voiceVars, token, parent, node, opVars, tracked, gens, notice, dropped>>

-----------------------------------------------------------------------------
\* Commands.  A typed command arrives and is recorded, except a /clear of the chat; a spoken one
\* is what a handoff runs.  Its operation is a task of its own that nothing interrupts.
Issue(c, kind, target) ==
  /\ op[c].at = "idle"
  /\ IF c \in Flows THEN flow[c] = "handler" /\ says[c] = kind /\ c \notin cancelled
     ELSE kind \in Kinds
  /\ IF kind \in {"stopReply", "clearReply"} THEN UserMessage(target) \in onChat ELSE target = NoTurn
  /\ op' = [op EXCEPT ![c] = [at |-> "asked", kind |-> kind, target |-> target]]
  /\ onChat' = IF c \in Commands THEN onChat \cup {UserMessage(c)} ELSE onChat
  /\ tracked' = IF kind = "clear" THEN tracked ELSE tracked \cup {UserMessage(c)}
  /\ UNCHANGED <<voiceVars, turnVars, joins, deletes, refused, gens, notice, dropped, ended>>

\* The claims a command takes over: never its own, nor one whose handoff is cancelling others.
ExcludesItself(f, c) == f = c
Excluded(f, c) == f = c \/ f \in shielded
Taken(c) ==
  {f \in registry : /\ ~Excluded(f, c)
                    /\ op[c].kind \in {"stop", "clear"} \/ Note[f] = UserMessage(op[c].target)[2]}

VoiceDeletes(c) == UNION {{UserMessage(f)} \cup (IF f \in bound THEN {Status(f)} ELSE {}) : f \in Taken(c)}

\* The claims are removed and their handoffs cancelled.
TakeOver(c) ==
  /\ op[c].at = "asked"
  /\ op' = [op EXCEPT ![c].at = "joining"]
  /\ shielded' = IF c \in Flows THEN shielded \cup {c} ELSE shielded
  /\ joins' = [joins EXCEPT ![c] = Taken(c)]
  /\ deletes' = [deletes EXCEPT ![c] = VoiceDeletes(c)]
  /\ registry' = registry \ Taken(c)
  /\ cancelled' = cancelled \cup {f \in Taken(c) : flow[f] = "handler"}
  /\ dropped' = dropped \cup Taken(c)
  /\ UNCHANGED <<flow, bound, says, turnVars, chatVars, gens, notice, ended>>

\* The cancelled handoffs have ended.
Join(c) ==
  /\ op[c].at = "joining"
  /\ \A f \in joins[c] : flow[f] = "handler" => Idle(f)
  /\ op' = [op EXCEPT ![c].at = "joined"]
  /\ shielded' = shielded \ {c}
  /\ UNCHANGED <<flow, registry, bound, cancelled, says, turnVars, joins, deletes, chatVars, gens,
                 notice, dropped, ended>>

Descendants(x) ==
  {y \in Turns : InTree(y) /\ \/ y = x \/ parent[y] = x
                              \/ parent[y] # NoTurn /\ parent[parent[y]] = x}

\* The turns of the trees a command is about.
Named(c) == {x \in Turns : InTree(x) /\ UserMessage(x) = UserMessage(op[c].target)}
Affected(c) == IF op[c].kind \in {"stop", "clear"} THEN {x \in Turns : InTree(x)}
               ELSE IF op[c].kind = "stopReply" THEN Named(c)
               ELSE UNION {Descendants(x) : x \in Named(c)}

\* What the operation had to end: its turns, and those received and not yet admitted.
Old(c) == joins[c] \cup Affected(c) \cup
          (IF op[c].kind \in {"stop", "clear"} THEN {x \in Turns : turn[x] # "idle"} ELSE {})

\* The transaction of a stop, under the state lock.
CommitStop(c) ==
  /\ op[c].at = "joined" /\ op[c].kind \in {"stop", "stopReply"}
  /\ op' = [op EXCEPT ![c].at = "done"]
  /\ stopGen' = IF op[c].kind = "stop" THEN stopGen + 1 ELSE stopGen
  /\ node' = [x \in Turns |-> IF x \in Affected(c) THEN "stopped" ELSE node[x]]
  /\ ended' = ended \cup Old(c)
  /\ UNCHANGED <<voiceVars, turn, token, parent, joins, deletes, chatVars, clearGen, notice, dropped>>

\* The transaction of a clear: what is to be deleted is read before anything is removed.  A clear
\* of the chat empties the log; one in reply only deletes, and forgets afterwards.
CommitClear(c) ==
  LET all == op[c].kind = "clear"
      ofTrees == UNION {MessagesOf(x) : x \in Affected(c)}
  IN  /\ op[c].at = "joined" /\ op[c].kind \in {"clear", "clearReply"}
      /\ op' = [op EXCEPT ![c].at = "deleting"]
      /\ clearGen' = IF all THEN clearGen + 1 ELSE clearGen
      /\ deletes' = [deletes EXCEPT ![c] =
                       @ \cup ofTrees \cup {UserMessage(c)} \cup (IF all THEN tracked ELSE {})]
      /\ tracked' = IF all THEN {} ELSE tracked
      /\ node' = [x \in Turns |-> IF x \in Affected(c) THEN "removed" ELSE node[x]]
      /\ ended' = ended \cup Old(c)
      /\ UNCHANGED <<voiceVars, turn, token, parent, joins, onChat, refused, stopGen, notice, dropped>>

DeleteAll(c) ==
  /\ op[c].at = "deleting"
  /\ op' = [op EXCEPT ![c].at = "done"]
  /\ Delete(deletes[c])
  /\ tracked' = IF op[c].kind = "clearReply" THEN tracked \ deletes[c] ELSE tracked
  /\ UNCHANGED <<voiceVars, turnVars, joins, deletes, gens, notice, dropped, ended>>

-----------------------------------------------------------------------------
\* The startup notice.
SendNotice ==
  /\ notice.at = "idle"
  /\ notice' = [at |-> "sending", gen |-> clearGen]
  /\ UNCHANGED <<voiceVars, turnVars, opVars, chatVars, gens, dropped>>

DeliverNotice ==
  /\ notice.at = "sending"
  /\ notice' = [notice EXCEPT !.at = "delivered"]
  /\ onChat' = onChat \cup {Notice}
  /\ UNCHANGED <<voiceVars, turnVars, opVars, tracked, refused, gens, dropped>>

\* It is recorded unless a clear of the chat, or a cancelled start, has crossed it.
FinalizeNotice ==
  /\ notice.at = "delivered"
  /\ \/ /\ notice.gen = clearGen
        /\ notice' = [notice EXCEPT !.at = "done"]
        /\ tracked' = tracked \cup {Notice}
     \/ notice' = [notice EXCEPT !.at = "discarding"] /\ UNCHANGED tracked
  /\ UNCHANGED <<voiceVars, turnVars, opVars, onChat, refused, gens, dropped>>

ForgetsUndeleted ==
  /\ notice.at = "discarding"
  /\ notice' = [notice EXCEPT !.at = "done"]
  /\ tracked' = tracked \ {Notice}
  /\ onChat' = onChat \ {Notice} \/ UNCHANGED onChat
  /\ UNCHANGED <<voiceVars, turnVars, opVars, refused, gens, dropped>>

\* A notice that could not be deleted is recorded for a later clear.
DiscardNotice ==
  /\ notice.at = "discarding"
  /\ notice' = [notice EXCEPT !.at = "done"]
  /\ \/ onChat' = onChat \ {Notice} /\ tracked' = tracked \ {Notice}
     \/ tracked' = tracked \cup {Notice} /\ UNCHANGED onChat
  /\ UNCHANGED <<voiceVars, turnVars, opVars, refused, gens, dropped>>

-----------------------------------------------------------------------------
FlowStep(f) ==
  \/ PostStatus(f) \/ BindStatus(f) \/ Transcribe(f) \/ Handoff(f) \/ Abort(f) \/ FinishHandoff(f)
TurnStep(x) ==
  \/ ShowStatus(x) \/ StatusFails(x) \/ Admit(x) \/ Discard(x)
  \/ x \in Flows /\ (Unwind(x) \/ UnwindRejected(x))
CommandStep(c) == TakeOver(c) \/ Join(c) \/ CommitStop(c) \/ CommitClear(c) \/ DeleteAll(c)
SpokenStep(f) == Receive(f) \/ \E kind \in {"stop", "clear"} : Issue(f, kind, NoTurn)

ChatOwnershipNext ==
  \/ \E f \in Flows : Reserve(f) \/ FlowStep(f) \/ SpokenStep(f)
  \/ \E x \in Prompts : Receive(x)
  \/ \E x \in Turns : TurnStep(x)
  \/ \E c \in Commands, kind \in Kinds, x \in Turns \cup {NoTurn} : Issue(c, kind, x)
  \/ \E c \in Callers : CommandStep(c)
  \/ SendNotice \/ DeliverNotice \/ FinalizeNotice \/ DiscardNotice

\* The event loop runs what was begun; notes, prompts and commands come as they like.
ChatFairness ==
  /\ \A f \in Flows : WF_chatOwnershipVars(FlowStep(f) \/ SpokenStep(f))
  /\ \A x \in Turns : WF_chatOwnershipVars(TurnStep(x))
  /\ \A c \in Callers : WF_chatOwnershipVars(CommandStep(c))

ChatOwnershipSpec ==
  ChatOwnershipInit /\ [][ChatOwnershipNext]_chatOwnershipVars /\ ChatFairness

-----------------------------------------------------------------------------
\* What a stop or clear has ended stays ended: no turn that was received before it, and no voice
\* note that it took over, is live afterwards, wherever its handoff or its admission was
\* (voice.py, "Own atomic reservation, cancellation, and handoff"; workflow.py, _admit_if_current).
EndedStaysEnded == \A x \in ended : node[x] # "live"

\* Nothing is left in the chat that no later /clear could find: once it is quiet, a message of a
\* turn and the startup notice are in the log, or gone, or the platform refused to delete them.
\* Not so for a note that was given up before it became a turn, nor for the status message of a
\* turn that failed because the platform did not take that message or its edit (workflow.py,
\* _clear_chat, _finalize_startup_notice; turn_intake.py, handle_message,
\* _discard_rejected_messages).
Quiet ==
  /\ \A f \in Flows : flow[f] \in {"idle", "done"}
  /\ \A x \in Turns : turn[x] \in {"idle", "over", "failed"}
  /\ \A c \in Callers : op[c].at \in {"idle", "done"}
  /\ notice.at \in {"idle", "done"}
Managed ==
  LET ofPlace(place) == {x \in Turns : turn[x] = place /\ x \notin dropped}
  IN  {Notice} \cup {UserMessage(x) : x \in ofPlace("failed")}
               \cup UNION {MessagesOf(x) : x \in ofPlace("over")}
NothingIsForgotten == Quiet => onChat \cap Managed \subseteq tracked \cup refused

\* What a stop or a clear took over stays dead, and what is in the chat stays known.
ChatIsOwned == EndedStaysEnded /\ NothingIsForgotten

\* Every command ends, whatever it has to wait for: two spoken commands that cancel each other's
\* handoffs do not wait for one another (voice.py, _is_excluded).
EveryCommandEnds == []<>(\A c \in Callers : op[c].at \in {"idle", "done"})
=============================================================================
