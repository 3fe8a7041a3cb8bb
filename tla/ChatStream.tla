----------------------------- MODULE ChatStream -----------------------------
(***************************************************************************)
(* One OpenAI-chat stream turned into an Anthropic stream: the ledger of   *)
(* content blocks, tool calls assembled from fragments, output held back   *)
(* until it is committed, and what happens when the upstream breaks: an    *)
(* invisible retry, a continuation, a repair of tool arguments, or a       *)
(* failure after every open block was closed.                              *)
(*                                                                         *)
(* Sources: providers/openai_chat/{streaming, streaming_helpers,           *)
(* tool_calls}.py, providers/stream_recovery.py,                           *)
(* core/anthropic/streaming/{ledger, recovery}.py, stream_contracts.py.    *)
(*                                                                         *)
(* Text is not kept, only that there is some.  The arguments of a tool     *)
(* call are a JSON object that comes in two fragments.  Names of tools     *)
(* arrive whole, and think tags are part of what makes a delta "reasoning" *)
(* or "text".  Attempts are those of the retry session (ProviderAdmission).*)
(***************************************************************************)
EXTENDS Integers, Sequences, FiniteSets

CONSTANTS
  Tools,        \* indices of the tool calls an answer may contain
  KindOf,       \* by tool: "plain", "Task", or "aliased" (argument names are aliased upstream)
  Deltas,       \* what upstream may send: see Receive
  MaxDeltas,    \* bound on the deltas of one attempt
  MaxAttempts   \* attempts of a retry session

VARIABLES
  phase,        \* "opening", "streaming", "recovering", "calling", "complete" or "failed"
  ledger,       \* the AnthropicStreamLedger: what was emitted, held back or not
  broken,       \* the ledger as it was when the recovery began
  committed,    \* the holdback buffer is committed
  finish,       \* a finish_reason was seen
  attempts,     \* attempts started
  deltas,       \* deltas received in this attempt
  recovered     \* ghost: the answer was completed by a recovery

chatVars == <<phase, ledger, broken, committed, finish, attempts, deltas, recovered>>

ASSUME ChatConstants ==
  /\ Tools \subseteq Nat
  /\ KindOf \in [Tools -> {"plain", "Task", "aliased"}]
  /\ MaxDeltas \in Nat /\ MaxAttempts \in Nat \ {0}

-----------------------------------------------------------------------------
\* The ledger.  A block is "open" or "closed", or "torn" once it got an event after its stop.
\* The body of a tool block is "none", "part", "whole", "raw": an object whose run_in_background was
\* not set to false or whose aliased names were not restored, or "excess": more than an object.
\* A tool's state has its block, 0 before it started, the fragments that came before its name,
\* and those of a Task or aliased call that wait for the rest of the object.
NoTool == [block |-> 0, early |-> 0, buffer |-> 0]
NewLedger == [blocks |-> <<>>, active |-> 0, tools |-> [t \in Tools |-> NoTool], over |-> FALSE]
Block(kind, body) == [kind |-> kind, state |-> "open", body |-> body]

Delta(block, body) == [block EXCEPT !.body = body, !.state = IF @ = "open" THEN @ ELSE "torn"]
Stop(block) == [block EXCEPT !.state = IF @ = "open" THEN "closed" ELSE "torn"]

\* Text and thinking are never open together: active is the open one, or 0.
\* Mistake: a closed block stays the active one.
KeepsActive(l) == IF l.active = 0 THEN l ELSE [l EXCEPT !.blocks[l.active] = Stop(@)]

CloseContent(l) ==
  IF l.active = 0 THEN l ELSE [l EXCEPT !.blocks[l.active] = Stop(@), !.active = 0]

\* ensure_text_block or ensure_thinking_block, and a delta.
Say(l, kind) ==
  IF l.active # 0 /\ l.blocks[l.active].kind = kind THEN l
  ELSE [CloseContent(l) EXCEPT !.blocks = Append(@, Block(kind, "some")),
                               !.active = Len(l.blocks) + 1]

StartedTools(l) == {t \in Tools : l.tools[t].block # 0}
StopEach(l, S) == [l EXCEPT !.blocks = [b \in DOMAIN @ |-> IF b \in S THEN Stop(@[b]) ELSE @[b]],
                            !.active = IF @ \in S THEN 0 ELSE @]

\* close_all_blocks: the content block, then the block of every started tool.
CloseAll(l) == StopEach(CloseContent(l), {l.tools[t].block : t \in StartedTools(l)})

\* close_unclosed_blocks, after a failure.
CloseUnclosed(l) == StopEach(l, {b \in DOMAIN l.blocks : l.blocks[b].state = "open"})

ToolBlocks(l) == {b \in DOMAIN l.blocks : l.blocks[b].kind = "tool_use"}
HasOutput(l) == l.blocks # <<>>
Complete(block) == block.body \in {"whole", "raw"}
AllToolsComplete(l) == ToolBlocks(l) # {} /\ \A b \in ToolBlocks(l) : Complete(l.blocks[b])

\* aggregate_anthropic_sse_to_message: the answer as one JSON body, whose calls have the arguments
\* that were streamed, or an empty object when they do not parse.
JsonAnswer(l) ==
  [b \in DOMAIN l.blocks |->
     [kind |-> l.blocks[b].kind,
      input |-> IF Complete(l.blocks[b]) THEN l.blocks[b].body ELSE "empty"]]

-----------------------------------------------------------------------------
\* Tool calls.
Fragments(body) == CASE body = "none" -> 0 [] body = "part" -> 1 [] OTHER -> 2
Body(n) == CASE n = 0 -> "none" [] n = 1 -> "part" [] n = 2 -> "whole" [] OTHER -> "excess"

\* _emit_tool_arg_delta with n fragments: those of a plain call go out at once.  Those of the other
\* kinds wait until all that waits parses, which is one object and no more; then it goes out with
\* run_in_background off, or the names restored.
EmitArgs(l, t, kind, n) ==
  LET tool == l.tools[t]
      held == tool.buffer + n
  IN  CASE n = 0 -> l
        [] n > 0 /\ kind = "plain" ->
             [l EXCEPT !.blocks[tool.block] = Delta(@, Body(Fragments(@.body) + n))]
        [] n > 0 /\ kind # "plain" /\ held = 2 ->
             [l EXCEPT !.tools[t].buffer = 0, !.blocks[tool.block] = Delta(@, "whole")]
        [] OTHER -> [l EXCEPT !.tools[t].buffer = held]

\* process_tool_call with the name of a tool: its block starts, and what came early goes out,
\* with n more fragments.
StartTool(l, t, kind, n) ==
  LET b == Len(l.blocks) + 1
      started == [CloseContent(l) EXCEPT !.blocks = Append(@, Block("tool_use", "none")),
                                         !.tools[t] = [NoTool EXCEPT !.block = b]]
  IN  EmitArgs(started, t, kind, l.tools[t].early + n)

\* process_tool_call with a fragment of its arguments.
ToolArgs(l, t) ==
  IF l.tools[t].block = 0 THEN [CloseContent(l) EXCEPT !.tools[t].early = @ + 1]
  ELSE EmitArgs(CloseContent(l), t, KindOf[t], 1)

\* iter_heuristic_tool_use_sse: a whole call found in the text; it has no tool state.
HeuristicTool(l) ==
  [CloseContent(l) EXCEPT !.blocks = Append(@, Stop(Block("tool_use", "whole")))]

\* What waits when the answer is over: an aliased call goes out as it is, a Task that does not
\* parse as an empty object.
Waiting(l, t) == l.tools[t].block # 0 /\ l.tools[t].buffer # 0
FlushTools(l) ==
  [l EXCEPT
     !.blocks = [b \in DOMAIN @ |->
       IF \E t \in Tools : Waiting(l, t) /\ l.tools[t].block = b
         THEN LET t == CHOOSE t \in Tools : l.tools[t].block = b
              IN  Delta(@[b], IF KindOf[t] = "Task" THEN "whole" ELSE Body(l.tools[t].buffer))
         ELSE @[b]],
     !.tools = [t \in Tools |-> IF Waiting(l, t) THEN [@[t] EXCEPT !.buffer = 0] ELSE @[t]]]

\* A blank text when there is nothing to show: no block at all, or only thinking.
Pad(l) == IF \E b \in DOMAIN l.blocks : l.blocks[b].kind # "thinking" THEN l ELSE Say(l, "text")

\* message_delta and message_stop.
Finale(l) == [CloseAll(l) EXCEPT !.over = TRUE]

-----------------------------------------------------------------------------
ChatInit ==
  /\ phase = "opening"
  /\ ledger = NewLedger
  /\ broken = NewLedger
  /\ committed = FALSE
  /\ finish = FALSE
  /\ attempts = 0
  /\ deltas = 0
  /\ recovered = FALSE

CanAttempt == attempts < MaxAttempts

\* What the consumer has been given.
Shown == IF ~committed THEN NewLedger ELSE IF phase \in {"recovering", "calling"} THEN broken ELSE ledger

\* Events go through the holdback buffer, which commits when they are too many or too old.
Hold(l) == ledger' = l /\ committed' \in {committed, TRUE}

\* Mistake: only the first attempt counts.
RetriesForFree ==
  /\ phase = "opening" /\ CanAttempt
  /\ phase' = "streaming"
  /\ attempts' = IF attempts = 0 THEN 1 ELSE attempts
  /\ UNCHANGED <<ledger, broken, committed, finish, deltas, recovered>>

\* An attempt of the stream is accepted upstream.
OpenStream ==
  /\ phase = "opening" /\ CanAttempt
  /\ phase' = "streaming"
  /\ attempts' = attempts + 1
  /\ UNCHANGED <<ledger, broken, committed, finish, deltas, recovered>>

\* A chunk of the upstream stream: reasoning, text, a call found in the text, the name of a tool,
\* a fragment of its arguments (early: before its name), a finish_reason.
Heard(d, t) ==
  LET tool == ledger.tools[t] IN
  \/ d = "finish" /\ ~finish /\ finish' = TRUE /\ UNCHANGED <<ledger, committed>>
  \/ /\ \/ d = "reasoning" /\ Hold(Say(ledger, "thinking"))
        \/ d = "text" /\ Hold(Say(ledger, "text"))
        \/ d = "heuristic" /\ Hold(HeuristicTool(ledger))
        \/ d = "name" /\ tool.block = 0 /\ Hold(StartTool(ledger, t, KindOf[t], 0))
        \/ /\ d = "args" /\ tool.block # 0
           /\ Fragments(ledger.blocks[tool.block].body) + tool.buffer < 2
           /\ Hold(ToolArgs(ledger, t))
        \/ d = "early" /\ tool = NoTool /\ Hold(ToolArgs(ledger, t))
     /\ UNCHANGED finish

Receive(d, t) ==
  /\ phase = "streaming" /\ deltas < MaxDeltas
  /\ Heard(d, t)
  /\ deltas' = deltas + 1
  /\ UNCHANGED <<phase, broken, attempts, recovered>>

\* The upstream stream ends as it should: everything that waits goes out and is committed.
StreamEnds ==
  /\ phase = "streaming" /\ finish
  /\ ledger' = Finale(FlushTools(Pad(ledger)))
  /\ committed' = TRUE
  /\ phase' = "complete"
  /\ UNCHANGED <<broken, finish, attempts, deltas, recovered>>

-----------------------------------------------------------------------------
\* Failures: advance_failure.
Salvageable == HasOutput(ledger) /\ AllToolsComplete(ledger)
LastForRecovery == HasOutput(ledger) /\ MaxAttempts - attempts = 1

\* Mistake: also after something was shown.
RetriesOnceShown(retryable) ==
  retryable /\ CanAttempt /\ phase = "streaming" /\ ~Salvageable /\ ~LastForRecovery

MayRetryEarly(retryable) ==
  /\ retryable /\ CanAttempt /\ phase = "streaming" /\ ~committed
  /\ ~Salvageable /\ ~LastForRecovery

MayRecover(retryable) == retryable /\ HasOutput(ledger) /\ (CanAttempt \/ Salvageable)

RetryEarly ==
  /\ phase' = "opening" /\ ledger' = NewLedger /\ finish' = FALSE /\ deltas' = 0
  /\ UNCHANGED <<broken, committed>>

\* The failure reaches the consumer.  What is held back is discarded, and the failure can still
\* move the request to another provider; or every open block is closed first.
GiveUp(l, salvage) ==
  /\ phase' = "failed"
  /\ committed' = (committed \/ salvage)
  /\ ledger' = IF committed' THEN CloseUnclosed(l) ELSE l
  /\ UNCHANGED <<broken, finish, deltas>>

Break(retryable) ==
  /\ CASE MayRetryEarly(retryable) -> RetryEarly
       [] ~MayRetryEarly(retryable) /\ MayRecover(retryable) ->
            phase' = "recovering" /\ broken' = ledger /\ UNCHANGED <<ledger, committed, finish, deltas>>
       [] OTHER -> GiveUp(ledger, Salvageable)
  /\ UNCHANGED <<attempts, recovered>>

\* The stream of an attempt breaks, or ends without a finish_reason; an attempt is refused for
\* good before it opened.
StreamBreaks == phase = "streaming" /\ \E retryable \in BOOLEAN : Break(retryable)
StreamTruncated == phase = "streaming" /\ ~finish /\ Break(TRUE)
OpeningFails == phase = "opening" /\ Break(FALSE)

\* The recovery is complete: what was held back goes out, then its events.
Recovered(l) ==
  /\ ledger' = Finale(l)
  /\ committed' = TRUE
  /\ phase' = "complete"
  /\ recovered' = TRUE
  /\ UNCHANGED <<broken, finish, deltas>>

Incomplete(l) == {t \in StartedTools(l) : ~Complete(l.blocks[l.tools[t].block])}

\* Every emitted call is complete: the answer ends with it.
SalvageTools ==
  /\ phase = "recovering" /\ AllToolsComplete(ledger)
  /\ Recovered(ledger)
  /\ UNCHANGED attempts

\* One more attempt yields the rest of a call's arguments.  A call that had emitted nothing is
\* given all of it as the upstream wrote it.  What waits of a Task is a list of fragments and no text:
\* to parse it raises, and the recovery fails.
Repaired(t) ==
  LET b == ledger.tools[t].block
      asWritten == ledger.blocks[b].body = "none" /\ KindOf[t] # "plain"
  IN  [ledger EXCEPT !.blocks[b] = Delta(@, IF asWritten THEN "raw" ELSE "whole")]

RepairTool(t) ==
  /\ phase = "recovering" /\ t \in Incomplete(ledger) /\ CanAttempt
  /\ ~(KindOf[t] = "Task" /\ ledger.tools[t].buffer # 0)
  /\ attempts' = attempts + 1
  /\ IF AllToolsComplete(Repaired(t)) THEN Recovered(Repaired(t))
     ELSE ledger' = Repaired(t) /\ UNCHANGED <<phase, broken, committed, finish, deltas, recovered>>

\* One more attempt continues the answer: its thoughts, its text, or both; and then it may call tools.
Continue ==
  /\ phase = "recovering" /\ ToolBlocks(ledger) = {} /\ CanAttempt
  /\ attempts' = attempts + 1
  /\ \E thinks, talks \in BOOLEAN :
       LET thought == IF thinks THEN Say(ledger, "thinking") ELSE ledger
           said == IF talks THEN Say(thought, "text") ELSE thought
       IN  \/ (thinks \/ talks) /\ Recovered(said)
           \/ /\ ledger' = said /\ phase' = "calling"
              /\ UNCHANGED <<broken, committed, finish, deltas, recovered>>

\* The calls of the continuation, in the order of their indices: each was checked to be whole, with its
\* names restored, and is processed like a streamed one.  What came before its name in the broken
\* stream goes out in front of it; a Task then parses no more and gets nothing.
CallKind(t) == IF KindOf[t] = "Task" THEN "Task" ELSE "plain"
ContinueCall(t) ==
  LET called == StartTool(ledger, t, CallKind(t), 2)
  IN  /\ phase = "calling" /\ \A u \in StartedTools(ledger) : u < t
      /\ \/ Recovered(called)
         \/ /\ ledger' = called /\ \E u \in Tools : t < u
            /\ UNCHANGED <<phase, broken, committed, finish, deltas, recovered>>
      /\ UNCHANGED attempts

\* An attempt of the recovery breaks or does not fit, and there is another one.
RecoveryRetries ==
  /\ phase = "recovering" /\ ~AllToolsComplete(ledger)
  /\ attempts + 1 < MaxAttempts
  /\ attempts' = attempts + 1
  /\ UNCHANGED <<phase, ledger, broken, committed, finish, deltas, recovered>>

\* The recovery fails: its events are lost, and the first failure is reported after all.
RecoveryFails ==
  /\ phase = "recovering" /\ ~AllToolsComplete(ledger)
  /\ attempts' \in {attempts, IF CanAttempt THEN attempts + 1 ELSE attempts}
  /\ GiveUp(broken, FALSE)
  /\ UNCHANGED recovered

ChatStep ==
  \/ OpenStream
  \/ \E d \in Deltas, t \in Tools : Receive(d, t)
  \/ StreamEnds
  \/ StreamBreaks \/ StreamTruncated \/ OpeningFails
  \/ SalvageTools \/ Continue \/ RecoveryRetries \/ RecoveryFails
  \/ \E t \in Tools : RepairTool(t) \/ ContinueCall(t)

\* The event loop runs the stream, and an upstream that is silent runs into its read timeout.
ChatSpec == ChatInit /\ [][ChatStep]_chatVars /\ WF_chatVars(ChatStep)

-----------------------------------------------------------------------------
ChatTypeOK ==
  /\ phase \in {"opening", "streaming", "recovering", "calling", "complete", "failed"}
  /\ committed \in BOOLEAN /\ finish \in BOOLEAN /\ recovered \in BOOLEAN
  /\ attempts \in 0 .. MaxAttempts /\ deltas \in 0 .. MaxDeltas
  /\ ledger.active \in 0 .. Len(ledger.blocks)
  /\ \A t \in Tools : ledger.tools[t].block \in 0 .. Len(ledger.blocks)

\* What a consumer is given obeys the protocol on every path through retries, recoveries and
\* failures: no event for a block that was stopped, and nothing left open at the end of an
\* answer, or before the error that ends it (stream_contracts.py,
\* assert_anthropic_stream_contract).
StreamIsWellFormed ==
  \A b \in DOMAIN Shown.blocks :
    /\ Shown.blocks[b].state # "torn"
    /\ phase \in {"complete", "failed"} => Shown.blocks[b].state = "closed"

\* What was given is never taken back: a retry only discards what nobody has seen
\* (stream_recovery.py, "early cutoffs can be retried invisibly").
Grows(old, new) ==
  /\ new.kind = old.kind
  /\ new.state = "open" => old.state = "open"
  /\ Fragments(new.body) >= Fragments(old.body)
NothingIsUnsaid ==
  [][/\ Len(Shown'.blocks) >= Len(Shown.blocks)
     /\ \A b \in DOMAIN Shown.blocks : Grows(Shown.blocks[b], Shown'.blocks[b])
     /\ Shown.over => Shown' = Shown]_chatVars

\* A call whose arguments began before its name in the stream that broke.
BeganEarly(l, b) == \E t \in Tools : l.tools[t].block = b /\ broken.tools[t].early # 0

\* A recovered answer has all the arguments of its calls: half an object is never passed off as the
\* input of one, and none is emptied where the answer is returned as JSON.  Only a call that began
\* before its name is spoilt by its beginning.  A Task never gets half an object, recovered or not
\* (streaming.py, _repair_tool_args, _recovery_events; ledger.py, flush_task_arg_buffers;
\* sse_aggregation.py).
ToolsAreWhole ==
  phase = "complete" =>
    /\ recovered => \A b \in ToolBlocks(ledger) :
                      JsonAnswer(ledger)[b].input # "empty" \/ BeganEarly(ledger, b)
    /\ \A t \in StartedTools(ledger) :
         KindOf[t] = "Task" => ledger.blocks[ledger.tools[t].block].body # "part"

\* What the consumer has is a well formed stream with whole calls.
StreamIsSound == ChatTypeOK /\ StreamIsWellFormed /\ ToolsAreWhole

\* Every stream ends, in an answer or a failure: attempts spent on retries, repairs and
\* continuations are those of one session.
EveryStreamEnds == attempts > 0 ~> phase \in {"complete", "failed"}
=============================================================================
