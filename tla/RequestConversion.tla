-------------------------- MODULE RequestConversion --------------------------
(***************************************************************************)
(* The history of a conversation on its way to an upstream.  A Responses   *)
(* client sends input items, which become Anthropic messages; a Messages   *)
(* client sends those itself.  The messages are replayed to an OpenAI-chat *)
(* upstream, whose templates want every call followed by its results, or   *)
(* to the Responses upstream.                                              *)
(*                                                                         *)
(* Sources: core/openai_responses/{input, provider_input}.py,              *)
(* core/anthropic/conversion.py                                            *)
(*                                                                         *)
(* A client's words are named by where they were sent: at is 10 times the  *)
(* position of the item or message, plus that of the block in it.  A       *)
(* conversion is one call that never suspends: one step.                   *)
(***************************************************************************)
EXTENDS Naturals, Sequences, FiniteSets, SequencesExt

CONSTANTS
  CallIds,         \* ids of calls; NoId for what is no call and no result
  NoId,
  ItemsOffered,    \* input items of a Responses client: [kind, id]
  MessagesOffered, \* messages of a Messages client: [role, shape, thoughtful]
  MaxSent          \* items or messages of one request

ASSUME ConversionAssumption == NoId \notin CallIds /\ MaxSent \in Nat

VARIABLES
  target,     \* "responses", or how a chat upstream takes reasoning: "field", "tags", "off"
  sent,     \* what the client has sent
  messages, \* the Anthropic messages: role, blocks, reasoning (top level), listed
  pending,  \* _PendingReasoning: the texts and the sealed blocks read and not yet placed
  dropped,  \* quarantined_function_call_ids
  request,  \* "read", "accepted" or "refused"
  body      \* what the upstream is sent

conversionVars == <<target, sent, messages, pending, dropped, request, body>>

NoReasoning == [text |-> <<>>, sealed |-> <<>>]

ConversionInit ==
  /\ target \in {"responses", "field", "tags", "off"}
  /\ sent = <<>> /\ messages = <<>> /\ body = <<>>
  /\ pending = NoReasoning
  /\ dropped = {}
  /\ request = "read"

-----------------------------------------------------------------------------
(* A Responses client: one input item after the other.                     *)

Message(role, blocks, reasoning, listed) ==
  [role |-> role, blocks |-> blocks, reasoning |-> reasoning, listed |-> listed]
BlockOf(kind, id, at) == [kind |-> kind, id |-> id, at |-> at]
Kinds(m) == {m.blocks[i].kind : i \in DOMAIN m.blocks}

\* Reasoning that no answer followed is an assistant message of its own.
WithPending(ms) ==
  IF pending = NoReasoning THEN ms
  ELSE Append(ms, Message("assistant", pending.sealed, pending.text, pending.sealed # <<>>))

\* Does the last message consist of calls and reasoning, or of results only?
EndsInCalls ==
  /\ messages # <<>>
  /\ LET m == Last(messages) IN
       /\ m.role = "assistant"
       /\ "tool" \in Kinds(m)
       /\ Kinds(m) \subseteq {"sealed", "thinking", "tool"}
EndsInResults(ms) ==
  /\ ms # <<>>
  /\ Last(ms).role = "user" /\ Kinds(Last(ms)) = {"result"}

ReasoningOnto(m) == [m EXCEPT !.blocks = pending.sealed \o @, !.reasoning = @ \o pending.text]

ReplaceLast(ms, m) == Append(Front(ms), m)

AddCall(block) ==
  LET m == IF EndsInCalls THEN Last(messages) ELSE Message("assistant", <<>>, <<>>, TRUE)
      more == [ReasoningOnto(m) EXCEPT !.blocks = Append(@, block)]
  IN  IF EndsInCalls THEN ReplaceLast(messages, more) ELSE Append(messages, more)

\* Reasoning read between a call and its result is the call's.
BeforeOutput ==
  IF EndsInCalls THEN ReplaceLast(messages, ReasoningOnto(Last(messages))) ELSE WithPending(messages)

AddResult(ms, block) ==
  IF EndsInResults(ms)
  THEN ReplaceLast(ms, [Last(ms) EXCEPT !.blocks = Append(@, block)])
  ELSE Append(ms, Message("user", <<block>>, <<>>, TRUE))

Place(ms) == messages' = ms /\ pending' = NoReasoning /\ UNCHANGED dropped

\* Instructions inside the input join the system prompt.
SystemItem == Place(WithPending(messages))

UserItem(at) ==
  Place(Append(WithPending(messages), Message("user", <<BlockOf("text", NoId, at)>>, <<>>, FALSE)))

\* An answer takes the reasoning before it; sealed reasoning makes its text a block.
AssistantItem(at, listed) ==
  Place(Append(messages,
    Message("assistant", Append(pending.sealed, BlockOf("text", NoId, at)), pending.text,
            listed \/ pending.sealed # <<>>)))

CallItem(id, at) == Place(AddCall(BlockOf("tool", id, at)))

\* A call whose arguments are no JSON object is left out, and so is its result.
BadCallItem(id) == dropped' = dropped \cup {id} /\ UNCHANGED <<messages, pending>>

OutputItem(id, at) ==
  IF id \in dropped THEN UNCHANGED <<messages, pending, dropped>>
  ELSE Place(AddResult(BeforeOutput, BlockOf("result", id, at)))

ReasoningItem(kind, at) ==
  /\ pending' =
       [text   |-> IF kind = "sealed" THEN pending.text ELSE Append(pending.text, at),
        sealed |-> IF kind = "thought" THEN pending.sealed
                   ELSE Append(pending.sealed, BlockOf("sealed", NoId, at))]
  /\ UNCHANGED <<messages, dropped>>

MaySend(word) == request = "read" /\ Len(sent) < MaxSent /\ sent' = Append(sent, word)
Here == 10 * (Len(sent) + 1)

ReadItem ==
  \E item \in ItemsOffered :
    /\ MaySend(item)
    /\ CASE item.kind = "system"    -> SystemItem
         [] item.kind = "user"      -> UserItem(Here)
         [] item.kind = "assistant" -> AssistantItem(Here, TRUE)
         [] item.kind = "said"      -> AssistantItem(Here, FALSE)
         [] item.kind = "call"      -> CallItem(item.id, Here)
         [] item.kind = "bad call"  -> BadCallItem(item.id)
         [] item.kind = "output"    -> OutputItem(item.id, Here)
         [] OTHER                   -> ReasoningItem(item.kind, Here)
    /\ UNCHANGED <<target, request, body>>

\* A Messages client says what it means.
ReadMessage ==
  \E word \in MessagesOffered :
    /\ MaySend(word)
    /\ Place(Append(messages,
         Message(word.role,
                 [i \in DOMAIN word.shape |-> BlockOf(word.shape[i][1], word.shape[i][2], Here + i)],
                 IF word.thoughtful THEN <<Here>> ELSE <<>>, TRUE)))
    /\ UNCHANGED <<target, request, body>>

-----------------------------------------------------------------------------
(* The OpenAI-chat upstream: _OpenAIChatHistoryLedger.                     *)

OfKinds(blocks, kinds) == SelectSeq(blocks, LAMBDA b : b.kind \in kinds)
Ats(blocks) == [i \in DOMAIN blocks |-> blocks[i].at]

Chat(role, content, calls, reasoning) ==
  [role |-> role, content |-> content, calls |-> calls, reasoning |-> reasoning, id |-> NoId]
ToolMessage(block) ==
  [role |-> "tool", content |-> <<block.at>>, calls |-> <<>>, reasoning |-> <<>>, id |-> block.id]

\* Blocks of an assistant: a field for reasoning holds that of the message or its
\* thinking, in tags only thinking blocks are replayed.
AssistantMessage(blocks, calls, reasoning) ==
  Chat("assistant",
       Ats(OfKinds(blocks, IF target = "tags" THEN {"text", "thinking"} ELSE {"text"})),
       calls,
       CASE target # "field"      -> <<>>
         [] reasoning # <<>>    -> reasoning
         [] OTHER               -> Ats(OfKinds(blocks, {"thinking"})))

\* An answer that is one string carries its reasoning in the tags as well.
PlainAnswer(m) ==
  IF ~m.listed /\ target = "tags"
  THEN Chat("assistant", m.reasoning \o Ats(m.blocks), <<>>, <<>>)
  ELSE AssistantMessage(m.blocks, <<>>, m.reasoning)

FirstTool(blocks) == SelectInSeq(blocks, LAMBDA b : b.kind = "tool")

PlainSegment(ms) == [plain |-> ms, ids |-> <<>>, emitted |-> FALSE, message |-> <<>>, deferred |-> <<>>]

\* The call goes out with what was said before it; what was said after the first
\* call waits for the results.
ToolTurn(m) ==
  LET first == FirstTool(m.blocks)
      calls == OfKinds(m.blocks, {"tool"})
      ids   == [i \in DOMAIN calls |-> calls[i].id]
      later == SelectSeq(SubSeq(m.blocks, first + 1, Len(m.blocks)), LAMBDA b : b.kind # "tool")
  IN  [plain |-> <<>>, ids |-> ids, emitted |-> FALSE,
       message |-> <<AssistantMessage(SubSeq(m.blocks, 1, first - 1), ids, m.reasoning)>>,
       deferred |-> IF later = <<>> THEN <<>> ELSE <<AssistantMessage(later, <<>>, m.reasoning)>>]

NewHistory == [segments |-> <<>>, results |-> <<>>, output |-> <<>>]
Emit(l, ms) == [l EXCEPT !.output = @ \o ms]
Advance(l) == [l EXCEPT !.segments = Tail(@)]
Missing(l, s) == {s.ids[i] : i \in DOMAIN s.ids} \ DOMAIN l.results

\* The first segment goes out: a tool turn only when all its results are there.
DrainOne(l) ==
  IF l.segments = <<>> THEN l
  ELSE LET s == Head(l.segments)
           shown == IF s.emitted THEN l
                    ELSE [Emit(l, s.message) EXCEPT !.segments[1].emitted = TRUE]
       IN  IF s.ids = <<>> THEN Advance(Emit(l, s.plain))
           ELSE IF Missing(l, s) # {} THEN shown
           ELSE [Advance(Emit(shown, [i \in DOMAIN s.ids |-> l.results[s.ids[i]]] \o s.deferred))
                   EXCEPT !.results = [id \in DOMAIN @ \ ToSet(s.ids) |-> @[id]]]
Drain(l) == FoldLeft(LAMBDA acc, s : DrainOne(acc), l, l.segments)

AddSegment(l, s) == Drain([l EXCEPT !.segments = Append(@, s)])

\* Mistake: what depends on no result goes out at once.
AddPlainAtOnce(l, ms) == Emit(l, ms)
AddPlain(l, ms) == IF ms = <<>> THEN l ELSE AddSegment(l, PlainSegment(ms))

HasPending(l, id) == \E i \in DOMAIN l.segments : id \in ToSet(l.segments[i].ids)

\* The last result of a call that still waits counts; any other is a message.
RecordToolResult(l, block) ==
  IF HasPending(l, block.id)
  THEN [l EXCEPT !.results = [id \in DOMAIN @ \cup {block.id} |->
                                IF id = block.id THEN ToolMessage(block) ELSE @[id]]]
  ELSE AddPlain(l, <<ToolMessage(block)>>)

\* Text and images of a user; a document is left out.
UserMessage(blocks) ==
  LET parts == OfKinds(blocks, {"text", "image"})
  IN  IF parts = <<>> THEN <<>> ELSE <<Chat("user", Ats(parts), <<>>, <<>>)>>

AddUserBlocks(l, blocks) ==
  LET Next1(acc, b) ==
        IF b.kind = "result"
        THEN [l |-> RecordToolResult(AddPlain(acc.l, UserMessage(acc.run)), b), run |-> <<>>]
        ELSE [acc EXCEPT !.run = Append(@, b)]
      all == FoldLeft(Next1, [l |-> l, run |-> <<>>], blocks)
  IN  Drain(AddPlain(all.l, UserMessage(all.run)))

\* An inline system message is replayed as the user's.
AddMessage(l, m) ==
  CASE m.role # "assistant"         -> AddUserBlocks(l, m.blocks)
    [] FirstTool(m.blocks) # 0      -> AddSegment(l, ToolTurn(m))
    [] OTHER                        -> AddPlain(l, <<PlainAnswer(m)>>)

\* Blank assistant messages part results from the user, and users' messages join.
CloseTurns(ms) ==
  LET Add(acc, m) ==
        IF m.role = "user" /\ acc # <<>> /\ Last(acc).role = "tool"
        THEN acc \o <<Chat("assistant", <<>>, <<>>, <<>>), m>>
        ELSE Append(acc, m)
  IN  FoldLeft(Add, <<>>, ms)
Coalesce(ms) ==
  LET Add(acc, m) ==
        IF m.role = "user" /\ acc # <<>> /\ Last(acc).role = "user"
        THEN ReplaceLast(acc, [Last(acc) EXCEPT !.content = @ \o m.content])
        ELSE Append(acc, m)
  IN  FoldLeft(Add, <<>>, ms)

\* What the chat upstream cannot be told of an assistant or of instructions.
Forbidden(m) ==
  \/ m.role = "assistant" /\ Kinds(m) \cap {"image", "server"} # {}
  \/ m.role = "system" /\ (Kinds(m) \ {"text"} # {} \/ m.blocks = <<>>)

-----------------------------------------------------------------------------
(* The Responses upstream: each message becomes items, in their order.     *)

Item(kind, content, id) == [kind |-> kind, content |-> content, id |-> id]

\* Runs of words become one item, a call or result one of its own.
ItemsOf(m) ==
  LET words == {"text", "image"}
      Add(acc, b) ==
        CASE b.kind \in words ->
               IF acc # <<>> /\ Last(acc).kind = m.role
               THEN ReplaceLast(acc, [Last(acc) EXCEPT !.content = Append(@, b.at)])
               ELSE Append(acc, Item(m.role, <<b.at>>, NoId))
          [] b.kind \in {"tool", "result"} -> Append(acc, Item(b.kind, <<b.at>>, b.id))
          [] OTHER -> acc
      thoughts == m.reasoning \o Ats(OfKinds(m.blocks, {"thinking"}))
      seals == OfKinds(m.blocks, {"sealed"})
      reasoning ==
        IF seals # <<>>
        THEN [i \in DOMAIN seals |->
                Item("reasoning", (IF i = 1 THEN thoughts ELSE <<>>) \o <<seals[i].at>>, NoId)]
        ELSE IF thoughts # <<>> THEN <<Item("reasoning", thoughts, NoId)>> ELSE <<>>
      silent == m.role = "assistant" /\ ~m.listed /\ m.blocks = <<>>
      spoken == IF silent THEN <<Item("assistant", <<>>, NoId)>> ELSE FoldLeft(Add, <<>>, m.blocks)
  IN  IF m.role = "system" THEN <<>> ELSE reasoning \o spoken

Unrepresented(m) ==
  CASE m.role = "assistant" -> Kinds(m) \ {"text", "thinking", "sealed", "tool"} # {}
    [] m.role = "user"      -> Kinds(m) \ {"text", "image", "result"} # {}
    [] OTHER                -> Kinds(m) \ {"text"} # {}

-----------------------------------------------------------------------------
Answer(ok, ms) ==
  /\ request' = IF ok THEN "accepted" ELSE "refused"
  /\ body' = IF ok THEN ms ELSE <<>>

ToChat(ms) ==
  LET l == FoldLeft(AddMessage, NewHistory, ms)
      complete == \A i \in DOMAIN l.segments : Missing(l, l.segments[i]) = {}
  IN  Answer(ms # <<>> /\ complete /\ (\A i \in DOMAIN ms : ~Forbidden(ms[i])),
             Coalesce(CloseTurns(l.output)))

ToResponses(ms) ==
  LET items == FlattenSeq([i \in DOMAIN ms |-> ItemsOf(ms[i])])
  IN  Answer(items # <<>> /\ (\A i \in DOMAIN ms : ~Unrepresented(ms[i])), items)

\* The input is complete: reasoning at its end is kept, and the body is built.
Convert ==
  /\ request = "read" /\ sent # <<>>
  /\ messages' = WithPending(messages)
  /\ pending' = NoReasoning
  /\ IF target = "responses" THEN ToResponses(messages') ELSE ToChat(messages')
  /\ UNCHANGED <<target, sent, dropped>>

ConversionNext == ReadItem \/ ReadMessage \/ Convert

-----------------------------------------------------------------------------
(* Properties.                                                             *)

FromItems == sent # <<>> /\ sent[1] \in ItemsOffered

\* Where the client sent words: its items of text, or the text and image blocks.
WordsSent ==
  IF FromItems
  THEN SelectSeq([i \in DOMAIN sent |-> 10 * i],
                 LAMBDA at : sent[at \div 10].kind \in {"user", "assistant", "said"})
  ELSE FlattenSeq([i \in DOMAIN messages |->
         IF target = "responses" /\ messages[i].role = "system" THEN <<>>
         ELSE Ats(OfKinds(messages[i].blocks, {"text", "image"}))])

ContentOf(ms) == FlattenSeq([i \in DOMAIN ms |-> ms[i].content])
WordsReplayed == SelectSeq(ContentOf(body), LAMBDA at : at \in ToSet(WordsSent))

\* Where a word or a thought is first replayed; 0 when it is not.
ReplayedAt(at) ==
  SelectInSeq(body, LAMBDA m : at \in ToSet(m.content)
                                 \/ ("reasoning" \in DOMAIN m /\ at \in ToSet(m.reasoning)))

\* Each call is followed by one result per id, in the order of the ids; the user is
\* never heard right after a result, and never twice in a row.
TurnsAreComplete ==
  /\ \A i \in DOMAIN body, k \in 1..MaxSent :
       k <= Len(body[i].calls) =>
         /\ i + k <= Len(body)
         /\ body[i + k].role = "tool" /\ body[i + k].id = body[i].calls[k]
  /\ \A i \in DOMAIN body :
       i > 1 /\ body[i].role = "user" => body[i - 1].role = "assistant"

\* Reasoning of a Responses client stands behind the words before it and not behind
\* the words after it.
ThoughtsKeepTheirPlace ==
  \A i \in DOMAIN sent : sent[i].kind \in {"thought", "both"} =>
    /\ ReplayedAt(10 * i) # 0
    /\ \A at \in ToSet(WordsSent) :
         IF at < 10 * i THEN ReplayedAt(at) <= ReplayedAt(10 * i)
         ELSE ReplayedAt(10 * i) <= ReplayedAt(at)

Unanswered(id) ==
  \E i \in DOMAIN messages :
    /\ \E b \in DOMAIN messages[i].blocks :
         messages[i].blocks[b].kind = "tool" /\ messages[i].blocks[b].id = id
    /\ \A j \in i + 1 .. Len(messages) : \A b \in DOMAIN messages[j].blocks :
         messages[j].blocks[b].kind = "result" => messages[j].blocks[b].id # id

\* Words reach the upstream once and in the order they were said, whatever waits for
\* results; calls come with their results; reasoning keeps its place; calls that were
\* left out are left out whole; and a history is refused for a call without an answer
\* or for something the upstream has no form for, never for its order.
HistoryIsReplayable ==
  /\ request = "accepted" =>
       /\ WordsReplayed = WordsSent
       /\ target # "responses" =>
            TurnsAreComplete /\ ~\E id \in CallIds : Unanswered(id)
       /\ FromItems /\ target \in {"responses", "field"} => ThoughtsKeepTheirPlace
  /\ request = "refused" =>
       IF target = "responses"
       THEN \/ \A i \in DOMAIN messages : messages[i].role = "system" \/ messages[i].blocks = <<>>
            \/ \E i \in DOMAIN messages : Unrepresented(messages[i])
       ELSE \/ messages = <<>>
            \/ \E i \in DOMAIN messages : Forbidden(messages[i])
            \/ \E id \in CallIds : Unanswered(id)
=============================================================================
