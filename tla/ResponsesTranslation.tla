------------------------ MODULE ResponsesTranslation ------------------------
(***************************************************************************)
(* One answer on its way through the server twice translated: the events   *)
(* of an upstream OpenAI response become Anthropic events                  *)
(* (ResponsesProviderStream), are held back while the attempt may still be *)
(* retried, and become the response of a Responses client                  *)
(* (ResponsesStreamAssembler).                                             *)
(*                                                                         *)
(* Sources: core/openai_responses/{provider_stream, stream}.py,            *)
(* core/openai_responses/streaming/*.py, providers/openai_codex/provider.py*)
(*                                                                         *)
(* An item's content is a sequence of fragments, 1 and 2 making it whole;  *)
(* <<>> stands for the arguments "{}".                                     *)
(***************************************************************************)
EXTENDS Naturals, Sequences, FiniteSets, SequencesExt

CONSTANTS
  Items,       \* output items an upstream answer may have
  ItemKind,      \* by item: "message", "reasoning", "sealed", "call" or "custom"
  MaxTries  \* attempts of a retry session

ASSUME TranslationAssumption ==
  ItemKind \in [Items -> {"message", "reasoning", "sealed", "call", "custom"}]

VARIABLES
  upstream,    \* [state, sent]: items added and done, and the fragments sent of each; in order
  translator,  \* the ResponsesProviderStream of this attempt and its ledger
  held,        \* events held back
  released,    \* the holdback is committed
  assembler,   \* the ResponsesStreamAssembler
  answer,      \* "open", "completed", "incomplete", "failed", or "refused" before any event
  tries,       \* attempts started
  renewed      \* authentication was recovered once

translationVars == <<upstream, translator, held, released, assembler, answer, tries, renewed>>

-----------------------------------------------------------------------------
(* ResponsesProviderStream over the ledger: out has the events of one step *)

NoCall == [block |-> 0, fed |-> FALSE, stopped |-> FALSE]
Fresh == [blocks |-> 0, text |-> 0, thinking |-> 0, calls |-> [i \in Items |-> NoCall],
          completed |-> FALSE, out |-> <<[e |-> "message_start"]>>]

Tell(t, events) == [t EXCEPT !.out = @ \o events]
BlockBegin(block, kind) == [e |-> "start", block |-> block, kind |-> kind]
Begin(t, kind) == Tell([t EXCEPT !.blocks = @ + 1], <<BlockBegin(t.blocks + 1, kind)>>)
\* The stops of some blocks one after the other, in an order that makes no difference.
BlockStops(blocks) == [e |-> "stop", blocks |-> blocks]
BlockStop(block) == BlockStops({block})
Piece(block, kind, fragments) ==
  [e |-> "delta", block |-> block, kind |-> kind, fragments |-> fragments]

CloseThinking(t) ==
  IF t.thinking = 0 THEN t ELSE Tell([t EXCEPT !.thinking = 0], <<BlockStop(t.thinking)>>)
CloseText(t) == IF t.text = 0 THEN t ELSE Tell([t EXCEPT !.text = 0], <<BlockStop(t.text)>>)
CloseContentBlocks(t) == CloseText(CloseThinking(t))

TextDelta(t, fragments) ==
  LET c == CloseThinking(t)
      s == IF c.text # 0 THEN c ELSE [Begin(c, "text") EXCEPT !.text = c.blocks + 1]
  IN  Tell(s, <<Piece(s.text, "text", fragments)>>)
ReasoningDelta(t, fragments) ==
  LET c == CloseText(t)
      s == IF c.thinking # 0 THEN c ELSE [Begin(c, "thinking") EXCEPT !.thinking = c.blocks + 1]
  IN  Tell(s, <<Piece(s.thinking, "thinking", fragments)>>)

EnsureToolStarted(t, i) ==
  IF t.calls[i].block # 0 THEN t
  ELSE [Begin(t, ItemKind[i]) EXCEPT !.calls[i].block = t.blocks + 1]
ToolDelta(t, i, fragments) ==
  LET s == EnsureToolStarted(CloseContentBlocks(t), i)
  IN  Tell([s EXCEPT !.calls[i].fed = TRUE],
           <<Piece(s.calls[i].block, "arguments", fragments)>>)

\* Mistake: the end of an item repeats the arguments that were sent before.
RepeatsArguments(t, i, arguments) ==
  LET s == EnsureToolStarted(CloseContentBlocks(t), i)
      f == IF arguments = <<>> THEN s ELSE Tell(s, <<Piece(s.calls[i].block, "arguments", arguments)>>)
  IN  IF f.calls[i].stopped THEN f
      ELSE Tell([f EXCEPT !.calls[i].stopped = TRUE], <<BlockStop(f.calls[i].block)>>)

\* The whole arguments come with the end of an item, for a call that sent none before.
CallDone(t, i, arguments) ==
  LET s == EnsureToolStarted(CloseContentBlocks(t), i)
      f == IF s.calls[i].fed \/ arguments = <<>> THEN s
           ELSE Tell(s, <<Piece(s.calls[i].block, "arguments", arguments)>>)
  IN  IF f.calls[i].stopped THEN f
      ELSE Tell([f EXCEPT !.calls[i].stopped = TRUE], <<BlockStop(f.calls[i].block)>>)
SealedDone(t) ==
  LET s == Begin(CloseContentBlocks(t), "redacted") IN Tell(s, <<BlockStop(s.blocks)>>)

OpenCalls(t) == {i \in Items : t.calls[i].block # 0 /\ ~t.calls[i].stopped}
StopOpenCalls(t) == Tell(t, <<BlockStops({t.calls[i].block : i \in OpenCalls(t)})>>)

AnswerDone(t, reason) ==
  LET closed == StopOpenCalls(CloseContentBlocks(t))
      padded == IF closed.blocks # 0 THEN closed ELSE CloseText(TextDelta(closed, <<>>))
      tools == \E i \in Items : t.calls[i].block # 0
  IN  Tell([padded EXCEPT !.completed = TRUE],
           <<[e |-> "message_delta", reason |-> IF tools THEN "tool_use" ELSE reason],
             [e |-> "message_stop"]>>)

\* After a failure the ledger closes whatever it has open.
CloseUnclosedBlocks(t) ==
  Tell(t, <<BlockStops(({t.text, t.thinking} \ {0}) \cup {t.calls[i].block : i \in OpenCalls(t)})>>)

-----------------------------------------------------------------------------
(* ResponsesStreamAssembler: slots are the output items in the order they  *)
(* were announced; active says which one a block feeds.                    *)

NewAssembler == [slots |-> <<>>, active |-> <<>>, provisional |-> "none", reason |-> "none",
                 final |-> "open"]
Announce(a, block, kind) ==
  [a EXCEPT !.slots = Append(@, [kind |-> kind, parts |-> <<>>, state |-> "in_progress"]),
            !.active = [b \in DOMAIN @ \cup {block} |->
                          IF b = block THEN Len(a.slots) + 1 ELSE @[b]]]
Whole(parts) == parts \in {<<>>, <<1, 2>>}

\* complete_block: a function call whose arguments are no object stays unfinished.
CutCall(slot) == slot.kind = "call" /\ ~Whole(slot.parts)
Completed(slots, S) ==
  [s \in DOMAIN slots |-> IF s \in S /\ ~CutCall(slots[s])
                         THEN [slots[s] EXCEPT !.state = "completed"] ELSE slots[s]]
CompleteSlots(a, S) ==
  [a EXCEPT !.slots = Completed(@, S),
            !.provisional = IF \E s \in S : CutCall(a.slots[s]) THEN "invalid call" ELSE @]
CompleteBlocks(a, blocks) ==
  [CompleteSlots(a, {a.active[b] : b \in DOMAIN a.active \cap blocks}) EXCEPT
     !.active = [b \in DOMAIN @ \ blocks |-> @[b]]]
FlushActive(a) == CompleteBlocks(a, DOMAIN a.active)

FinishResponse(a) ==
  LET f == FlushActive(a)
  IN  [f EXCEPT !.final = IF f.provisional # "none" THEN "failed"
                          ELSE IF f.reason = "max_tokens" THEN "incomplete" ELSE "completed"]
FailResponse(a) == [FlushActive(a) EXCEPT !.final = "failed"]

Assemble(a, event) ==
  IF a.final # "open" THEN a
  ELSE CASE event.e = "start" ->
              Announce(CompleteBlocks(a, {event.block}), event.block, event.kind)
         [] event.e = "delta" ->
              [a EXCEPT !.slots[a.active[event.block]].parts = @ \o event.fragments]
         [] event.e = "stop" -> CompleteBlocks(a, event.blocks)
         [] event.e = "message_delta" -> [a EXCEPT !.reason = event.reason]
         [] event.e = "message_stop" -> FinishResponse(a)
         [] OTHER -> a

AssembleAll(a, events) ==
  LET after[n \in 0..Len(events)] == IF n = 0 THEN a ELSE Assemble(after[n - 1], events[n])
  IN  after[Len(events)]

-----------------------------------------------------------------------------
NothingSent == [order |-> <<>>, state |-> [i \in Items |-> "none"], sent |-> [i \in Items |-> <<>>],
                over |-> "no"]

TranslationInit ==
  /\ upstream = NothingSent
  /\ translator = Fresh
  /\ held = <<>>
  /\ released = FALSE
  /\ assembler = NewAssembler
  /\ answer = "opening"
  /\ tries = 0
  /\ renewed = FALSE

\* What is pushed is held, until the buffer is full or old enough: then all of it is passed on.
Push(t) ==
  /\ translator' = [t EXCEPT !.out = <<>>]
  /\ \/ /\ ~released
        /\ held' = held \o t.out
        /\ UNCHANGED <<released, assembler>>
     \/ /\ released' = TRUE
        /\ held' = <<>>
        /\ assembler' = AssembleAll(assembler, held \o t.out)

\* _run_stream: a new attempt, with a new translator.
OpenUpstream ==
  /\ answer = "opening"
  /\ tries < MaxTries
  /\ tries' = tries + 1
  /\ answer' = "open"
  /\ upstream' = NothingSent
  /\ translator' = [Fresh EXCEPT !.out = <<>>]
  /\ held' = Fresh.out
  /\ UNCHANGED <<released, assembler, renewed>>

\* A 401 before the first event renews the access once; a second one is a failure.
Unauthorized ==
  /\ answer = "open" /\ upstream = NothingSent /\ ~renewed
  /\ renewed' = TRUE
  /\ held' = <<>>
  /\ answer' = IF tries < MaxTries THEN "opening" ELSE "refused"
  /\ UNCHANGED <<upstream, translator, released, assembler, tries>>

Receiving == answer = "open" /\ upstream.over = "no"

\* response.output_item.added; messages and reasoning come one at a time, calls may overlap.
ItemAdded(i) ==
  /\ Receiving
  /\ upstream.state[i] = "none"
  /\ ItemKind[i] \in {"call", "custom"} \/ \A j \in Items : upstream.state[j] # "added"
  /\ upstream' = [upstream EXCEPT !.state[i] = "added", !.order = Append(@, i)]
  /\ UNCHANGED <<translator, held, released, assembler, answer, tries, renewed>>

Delta_(i) ==
  LET n == Len(upstream.sent[i]) + 1 IN
  /\ Receiving
  /\ upstream.state[i] = "added" /\ ItemKind[i] # "sealed" /\ n <= 2
  /\ upstream' = [upstream EXCEPT !.sent[i] = Append(@, n)]
  /\ Push(CASE ItemKind[i] = "message" -> TextDelta(translator, <<n>>)
            [] ItemKind[i] = "reasoning" -> ReasoningDelta(translator, <<n>>)
            [] OTHER -> ToolDelta(translator, i, <<n>>))
  /\ UNCHANGED <<answer, tries, renewed>>

ItemDone(i) ==
  /\ Receiving
  /\ upstream.state[i] = "added"
  /\ \E arguments \in {upstream.sent[i]} \cup
                      (IF upstream.sent[i] = <<>> THEN {<<1, 2>>} ELSE {}) :
       /\ ItemKind[i] \notin {"call", "custom"} => arguments = upstream.sent[i]
       /\ upstream' = [upstream EXCEPT !.state[i] = "done", !.sent[i] = arguments]
       /\ Push(CASE ItemKind[i] = "sealed" -> SealedDone(translator)
                 [] ItemKind[i] \in {"call", "custom"} -> CallDone(translator, i, arguments)
                 [] OTHER -> translator)
  /\ UNCHANGED <<answer, tries, renewed>>

\* response.completed or response.incomplete
UpstreamOver(how) ==
  /\ Receiving
  /\ how = "completed" => \A i \in Items : upstream.state[i] # "added"
  /\ upstream' = [upstream EXCEPT !.over = how]
  /\ Push(AnswerDone(translator, IF how = "incomplete" THEN "max_tokens" ELSE "end_turn"))
  /\ UNCHANGED <<answer, tries, renewed>>

\* The stream ends after its terminal event: what is held is passed on.
AnswerEnds ==
  /\ answer = "open" /\ upstream.over # "no"
  /\ released' = TRUE
  /\ held' = <<>>
  /\ assembler' = AssembleAll(assembler, held)
  /\ answer' = assembler'.final
  /\ UNCHANGED <<upstream, translator, tries, renewed>>

\* response.failed, a cut connection or a malformed event, at any time: nothing committed and
\* retryable, then once more; nothing committed, then an error instead of a response; else the
\* open blocks are closed and the response fails.
StreamFails(retryable) ==
  /\ answer = "open"
  /\ IF ~released
     THEN /\ held' = <<>>
          /\ answer' = IF retryable /\ tries < MaxTries THEN "opening" ELSE "refused"
          /\ UNCHANGED assembler
     ELSE /\ LET closed == AssembleAll(assembler, CloseUnclosedBlocks(translator).out)
             IN  assembler' = IF closed.final = "open" THEN FailResponse(closed) ELSE closed
          /\ answer' = assembler'.final
          /\ UNCHANGED held
  /\ UNCHANGED <<upstream, translator, released, tries, renewed>>

TranslationStep ==
  \/ OpenUpstream \/ Unauthorized \/ AnswerEnds
  \/ \E i \in Items : ItemAdded(i) \/ Delta_(i) \/ ItemDone(i)
  \/ \E how \in {"completed", "incomplete"} : UpstreamOver(how)
  \/ \E retryable \in BOOLEAN : StreamFails(retryable)

TranslationSpec == TranslationInit /\ [][TranslationStep]_translationVars

-----------------------------------------------------------------------------
(* Properties *)

\* The fragments of the slots a client was shown, of the kinds in K, one after the other.
ShownIn(K) == FlattenSeq([s \in 1..Len(assembler.slots) |->
              IF assembler.slots[s].kind \in K THEN assembler.slots[s].parts ELSE <<>>])
SentBy(k) == FlattenSeq([n \in 1..Len(upstream.order) |->
             IF ItemKind[upstream.order[n]] = k THEN upstream.sent[upstream.order[n]] ELSE <<>>])
CallSlots == {s \in 1..Len(assembler.slots) : assembler.slots[s].kind \in {"call", "custom"}}

\* What the client of a response that did not fail has is what the last attempt sent: no text,
\* reasoning or argument of it is missing, repeated, out of order or in another call, and
\* nothing is left of the attempts before.
TranslationIsFaithful ==
  answer \in {"completed", "incomplete"} =>
    /\ ShownIn({"text"}) = SentBy("message")
    /\ ShownIn({"thinking"}) = SentBy("reasoning")
    /\ \A i \in Items : ItemKind[i] \in {"call", "custom"} /\ upstream.state[i] = "done" =>
         \E s \in CallSlots : /\ assembler.slots[s].kind = ItemKind[i]
                              /\ assembler.slots[s].parts = upstream.sent[i]
    /\ Cardinality(CallSlots) = Cardinality({i \in Items : translator.calls[i].block # 0})

\* A response that did not fail has an end for every item it announced and every call can be
\* replayed; before the end, an item is open only while a block feeds it.
ItemsAreFinished ==
  /\ assembler.final \in {"completed", "incomplete"} =>
       \A s \in DOMAIN assembler.slots :
         /\ assembler.slots[s].state = "completed"
         /\ assembler.slots[s].kind = "call" => Whole(assembler.slots[s].parts)
  /\ assembler.final = "open" /\ assembler.provisional = "none" =>
       \A s \in DOMAIN assembler.slots :
         (assembler.slots[s].state = "in_progress")
           <=> \E b \in DOMAIN assembler.active : assembler.active[b] = s

\* Both, for every interleaving of items, holdback, retries and failures.
TranslationIsSound == TranslationIsFaithful /\ ItemsAreFinished
=============================================================================
