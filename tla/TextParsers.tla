----------------------------- MODULE TextParsers -----------------------------
(***************************************************************************)
(* The two parsers a streamed text goes through before it becomes content: *)
(* ThinkTagParser separates <think> from what is said, HeuristicToolParser *)
(* finds tool calls a model wrote as text.  Upstream cuts the text into    *)
(* chunks wherever it likes.                                               *)
(*                                                                         *)
(* Sources: core/anthropic/{thinking, tools}.py, content_events of         *)
(* providers/openai_chat/streaming_helpers.py.                             *)
(*                                                                         *)
(* A text is a sequence of symbols.  The tags are spelled "<t>" and "</t>" *)
(* so that a chunk can end inside one.  Of a call, "b" is the bullet, "f"  *)
(* <function=..>, "p" <parameter=..>, "q" </parameter>; "c" and "d" open   *)
(* and close a control token; "w" is a web tool with its JSON; "s" is      *)
(* blank, and anything else a letter.                                      *)
(***************************************************************************)
EXTENDS Naturals, Sequences, FiniteSets, SequencesExt

CONSTANTS Texts,    \* what upstream may say
          MaxHeld   \* how much text may wait behind a bullet (100 characters)

ASSUME TextsAssumption == Texts \subseteq Seq(STRING)

VARIABLES
  text,       \* the whole text
  read,       \* how much of it came in
  thinking,   \* the ThinkTagParser
  heuristic,  \* the HeuristicToolParser
  flushed     \* the stream is over and both were flushed

parserVars == <<text, read, thinking, heuristic, flushed>>

OpenTag == <<"<", "t", ">">>
CloseTag == <<"<", "/", "t", ">">>

\* The element of a singleton: what it is made of is computed once.
Only(S) == CHOOSE x \in S : TRUE

-----------------------------------------------------------------------------
(* ThinkTagParser *)

Starts(s, tag, i) == i + Len(tag) - 1 <= Len(s) /\ SubSeq(s, i, i + Len(tag) - 1) = tag
Upto(s, i) == SubSeq(s, 1, i)
After(s, i) == SubSeq(s, i + 1, Len(s))

NewThinking == [inside |-> FALSE, buffer |-> <<>>, thought |-> <<>>, said |-> <<>>]

Pass(t, s) == IF t.inside THEN [t EXCEPT !.thought = @ \o s] ELSE [t EXCEPT !.said = @ \o s]

\* Outside of a think tag an orphan </think> is dropped too.
Tags(t) == IF t.inside THEN {CloseTag} ELSE {OpenTag, CloseTag}
TagStarts(t) == {i \in DOMAIN t.buffer : \E tag \in Tags(t) : Starts(t.buffer, tag, i)}

\* Where a tag may begin that the next chunk completes.
TailStarts(t) == {i \in DOMAIN t.buffer : \E tag \in Tags(t) :
                    LET tail == After(t.buffer, i - 1)
                    IN  Len(tail) < Len(tag) /\ IsPrefix(tail, tag)}
First(S) == CHOOSE i \in S : \A j \in S : i <= j

ThinkStep(t) ==
  IF TagStarts(t) # {}
  THEN LET i == First(TagStarts(t))
           tag == CHOOSE g \in Tags(t) : Starts(t.buffer, g, i)
       IN  [Pass(t, Upto(t.buffer, i - 1)) EXCEPT
              !.buffer = After(t.buffer, i + Len(tag) - 1), !.inside = (tag = OpenTag)]
  ELSE LET kept == IF TailStarts(t) = {} THEN Len(t.buffer) + 1 ELSE First(TailStarts(t))
       IN  [Pass(t, Upto(t.buffer, kept - 1)) EXCEPT !.buffer = After(t.buffer, kept - 1)]

\* Every step but the last takes a tag, so that as many steps as symbols are enough.
ThinkFeed(t, chunk) ==
  LET N == Len(t.buffer) + Len(chunk) + 1
      parse[i \in 0..N] == IF i = 0 THEN [t EXCEPT !.buffer = @ \o chunk]
                           ELSE Only({ThinkStep(u) : u \in {parse[i - 1]}})
  IN  parse[N]
ThinkFlush(t) == [Pass(t, t.buffer) EXCEPT !.buffer = <<>>]

-----------------------------------------------------------------------------
(* HeuristicToolParser *)

NewHeuristic == [state |-> "TEXT", buffer |-> <<>>, parameters |-> <<>>, shown |-> <<>>,
                 calls |-> <<>>, waits |-> FALSE]

Has(s, symbol) == Contains(s, symbol)
At_(s, symbol) == First({i \in DOMAIN s : s[i] = symbol})
Show(h, n) == [h EXCEPT !.shown = @ \o Upto(h.buffer, n), !.buffer = After(h.buffer, n)]
Wait(h) == [h EXCEPT !.waits = TRUE]

ControlTokens(s) == {p \in (DOMAIN s) \X (DOMAIN s) :
                       /\ p[1] < p[2] /\ s[p[1]] = "c" /\ s[p[2]] = "d"
                       /\ \A i \in (p[1] + 1)..(p[2] - 1) : s[i] \notin {"c", "d"}}
StripControlTokens(s) ==
  LET kept == SelectSeq([i \in DOMAIN s |-> i], LAMBDA i :
                \A p \in ControlTokens(s) : i \notin p[1]..p[2])
  IN  [n \in DOMAIN kept |-> s[kept[n]]]

\* A web call takes everything around it along.
TakeWebCalls(h) ==
  IF Has(h.buffer, "w")
  THEN [h EXCEPT !.calls = @ \o [i \in 1..Len(SelectSeq(h.buffer, LAMBDA x : x = "w")) |-> <<"w">>],
                 !.buffer = <<>>]
  ELSE h

\* Nothing but text, up to a control token that is not complete; one that starts the buffer
\* is not kept back.
ScanText(h) ==
  IF Has(h.buffer, "b") THEN [Show(h, At_(h.buffer, "b") - 1) EXCEPT !.state = "MATCHING"]
  ELSE IF Has(h.buffer, "c") /\ h.buffer[1] # "c"
       THEN Wait(Show(h, SelectLastInSeq(h.buffer, LAMBDA x : x = "c") - 1))
       ELSE Wait(Show(h, Len(h.buffer)))

\* A bullet, blanks and a function tag, anywhere behind the bullet that is first.
FunctionTags(s) == {j \in DOMAIN s : /\ s[j] = "f"
                                     /\ \E i \in 1..(j - 1) : /\ s[i] = "b"
                                                              /\ \A k \in (i + 1)..(j - 1) : s[k] = "s"}
MatchFunction(h) ==
  IF FunctionTags(h.buffer) # {}
  THEN [h EXCEPT !.buffer = After(@, First(FunctionTags(h.buffer))), !.parameters = <<>>,
                 !.state = "PARSING"]
  ELSE IF Len(h.buffer) > MaxHeld THEN [Show(h, 1) EXCEPT !.state = "TEXT"]
  ELSE Wait(h)

EndCall(h) ==
  [h EXCEPT !.calls = Append(@, h.parameters), !.parameters = <<>>, !.state = "TEXT"]

\* Whole parameters first, with the text before each; then a bullet or other text ends the call.
ParseParameters(h) ==
  LET b == h.buffer
      p == At_(b, "p")
      q == First({i \in DOMAIN b : b[i] = "q" /\ i > p})
      solid == SelectSeq(b, LAMBDA x : x # "s")
  IN  CASE Has(b, "p") /\ \E i \in DOMAIN b : b[i] = "q" /\ i > p ->
             [Show(h, p - 1) EXCEPT !.parameters = Append(@, SubSeq(b, p + 1, q - 1)),
                                    !.buffer = After(b, q)]
        [] Has(b, "b") /\ ~(Has(b, "p") /\ \E i \in DOMAIN b : b[i] = "q" /\ i > p) ->
             EndCall(Show(h, At_(b, "b") - 1))
        [] b # <<>> /\ ~Has(b, "b") /\ ~Has(b, "p")
           /\ (solid = <<>> \/ solid[1] \notin {"f", "q", "c", "<"}) ->
             EndCall(Show(h, Len(b)))
        [] OTHER -> Wait(h)

ScanStep(h) == CASE h.waits -> h
                 [] h.state = "TEXT" /\ ~h.waits -> ScanText(h)
                 [] h.state = "MATCHING" /\ ~h.waits -> MatchFunction(h)
                 [] h.state = "PARSING" /\ ~h.waits -> ParseParameters(h)

HeuristicFeed(h, s) ==
  LET N == 3 * (Len(h.buffer) + Len(s)) + 3
      scan[i \in 0..N] ==
        IF i = 0 THEN TakeWebCalls([h EXCEPT !.buffer = StripControlTokens(@ \o s), !.waits = FALSE])
        ELSE Only({ScanStep(u) : u \in {scan[i - 1]}})
  IN  scan[N]

\* A call that is open ends with the parameter it got so far; other text that waits is not shown.
HeuristicFlush(h) ==
  LET b == StripControlTokens(h.buffer) IN
  IF h.state # "PARSING" THEN h
  ELSE EndCall([h EXCEPT !.buffer = <<>>,
                         !.parameters = @ \o IF Has(b, "p") THEN <<After(b, At_(b, "p"))>> ELSE <<>>])

-----------------------------------------------------------------------------
(* content_events: what is said outside of the tags goes through the second parser, chunk by chunk. *)

ParserInit ==
  /\ text \in Texts
  /\ read = 0
  /\ thinking = NewThinking
  /\ heuristic = NewHeuristic
  /\ flushed = FALSE

ContentEvents(n) ==
  /\ n \in (read + 1)..Len(text)
  /\ read' = n
  /\ LET fed == ThinkFeed([thinking EXCEPT !.said = <<>>], SubSeq(text, read + 1, n)) IN
     /\ thinking' = [fed EXCEPT !.said = thinking.said \o fed.said]
     /\ heuristic' = IF fed.said = <<>> THEN heuristic ELSE HeuristicFeed(heuristic, fed.said)
  /\ UNCHANGED <<text, flushed>>

\* What the first parser has left is shown as it is.
FlushParsers ==
  /\ read = Len(text) /\ ~flushed
  /\ flushed' = TRUE
  /\ thinking' = ThinkFlush(thinking)
  /\ heuristic' = [HeuristicFlush(heuristic) EXCEPT
                     !.shown = @ \o IF thinking.inside THEN <<>> ELSE thinking.buffer]
  /\ UNCHANGED <<text, read>>

ParserStep == FlushParsers \/ \E n \in 1..Len(text) : ContentEvents(n)
ParserSpec == ParserInit /\ [][ParserStep]_parserVars

-----------------------------------------------------------------------------
(* Properties *)

\* The text as if it had come in one piece.
AtOnce == ThinkFeed(NewThinking, text)

\* Wherever the chunks end, thinking and speech are told apart as in the whole text: no tag
\* is shown because it was cut and nothing is lost that only began like a tag.
CutsDoNotMoveThoughts ==
  flushed => /\ thinking.thought = ThinkFlush(AtOnce).thought
             /\ thinking.said = ThinkFlush(AtOnce).said
=============================================================================
