-------------------------- MODULE NativeToolStream --------------------------
(***************************************************************************)
(* A MiniMax model behind NVIDIA NIM may leak its own tool markup into the *)
(* content or the reasoning of a stream.  The stream is normalized on the  *)
(* fly: markup is framed out of both fields, wherever a chunk ends, and    *)
(* becomes tool calls when the answer finishes, unless the answer has      *)
(* ordinary tool calls of its own.                                         *)
(*                                                                         *)
(* Source: providers/nvidia_nim/native_tool_stream.py.                     *)
(*                                                                         *)
(* A field is a sequence of symbols.  The namespace is spelled "[n", a tool*)
(* block starts with "[ns" and ends with "[ne".  Inside, "v" is an invoke  *)
(* of a declared tool with valid arguments, "_" is blank, and anything     *)
(* else is malformed.                                                      *)
(***************************************************************************)
EXTENDS Naturals, Sequences, FiniteSets, SequencesExt

CONSTANTS Contents, Reasonings  \* what the two fields of an answer may spell

ASSUME FieldsAssumption == Contents \cup Reasonings \subseteq Seq(STRING)

VARIABLES
  spelled,     \* by field: the whole of what upstream sends
  taken,       \* by field: how much of it came in
  framer,      \* by field: the _MiniMaxM3ToolFramer
  shown,       \* by field: what went on to the client
  structured,  \* ordinary tool calls were seen
  generated,   \* tool calls made of markup
  outcome      \* "streaming", "finished" or "error"

nativeVars == <<spelled, taken, framer, shown, structured, generated, outcome>>

Fields == {"content", "reasoning"}
Namespace == <<"[", "n">>
BlockStart == <<"[", "n", "s">>
BlockEnd == <<"[", "n", "e">>

-----------------------------------------------------------------------------
Found(s, marker) == {i \in DOMAIN s : IsPrefix(marker, SubSeq(s, i, Len(s)))}
Leftmost(S) == CHOOSE i \in S : \A j \in S : i <= j
Before_(s, i) == SubSeq(s, 1, i - 1)
From(s, i) == SubSeq(s, i, Len(s))
AllBlank(s) == \A i \in DOMAIN s : s[i] = "_"

\* Mistake: a marker that lacks its last symbol only is not waited for.
HeldButTheLast(s, marker) ==
  LET starts == {i \in DOMAIN s : Len(s) - i + 1 < Len(marker) - 1 /\ IsPrefix(From(s, i), marker)}
  IN  IF starts = {} THEN Len(s) + 1 ELSE Leftmost(starts)

\* _partial_marker_suffix_length, as the position where a marker may have begun.
Held(s, marker) ==
  LET starts == {i \in DOMAIN s : Len(s) - i + 1 < Len(marker) /\ IsPrefix(From(s, i), marker)}
  IN  IF starts = {} THEN Len(s) + 1 ELSE Leftmost(starts)

NewFramer == [mode |-> "text", tail |-> <<>>, tool |-> <<>>, error |-> FALSE]
Fail(f) == [f EXCEPT !.error = TRUE]

\* _feed_tool_block: what follows the block must be blank.
FeedBlock(f, s) ==
  LET candidate == f.tail \o s IN
  IF Found(candidate, BlockEnd) # {}
  THEN LET i == Leftmost(Found(candidate, BlockEnd))
           done == [f EXCEPT !.mode = "after", !.tail = <<>>, !.tool = @ \o Before_(candidate, i)]
       IN  IF AllBlank(From(candidate, i + Len(BlockEnd))) THEN done ELSE Fail(done)
  ELSE LET h == Held(candidate, BlockEnd)
       IN  [f EXCEPT !.tool = @ \o Before_(candidate, h), !.tail = From(candidate, h)]

\* feed: the namespace may only be the start of a tool block, whole or begun.
Feed(f, s) ==
  LET candidate == f.tail \o s
      marker == Found(candidate, BlockStart)
      at == IF marker # {} THEN Leftmost(marker) ELSE Held(candidate, BlockStart)
      names == Found(candidate, Namespace)
  IN  CASE s = <<>> -> f
        [] s # <<>> /\ f.mode = "block" -> FeedBlock(f, s)
        [] s # <<>> /\ f.mode = "after" -> IF AllBlank(s) THEN f ELSE Fail(f)
        [] s # <<>> /\ f.mode = "text" ->
             IF names # {} /\ Leftmost(names) # at THEN Fail(f)
             ELSE IF marker # {}
             THEN FeedBlock([f EXCEPT !.mode = "block", !.tail = <<>>],
                            From(candidate, at + Len(BlockStart)))
             ELSE [f EXCEPT !.tail = From(candidate, at)]

\* What of a fed chunk can be shown already.
Visible(f, s) ==
  LET candidate == f.tail \o s
      marker == Found(candidate, BlockStart)
  IN  IF f.mode # "text" \/ s = <<>> THEN <<>>
      ELSE Before_(candidate, IF marker # {} THEN Leftmost(marker) ELSE Held(candidate, BlockStart))

\* finish: a tail that is no markup is shown after all; markup that is not complete is an error,
\* unless ordinary tool calls make it irrelevant.
Rest(f) == IF f.mode = "text" /\ Found(f.tail, Namespace) = {} THEN f.tail ELSE <<>>
Unfinished(f) == \/ f.mode = "text" /\ Found(f.tail, Namespace) # {}
                 \/ f.mode = "block"

\* _parse_tool_block: one call for every invoke and nothing else but blanks.
Calls_(block) == Cardinality({i \in DOMAIN block : block[i] = "v"})
WellFormed(block) == Calls_(block) > 0 /\ \A i \in DOMAIN block : block[i] \in {"v", "_"}

Blocks(fs) == {x \in Fields : fs[x].mode = "after"}

-----------------------------------------------------------------------------
NativeInit ==
  /\ \E c \in Contents, r \in Reasonings : spelled = [content |-> c, reasoning |-> r]
  /\ taken = [x \in Fields |-> 0]
  /\ framer = [x \in Fields |-> NewFramer]
  /\ shown = [x \in Fields |-> <<>>]
  /\ structured = FALSE
  /\ generated = 0
  /\ outcome = "streaming"

\* A chunk with some of one field, possibly with an ordinary tool call.
ChunkOf(x, n) ==
  /\ outcome = "streaming"
  /\ n \in (taken[x] + 1)..Len(spelled[x])
  /\ LET s == SubSeq(spelled[x], taken[x] + 1, n)
         f == Feed(framer[x], s)
     IN  /\ framer' = [framer EXCEPT ![x] = f]
         /\ shown' = IF f.error THEN shown ELSE [shown EXCEPT ![x] = @ \o Visible(framer[x], s)]
         /\ outcome' = IF f.error THEN "error" ELSE outcome
  /\ taken' = [taken EXCEPT ![x] = n]
  /\ UNCHANGED <<spelled, structured, generated>>

StructuredCall ==
  /\ outcome = "streaming" /\ ~structured
  /\ structured' = TRUE
  /\ UNCHANGED <<spelled, taken, framer, shown, generated, outcome>>

\* finish_reason, or the end of the stream without one.
FinishFramers ==
  /\ outcome = "streaming"
  /\ \A x \in Fields : taken[x] = Len(spelled[x])
  /\ LET blocks == Blocks(framer)
         bad == /\ ~structured
                /\ \/ \E x \in Fields : Unfinished(framer[x])
                   \/ Cardinality(blocks) > 1
                   \/ \E x \in blocks : ~WellFormed(framer[x].tool)
     IN  IF bad
         THEN outcome' = "error" /\ UNCHANGED <<shown, generated>>
         ELSE /\ outcome' = "finished"
              /\ shown' = [x \in Fields |-> shown[x] \o Rest(framer[x])]
              /\ generated' = IF structured \/ blocks = {} THEN 0
                              ELSE Calls_(framer[CHOOSE x \in blocks : TRUE].tool)
  /\ UNCHANGED <<spelled, taken, framer, structured>>

NativeStep == StructuredCall \/ FinishFramers
              \/ \E x \in Fields : \E n \in 1..Len(spelled[x]) : ChunkOf(x, n)
NativeSpec == NativeInit /\ [][NativeStep]_nativeVars

-----------------------------------------------------------------------------
(* Properties *)

AtOnceShown(x) == LET f == Feed(NewFramer, spelled[x])
                  IN  Visible(NewFramer, spelled[x]) \o Rest(f)
AtOnceErrs(x) == Feed(NewFramer, spelled[x]).error

\* Wherever the chunks end, the client is shown what it would be shown of the whole text, and
\* markup that is refused as a whole is refused in pieces.
CutsDoNotMoveMarkup ==
  /\ outcome = "finished" => \A x \in Fields : shown[x] = AtOnceShown(x) /\ ~AtOnceErrs(x)
  /\ outcome = "streaming" => \A x \in Fields :
       taken[x] = Len(spelled[x]) => framer[x] = Feed(NewFramer, spelled[x])

\* Markup is not shown, not even by a stream that fails later on.
MarkupIsNotShown == \A x \in Fields : Found(shown[x], Namespace) = {}

\* The calls behind the start of a block.
Leaked(s) == {i \in DOMAIN s : s[i] = "v" /\ \E j \in Found(s, BlockStart) : j < i}

\* A leaked block is not lost: an answer without ordinary calls that finishes has all its calls.
LeakedCallsAreMade ==
  outcome = "finished" /\ ~structured =>
    generated = Cardinality(Leaked(spelled["content"])) + Cardinality(Leaked(spelled["reasoning"]))

\* Leaked markup is taken for what it is, wherever it is cut.
MarkupIsUnderstood == CutsDoNotMoveMarkup /\ MarkupIsNotShown /\ LeakedCallsAreMade
=============================================================================
