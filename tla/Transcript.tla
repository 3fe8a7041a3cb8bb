------------------------------ MODULE Transcript ------------------------------
(***************************************************************************)
(* What a chat sees of a turn: the events of the Claude CLI become a       *)
(* transcript of segments, which is rendered into one message of bounded   *)
(* length.  A Task call opens a subagent, whose words are not shown; which *)
(* agent speaks is not in the events, so the open Task calls decide.       *)
(*                                                                         *)
(* Sources: messaging/event_parser.py, messaging/node_event_pipeline.py,   *)
(* messaging/transcript/*.py                                               *)
(*                                                                         *)
(* The CLI prints whole messages, or the pieces of their blocks by index   *)
(* when what it is run with streams them.  Words are numbered as they are  *)
(* said; lengths count words.                                              *)
(***************************************************************************)
EXTENDS Integers, Sequences, FiniteSets, Functions, SequencesExt

CONSTANTS
  Tasks,      \* ids of Task calls
  OtherTools, \* ids of other calls
  Alike,      \* pairs of ids of which one starts with the other
  MaxEvents,  \* events a CLI prints
  TailMax,    \* words of a segment that are shown: text_tail_max, ...
  Marker,     \* length of "... (truncated)"
  MinTail,    \* the 20 characters that make a cut segment worth showing
  Limits      \* limit_chars, with the length of the status

ASSUME TranscriptAssumption ==
  /\ Tasks \cap OtherTools = {}
  /\ Alike \subseteq Tasks \X Tasks
  /\ \A a, b \in Tasks : <<a, b>> \in Alike => <<b, a>> \in Alike
  /\ {MaxEvents, TailMax, Marker, MinTail} \subseteq Nat
  /\ Limits \subseteq [limit : Nat, status : Nat]

VARIABLES
  view,   \* the TranscriptBuffer
  agents, \* the truth: by Task and tool "new", "running" or "done"
  spoken, \* words of the main agent, in order
  stream, \* the block being streamed: its kind and index, or none
  events, \* events printed
  turn    \* "running", "complete" or "failed", for process_parsed_cli_event

transcriptVars == <<view, agents, spoken, stream, events, turn>>

NoId == "none"
NoBlock == [kind |-> "none", index |-> 0]

TranscriptInit ==
  /\ view = [segments |-> <<>>, text |-> <<>>, thinking |-> <<>>, tool |-> <<>>,
             stack |-> <<>>, heard |-> FALSE]
  /\ agents = [a \in Tasks \cup OtherTools |-> "new"]
  /\ spoken = <<>> /\ stream = NoBlock /\ events = 0 /\ turn = "running"

-----------------------------------------------------------------------------
(* Segments and the blocks that are open by index.                         *)

Segment(kind, words, id) ==
  [kind |-> kind, words |-> words, id |-> id, closed |-> FALSE, calls |-> 0]
Show(v, s) == [v EXCEPT !.segments = Append(@, s)]
Newest(v) == Len(v.segments)
At(f, i, x) == [k \in DOMAIN f \cup {i} |-> IF k = i THEN x ELSE f[k]]
Not(f, i) == [k \in DOMAIN f \ {i} |-> f[k]]

InSubagent(v) == v.stack # <<>>

\* _close_block: one block of the index, a tool's before thinking before text.
CloseBlock(v, i) ==
  IF i \in DOMAIN v.tool
  THEN [v EXCEPT !.tool = Not(@, i), !.segments[v.tool[i]].closed = TRUE]
  ELSE IF i \in DOMAIN v.thinking THEN [v EXCEPT !.thinking = Not(@, i)]
  ELSE IF i \in DOMAIN v.text THEN [v EXCEPT !.text = Not(@, i)]
  ELSE v

OpenAt(v, kind, i) ==
  IF i < 0 THEN v
  ELSE CASE kind = "text"     -> [v EXCEPT !.text = At(@, i, Newest(v))]
         [] kind = "thinking" -> [v EXCEPT !.thinking = At(@, i, Newest(v))]
         [] OTHER             -> [v EXCEPT !.tool = At(@, i, Newest(v))]

StartWords(v, kind, i) ==
  OpenAt(Show(IF i < 0 THEN v ELSE CloseBlock(v, i), Segment(kind, <<>>, NoId)), kind, i)

OpenOf(v, kind) == IF kind = "text" THEN v.text ELSE v.thinking

\* Words of no open block begin a segment.
AppendWords(v, kind, i, word) ==
  LET w == IF i \in DOMAIN OpenOf(v, kind) THEN v
           ELSE OpenAt(Show(v, Segment(kind, <<>>, NoId)), kind, i)
      s == IF i \in DOMAIN OpenOf(v, kind) THEN OpenOf(v, kind)[i] ELSE Newest(w)
  IN  [w EXCEPT !.segments[s].words = Append(@, word)]

\* A subagent's words are left out; the ends of its blocks are not.
Words(v, e) ==
  IF InSubagent(v) THEN v
  ELSE IF e.type = "start" THEN StartWords(v, e.kind, e.index)
       ELSE AppendWords(v, e.kind, e.index, e.word)

-----------------------------------------------------------------------------
(* SubagentState: the Task calls that have no result yet.                  *)

Push(v, id) ==
  LET w == Show(v, Segment("subagent", <<>>, id))
  IN  [w EXCEPT !.stack = Append(@, [id |-> id, segment |-> Newest(w)])]

RoughlyMatch(a, b) == a = b \/ <<a, b>> \in Alike

\* Mistake: only the innermost Task can end.
PopInnermost(v, id) ==
  IF v.stack # <<>> /\ RoughlyMatch(Last(v.stack).id, id)
  THEN [v EXCEPT !.stack = Front(@)] ELSE v
\* The innermost Task that matches ends, and all that were opened after it.
Pop(v, id) ==
  LET matching == {k \in DOMAIN v.stack : RoughlyMatch(v.stack[k].id, id)}
  IN  IF matching = {} THEN v
      ELSE [v EXCEPT !.stack =
              SubSeq(@, 1, (CHOOSE k \in matching : \A j \in matching : j <= k) - 1)]

\* A tool of a subagent is counted and shown in the subagent's segment.
ToolCall(v, e) ==
  LET w == IF e.index < 0 THEN v ELSE CloseBlock(v, e.index) IN
  CASE e.id \in Tasks -> Push(w, e.id)
    [] e.id \notin Tasks /\ InSubagent(w) ->
         [w EXCEPT !.segments[Last(w.stack).segment].calls = @ + 1,
                   !.tool = IF e.index < 0 THEN @ ELSE At(@, e.index, Last(w.stack).segment)]
    [] OTHER -> OpenAt(Show(w, [Segment("tool", <<>>, e.id) EXCEPT !.closed = e.index < 0]),
                       "tool", e.index)

ToolResult(v, id) == Pop(v, id)

\* TranscriptBuffer.apply
Apply(v, e) ==
  CASE e.type \in {"start", "delta"} -> Words(v, e)
    [] e.type = "stop"               -> CloseBlock(v, e.index)
    [] e.type = "tool"               -> ToolCall(v, e)
    [] e.type = "result"             -> ToolResult(v, e.id)
    [] OTHER                         -> Show(v, Segment("error", <<>>, NoId))

-----------------------------------------------------------------------------
(* The events of a CLI.                                                    *)

Event(type, kind, index, word, id) ==
  [type |-> type, kind |-> kind, index |-> index, word |-> word, id |-> id]

Prints(e) ==
  /\ turn = "running" /\ events < MaxEvents
  /\ events' = events + 1
  /\ view' = [Apply(view, e) EXCEPT !.heard = TRUE]

RunningTasks == {t \in Tasks : agents[t] = "running"}
MainSpeaks == RunningTasks = {}

\* A block of a message, said by the main agent or by the subagent of a Task.
Says(kind) ==
  /\ stream = NoBlock
  /\ Prints(Event("delta", kind, -1, events + 1, NoId))
  /\ spoken' = IF MainSpeaks THEN Append(spoken, events + 1) ELSE spoken
  /\ UNCHANGED <<agents, stream, turn>>

\* The same in pieces; a retried message starts its blocks anew and ends none.
StreamStarts(kind, index) ==
  /\ MainSpeaks
  /\ Prints(Event("start", kind, index, 0, NoId))
  /\ stream' = [kind |-> kind, index |-> index]
  /\ UNCHANGED <<agents, spoken, turn>>

StreamSays ==
  /\ stream.kind \in {"text", "thinking"}
  /\ Prints(Event("delta", stream.kind, stream.index, events + 1, NoId))
  /\ spoken' = Append(spoken, events + 1)
  /\ UNCHANGED <<agents, stream, turn>>

StreamStops ==
  /\ stream # NoBlock
  /\ Prints(Event("stop", "none", stream.index, 0, NoId))
  /\ stream' = NoBlock
  /\ UNCHANGED <<agents, spoken, turn>>

\* Several Tasks may run at once; only the main agent starts them.
Calls(id, index) ==
  /\ agents[id] = "new" /\ stream = NoBlock
  /\ Prints(Event("tool", "none", index, 0, id))
  /\ agents' = [agents EXCEPT ![id] = "running"]
  /\ stream' = IF index < 0 THEN NoBlock ELSE [kind |-> "tool", index |-> index]
  /\ UNCHANGED <<spoken, turn>>

Returns(id) ==
  /\ agents[id] = "running" /\ stream = NoBlock
  /\ Prints(Event("result", "none", -1, 0, id))
  /\ agents' = [agents EXCEPT ![id] = "done"]
  /\ UNCHANGED <<spoken, stream, turn>>

Fails ==
  /\ Prints(Event("error", "none", -1, 0, NoId))
  /\ turn' = "failed"
  /\ UNCHANGED <<agents, spoken, stream>>

\* The exit of a CLI that had nothing to say is shown as "Done."
Completes ==
  /\ turn = "running"
  /\ turn' = "complete"
  /\ view' = IF view.heard THEN view
             ELSE Apply(view, Event("delta", "text", -1, 0, NoId))
  /\ UNCHANGED <<agents, spoken, stream, events>>

TranscriptNext ==
  \/ \E kind \in {"text", "thinking"} : Says(kind) \/ \E i \in {0, 1} : StreamStarts(kind, i)
  \/ StreamSays \/ StreamStops
  \/ \E id \in Tasks \cup OtherTools : Returns(id) \/ \E i \in {-1, 0, 1} : Calls(id, i)
  \/ Fails \/ Completes

TranscriptSpec == TranscriptInit /\ [][TranscriptNext]_transcriptVars

-----------------------------------------------------------------------------
(* Rendering: how long the segments are, and which of them fit.            *)

\* A segment's heading is 1 long, and a text without words renders to nothing.
Lengths(v) ==
  [s \in DOMAIN v.segments |->
     LET n == Len(v.segments[s].words) IN
     IF v.segments[s].kind = "text" /\ n = 0 THEN 0
     ELSE 1 + (IF n > TailMax THEN TailMax ELSE n)]

Rendered(lengths) == {s \in DOMAIN lengths : lengths[s] > 0}

Joined(lengths, parts, marker, status) ==
  FoldFunctionOnSet(LAMBDA a, n : a + n, status, lengths, parts)
    + (IF parts = {} THEN 0 ELSE Cardinality(parts) - 1 + marker)

\* [parts, length] of what is sent: all, the newest that fit behind the marker, the
\* tail of the newest, the marker, or the status alone.  The status comes with the
\* blank line before it, 2 long.
Render(lengths, limit, status) ==
  LET parts == Rendered(lengths)
      From(k) == {s \in parts : s >= k}
      fits == {k \in parts : Joined(lengths, From(k), Marker, status) <= limit}
      budget == limit - Marker - status
      newest == CHOOSE k \in fits : \A j \in fits : k <= j
      bare == IF status = 0 THEN 0 ELSE status - 2
  IN  IF Joined(lengths, parts, 0, status) <= limit
      THEN [parts |-> Cardinality(parts), length |-> Joined(lengths, parts, 0, status)]
      ELSE IF fits # {}
      THEN [parts |-> Cardinality(From(newest)),
            length |-> Joined(lengths, From(newest), Marker, status)]
      ELSE IF budget > MinTail THEN [parts |-> 1, length |-> Marker + status + budget]
      ELSE IF parts # {} /\ Marker + bare <= limit THEN [parts |-> 0, length |-> Marker + bare]
      ELSE [parts |-> 0, length |-> bare]

-----------------------------------------------------------------------------
(* Properties.                                                             *)

WordsShown ==
  FlattenSeq([s \in DOMAIN view.segments |-> view.segments[s].words])

\* What the main agent says is shown, once and in the order it was said, however
\* Task calls overlap, whatever result ends them, and whether blocks are streamed,
\* restarted or closed late: no open Task is left behind that would hide the rest of
\* the turn.  Words are numbered as they are said.  What is sent keeps to the limit of
\* the platform, unless the status alone is longer, and shows the newest segments.
MainIsHeard ==
  /\ RunningTasks = {} => view.stack = <<>>
  /\ \A i, j \in DOMAIN WordsShown : i < j => WordsShown[i] < WordsShown[j]
  /\ ToSet(spoken) \subseteq ToSet(WordsShown)
  /\ turn = "complete" => view.segments # <<>>
  /\ \A l \in Limits :
       LET r == Render(Lengths(view), l.limit, l.status) IN
       r.length <= l.limit \/ (r.parts = 0 /\ r.length <= l.status)
=============================================================================
