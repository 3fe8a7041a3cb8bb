------------------------------ MODULE MCServing ------------------------------
(* Small instances of the way from a request to its answer.  A behaviour is    *)
(* about requests for one model name, the history one request replays, one     *)
(* stream of an OpenAI-chat provider, an answer that is translated twice, the  *)
(* names of a request's tools and of a call, a text that goes through the      *)
(* parsers, or the markup of a native tool call.                               *)
EXTENDS RequestServing, Answers, AnswerText, RequestConversion, ToolNames, TLC

CONSTANT Subjects \* what the behaviours are about, each with its cast

VARIABLE subject

bystanders == <<translationVars, parserVars, nativeVars, conversionVars, nameVars>>
others == <<chatVars, bystanders>>
all == <<servingVars, others, subject>>

\* A is the model of the tier a client asks for, B the global fallback.
A == <<"nim", "a">>
B == <<"router", "b">>

MCNames == {TierName("opus"), GatewayName(A)}
MCTierRefs == [opus |-> <<A>>]

\* The first request may come over both streaming wires, the second is not streamed.
MCWires == (1 :> {"messages", "responses"}) @@ (2 :> {"json"})

MCTools == {1, 2}
MCKinds == (1 :> "plain") @@ (2 :> "Task")

MCItems == 1..5
MCItemKind == (1 :> "message") @@ (2 :> "sealed") @@ (3 :> "call") @@ (4 :> "reasoning") @@ (5 :> "custom")

\* What a client may send: calls with their answers, among words and reasoning.  A
\* word is sent once, a result may be sent again.
Spoken(kind) == [kind |-> kind, id |-> NoId]
Called(id) == [kind |-> "call", id |-> id]
Returned(id) == [kind |-> "output", id |-> id]
ItemCasts ==
  {{Called(1), Called(2), Returned(1), Returned(2), Spoken("user"), Spoken("both")},
   {Called(1), Returned(1), Spoken("thought"), Spoken("sealed"), Spoken("assistant"),
    Spoken("said"), Spoken("user")},
   {Called(1), Returned(1), [kind |-> "bad call", id |-> 2], Returned(2), Spoken("thought"),
    Spoken("system"), Spoken("user")}}

Text == <<"text", NoId>>
Use(id) == <<"tool", id>>
Result(id) == <<"result", id>>
Thinking == <<"thinking", NoId>>
Assistant(blocks, thoughtful) == [role |-> "assistant", shape |-> blocks, thoughtful |-> thoughtful]
User(blocks) == [role |-> "user", shape |-> blocks, thoughtful |-> FALSE]
MessageCasts ==
  {{Assistant(<<Text, Use(1), Text>>, FALSE), Assistant(<<Thinking, Text, Use(2)>>, TRUE),
    User(<<Result(1)>>), User(<<Result(2), Result(1)>>), User(<<Text>>)},
   {Assistant(<<Use(1), Thinking, Use(2)>>, TRUE), Assistant(<<Text>>, TRUE),
    User(<<Result(2), Result(1)>>), User(<<Text, Result(1)>>), User(<<Result(2), Text>>)},
   {Assistant(<<Thinking, Text>>, FALSE), Assistant(<<<<"server", NoId>>>>, FALSE),
    User(<<Text, <<"image", NoId>>>>), User(<<<<"document", NoId>>>>),
    [User(<<Text>>) EXCEPT !.role = "system"]}}

MCItemsOffered == UNION ItemCasts
MCMessagesOffered == UNION MessageCasts

\* The items an upstream answer has: a call among others, or two that may overlap.
AllSubjects ==
  {<<"requests", {n}>> : n \in MCNames}
    \cup {<<"history", cast>> : cast \in ItemCasts \cup MessageCasts}
    \cup {<<about, {}>> : about \in {"stream", "text", "markup", "names"}}
    \cup {<<"answer", cast>> : cast \in {{1, 2, 3}, {3, 5}, {1, 4}}}

RequestsOnly == {<<"requests", {TierName("opus")}>>}

Joined(parts, n) == {FlattenSeq(s) : s \in SeqOf(parts, n)}

MCTexts ==
  Joined({OpenTag, CloseTag, <<"<">>, <<"<", "t">>, <<"<", "/">>, <<"x">>}, 3)
    \cup Joined({<<"b">>, <<"f">>, <<"p", "x", "q">>, <<"x">>, <<"c">>, <<"d">>}, 3)

MCContents ==
  Joined({BlockStart, BlockEnd, Namespace, <<"v">>, <<"_">>, <<"x">>}, 3)
    \cup {BlockStart \o <<"v", "_", "v">> \o BlockEnd,
          BlockStart \o <<"v">> \o <<"[">> \o BlockEnd \o <<"_">>,
          <<"x", "[", "[">> \o BlockStart \o <<"v">> \o BlockEnd}

MCReasonings == {<<>>, <<"x", "[">>, BlockStart \o <<"v">> \o BlockEnd}

\* Two names whose digests collide with each other and with a name that was called
\* before; a namespace whose name for a tool is also that of a function; a name that
\* begins an alias; a tool that cannot be converted.
Read == <<"r">>
Dotted == <<"r", ".">>
Banged == <<"r", "!">>
Near == <<"r", "x">>
Reversed == <<"x", "r">>
Spaced == <<"s", "_", "t">>
RAlias(digest) == <<"r", "_", digest>>
Digests(a, b, c) == (0 :> RAlias(a)) @@ (1 :> RAlias(b)) @@ (2 :> RAlias(c))
MCPortable == {Read, Near, Reversed, Spaced} \cup {RAlias(d) : d \in {"1", "2", "3", "4"}}
MCClientNames == {Dotted, Banged} \cup MCPortable
MCAliasAt == (Dotted :> Digests("1", "2", "4")) @@ (Banged :> Digests("3", "1", "4"))
MCSortKey == (Dotted :> 2) @@ (Banged :> 1)
MCJoint == (<<<<"s">>, <<"t">>>> :> Spaced) @@ (<<<<"s">>, <<"v">>>> :> Dotted)
OneTool(kind, n) == [kind |-> kind, name |-> n, space |-> NoName]
SpaceOfTwo == [kind |-> "namespace", name |-> <<"s">>,
               tools |-> <<OneTool("custom", <<"v">>), OneTool("function", <<"t">>)>>]
NoAsk == [catalog |-> <<>>, past |-> {}, choice |-> {}]
MCAsks ==
  {NoAsk,
  [catalog |-> <<OneTool("function", Read), OneTool("function", Dotted), OneTool("custom", Banged)>>,
   past |-> {RAlias("3")}, choice |-> {}],
   [catalog |-> <<OneTool("function", Near), SpaceOfTwo, OneTool("function", Spaced)>>,
    past |-> {Reversed, RAlias("1")},
    choice |-> {}],
   [catalog |-> <<OneTool("passive", NoName), OneTool("function", Dotted)>>, past |-> {Read, Reversed},
    choice |-> {}],
   [catalog |-> <<OneTool("unknown", NoName), OneTool("function", Dotted)>>, past |-> {},
    choice |-> {}],
   [catalog |-> <<OneTool("function", Read)>>, past |-> {Reversed}, choice |-> {}],
   [catalog |-> <<SpaceOfTwo>>, past |-> {}, choice |-> {[OneTool("custom", <<"v">>) EXCEPT !.space = <<"s">>]}]}

\* What a behaviour is not about is at rest.
MCInit ==
  /\ subject \in Subjects
  /\ ParserInit
  /\ subject[1] # "text" => text = <<>>
  /\ NativeInit
  /\ IF subject[1] = "markup" THEN spelled.reasoning = <<>> \/ Len(spelled.content) <= 4
     ELSE spelled.reasoning = <<>> /\ spelled.content = <<>>
  /\ ConversionInit
  /\ subject[1] # "history" => target = "field"
  /\ NamesInit
  /\ (subject[1] = "names") = (asked # NoAsk)
  /\ ServingInit /\ ChatInit /\ TranslationInit

ChatMoves ==
  subject[1] = "stream" /\ ChatStep /\ UNCHANGED <<servingVars, bystanders, subject>>

FromTheCast ==
  \A i \in DOMAIN sent' :
    /\ sent'[i] \in subject[2]
    /\ \A j \in 1 .. i - 1 : sent'[i] = sent'[j] =>
         sent'[i] \in ItemsOffered /\ sent'[i].kind = "output"

MCNext ==
  \/ /\ subject[1] = "requests" /\ ServingNext
     /\ \A r \in Requests : place'[r] = "idle" \/ name'[r] \in subject[2]
     /\ UNCHANGED <<others, subject>>
  \/ ChatMoves
  \/ /\ subject[1] = "answer" /\ TranslationStep
     /\ \A i \in Items \ subject[2] : upstream'.state[i] = "none"
     /\ UNCHANGED <<servingVars, chatVars, parserVars, nativeVars, conversionVars, nameVars, subject>>
  \/ /\ subject[1] = "text" /\ ParserStep
     /\ UNCHANGED <<servingVars, chatVars, translationVars, nativeVars, conversionVars, nameVars, subject>>
  \/ /\ subject[1] = "markup" /\ NativeStep
     /\ UNCHANGED <<servingVars, chatVars, translationVars, parserVars, conversionVars, nameVars, subject>>
  \/ /\ subject[1] = "history" /\ ConversionNext /\ FromTheCast
     /\ UNCHANGED <<servingVars, chatVars, translationVars, parserVars, nativeVars, nameVars, subject>>
  \/ /\ subject[1] = "names" /\ NamesNext
     /\ UNCHANGED <<servingVars, chatVars, translationVars, parserVars, nativeVars, conversionVars, subject>>

MCSafety == MCInit /\ [][MCNext]_all
MCSpec == MCSafety /\ ServingFairness /\ WF_all(ChatMoves)

\* Requests and streams end, whatever fails and whoever leaves (see the modules).
EveryAnswerEnds == EveryRequestIsServed /\ EveryStreamEnds
=============================================================================
