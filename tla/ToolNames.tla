------------------------------ MODULE ToolNames ------------------------------
(***************************************************************************)
(* The names of tools between a client and its upstream.  A Responses       *)
(* client offers functions, custom tools and namespaces of both; a tool of  *)
(* a namespace becomes one Anthropic name.  A name that OpenAI does not     *)
(* take is sent as an alias, a stem and a digest of the name.  The upstream *)
(* calls a tool by its wire name, which may arrive cut into fragments, or   *)
(* grown by each of them; what may still become an alias is held back, and  *)
(* arguments that arrive before the name wait for it.                       *)
(*                                                                         *)
(* A name is a sequence of letters.  A behaviour is one request and one     *)
(* call of its answer, of which a broken attempt may be repeated.           *)
(***************************************************************************)
EXTENDS Integers, Sequences, SequencesExt

CONSTANTS
  ClientNames,  \* the names clients use
  Portable,     \* the names that are sent as they are
  AliasTries,   \* bounds the digests of a name
  AliasAt,      \* the alias of a name, for each of its digests
  SortKey,      \* the alphabetical order of the names
  Joint,        \* the one name of a namespace and a name in it
  Asks,         \* the requests: [catalog, past, choice]: tools, names of earlier calls, and the
                \* tool the answer has to call, if any
  MaxFragments  \* bounds the fragments of a call

ASSUME NamesAssumption ==
  /\ AliasTries \in Nat
  /\ AliasAt \in [ClientNames \ Portable -> [0 .. AliasTries -> Portable]]

Letters == UNION {Range(w) : w \in ClientNames \cup Portable}
Aliases == {AliasAt[n][d] : n \in ClientNames \ Portable, d \in 0 .. AliasTries}

\* Names are sequences of letters, and an alias ends in a digest of its name: no name goes
\* on where one ends, unless a client spells out the digest.
ASSUME WordsAssumption ==
  /\ ClientNames \cup Portable \subseteq Seq(Letters) \ {<<>>}
  /\ \A alias \in Aliases, w \in (ClientNames \cap Portable) \cup Aliases : ~IsStrictPrefix(alias, w)

VARIABLES
  asked,    \* the request
  aliases,  \* the alias of each name that has one by now
  digests,  \* how many digests of the next name are taken
  call,     \* what the upstream says: [name, sent, cut, fragments, args, again]
  restored  \* what became of it: [held, known, started, early, shown, verdict]

nameVars == <<asked, aliases, digests, call, restored>>

-----------------------------------------------------------------------------
(* The tools of a request *)

NoName == <<>>

Offered(entry) ==
  CASE entry.kind \in {"passive", "unknown"} -> <<>>
    [] entry.kind = "namespace" ->
         [i \in DOMAIN entry.tools |-> [entry.tools[i] EXCEPT !.space = entry.name]]
    [] OTHER -> <<[kind |-> entry.kind, name |-> entry.name, space |-> NoName]>>

OfferedBy(ask) == FlattenSeq([i \in DOMAIN ask.catalog |-> Offered(ask.catalog[i])])
OfferedTools == OfferedBy(asked)

Convertible == \A i \in DOMAIN asked.catalog : asked.catalog[i].kind # "unknown"

\* A tool of a namespace, and its calls, have the one name of both.
ClientName(tool) == IF tool.space = NoName THEN tool.name ELSE Joint[tool.space, tool.name]

\* The first tool of that name.
Identity(name) ==
  LET i == SelectInSeq(OfferedTools, LAMBDA tool : ClientName(tool) = name) IN
  IF i = 0 THEN [kind |-> "function", name |-> name, space |-> NoName] ELSE OfferedTools[i]

\* convert_tool_choice
Chosen(ask) == {ClientName(tool) : tool \in ask.choice}

RequestedBy(ask) ==
  ask.past \cup Chosen(ask) \cup {ClientName(OfferedBy(ask)[i]) : i \in DOMAIN OfferedBy(ask)}
Requested == RequestedBy(asked)

ASSUME AsksAssumption ==
  \A ask \in Asks :
    /\ RequestedBy(ask) \subseteq ClientNames
    /\ ask.catalog \in Seq(Range(ask.catalog))
    /\ \A entry \in Range(ask.catalog) : entry.kind = "namespace" => entry.tools \in Seq(Range(entry.tools))

-----------------------------------------------------------------------------
(* The codec *)

Unchanged == Requested \cap Portable
Unaliased == (Requested \ Portable) \ DOMAIN aliases
AliasesInUse == {aliases[n] : n \in DOMAIN aliases}

OnlyAliases == AliasesInUse
Reserved == Unchanged \cup AliasesInUse

Encode(n) == IF n \in DOMAIN aliases THEN aliases[n] ELSE n
Decode(w) ==
  IF w \in AliasesInUse THEN CHOOSE n \in DOMAIN aliases : aliases[n] = w ELSE w

AliasPrefix(w) == \E alias \in AliasesInUse : IsStrictPrefix(w, alias)

\* _unique_alias, one digest at a time
TakeAlias ==
  /\ Convertible
  /\ \E n \in Unaliased :
       /\ \A m \in Unaliased : SortKey[n] <= SortKey[m]
       /\ IF AliasAt[n][digests] \in Reserved
          THEN digests < AliasTries /\ digests' = digests + 1 /\ UNCHANGED aliases
          ELSE /\ digests' = 0
               /\ aliases' = [m \in DOMAIN aliases \cup {n} |->
                                IF m = n THEN AliasAt[n][digests] ELSE aliases[m]]
  /\ UNCHANGED <<asked, call, restored>>

-----------------------------------------------------------------------------
(* A call in the answer *)

Unheard == [held |-> NoName, known |-> NoName, started |-> NoName, early |-> 0, shown |-> 0,
            verdict |-> "open"]
Uncalled == [name |-> NoName, sent |-> 0, cut |-> FALSE, fragments |-> 0, args |-> 0, again |-> FALSE]

\* _merge_tool_name and register_tool_name: a fragment repeats, grows or continues.
Merged(old, new) ==
  IF IsPrefix(old, new) THEN new ELSE IF IsPrefix(new, old) THEN old ELSE old \o new

Registered(h, name) == [h EXCEPT !.held = NoName, !.known = Merged(@, name)]

\* _decode_streamed_tool_name
Named(h, fragment) ==
  LET name == Merged(h.held, fragment) IN
  IF aliases = <<>> THEN Registered(h, fragment)
  ELSE IF name \notin AliasesInUse /\ AliasPrefix(name) THEN [h EXCEPT !.held = name]
  ELSE Registered(h, Decode(name))

\* The block starts when the call has a name, with the arguments that waited for it.
Started(h) ==
  IF h.started = NoName /\ h.known # NoName
  THEN [h EXCEPT !.started = h.known, !.shown = h.early, !.early = 0] ELSE h

NamesInit ==
  /\ asked \in Asks
  /\ aliases = <<>> /\ digests = 0
  /\ call = Uncalled /\ restored = Unheard

CallTool ==
  /\ Convertible /\ Unaliased = {} /\ call.name = NoName
  /\ \E n \in Requested :
       /\ Chosen(asked) \subseteq {n}
       /\ call' = [call EXCEPT !.name = n]
  /\ UNCHANGED <<asked, aliases, digests, restored>>

Wire == Encode(call.name)
Saying == call.name # NoName /\ restored.verdict = "open"

\* The next letters, or all letters up to them.  What could be both is left out: the
\* upstream and the code would not mean the same.
Spellings(j) ==
  LET old == SubSeq(Wire, 1, call.sent)
      new == SubSeq(Wire, call.sent + 1, j)
  IN {old \o new} \cup (IF IsPrefix(new, old) \/ IsPrefix(old, new) THEN {} ELSE {new})

HearName ==
  /\ Saying /\ call.fragments < MaxFragments
  /\ \E j \in 1 .. Len(Wire) : \E f \in Spellings(j) :
       /\ call.sent <= j
       /\ call' = [call EXCEPT !.sent = j, !.cut = @ \/ f # Wire, !.fragments = @ + 1]
       /\ restored' = Started(Named(restored, f))
  /\ UNCHANGED <<asked, aliases, digests>>

HearArguments ==
  /\ Saying /\ call.sent = Len(Wire) /\ call.args < 2
  /\ call' = [call EXCEPT !.args = @ + 1]
  /\ restored' = IF restored.started = NoName THEN [restored EXCEPT !.early = @ + 1]
              ELSE [restored EXCEPT !.shown = @ + 1]
  /\ UNCHANGED <<asked, aliases, digests>>

RetryRemembers ==
  /\ call' = [Uncalled EXCEPT !.again = TRUE]
  /\ restored' = [Unheard EXCEPT !.held = restored.held]

\* Nothing of the call was shown: the attempt is repeated with new buffers.
Repeat ==
  /\ call' = [Uncalled EXCEPT !.again = TRUE]
  /\ restored' = Unheard

Interrupted ==
  IF restored.started = NoName /\ ~call.again THEN Repeat
  ELSE restored' = [restored EXCEPT !.verdict = "broken"] /\ UNCHANGED call

CallBreaks == Saying /\ Interrupted /\ UNCHANGED <<asked, aliases, digests>>

\* A name that is held at the end and is no name of the request was cut off.
CallEnds ==
  /\ Saying
  /\ IF restored.held # NoName /\ restored.held \notin Unchanged THEN Interrupted
     ELSE /\ restored' = [Started(IF restored.held = NoName THEN restored
                               ELSE Registered(restored, Decode(restored.held)))
                         EXCEPT !.verdict = "ended"]
          /\ UNCHANGED call
  /\ UNCHANGED <<asked, aliases, digests>>

NamesNext == TakeAlias \/ CallTool \/ HearName \/ HearArguments \/ CallBreaks \/ CallEnds

NamesSpec == NamesInit /\ [][NamesNext]_nameVars

-----------------------------------------------------------------------------
(* Correctness *)

\* Aliases are names the wire takes, belong to one name each, and never shadow a name
\* that is sent unchanged, whatever digests collide.
AliasesAreOwned ==
  /\ DOMAIN aliases \subseteq Requested \ Portable
  /\ \A n \in DOMAIN aliases : aliases[n] \in Portable \ Unchanged
  /\ \A m, n \in DOMAIN aliases : aliases[m] = aliases[n] => m = n

\* Once every name has its alias, the wire takes each name and gives it back.
CodecIsReversible ==
  Unaliased = {} => \A n \in Requested : Encode(n) \in Portable /\ Decode(Encode(n)) = n

\* The call a client sees has the name of its tool: never an alias or a part of one.
\* Only a name that needs no alias may be shown cut, as it was sent; and an alias that
\* the end of the answer cuts to the name of another tool is taken for that tool.
CallIsRestored ==
  restored.started # NoName =>
    \/ restored.started = call.name
    \/ call.cut /\ call.name \in Portable /\ IsPrefix(restored.started, call.name)
    \/ call.sent < Len(Wire) /\ restored.started = SubSeq(Wire, 1, call.sent) /\ restored.started \in Unchanged

\* A call that was sent whole is shown whole, with its arguments.
CallIsWhole ==
  /\ restored.shown + restored.early = call.args
  /\ restored.started # NoName => restored.early = 0
  /\ restored.verdict = "ended" /\ call.sent > 0 => restored.started # NoName

\* A tool is found again by its name, unless an earlier one has the same name.
ToolsAreFound ==
  \A i \in DOMAIN OfferedTools :
    LET found == Identity(ClientName(OfferedTools[i])) IN
    found = OfferedTools[i] \/ \E j \in 1 .. i - 1 : found = OfferedTools[j]

NamesComeBack == AliasesAreOwned /\ CodecIsReversible /\ CallIsRestored /\ CallIsWhole /\ ToolsAreFound
=============================================================================
