----------------------------- MODULE ServingProofs -----------------------------
(***************************************************************************)
(* What an answer is served with: names of tools that come back as they     *)
(* were asked for, requests that are answered and billed once over runtimes *)
(* that are not closed under them, streams whose blocks are opened and      *)
(* closed once through retries and repairs, and answers that are the same   *)
(* after two translations, for any tools, requests, items and fragments.    *)
(***************************************************************************)
EXTENDS ToolNames, RequestServing, Answers, QueueProofs, TLAPS

(***************************************************************************)
(* Names of tools on the wire.  The aliases are made one at a time, so that *)
(* the facts about them form an inductive invariant; that decoding undoes   *)
(* encoding follows from it once every name has been looked at.             *)
(***************************************************************************)

CodecInvariant == asked \in Asks /\ digests \in 0 .. AliasTries /\ AliasesAreOwned

\* At first there are no aliases.
LEMMA CodecStarts == NamesInit => CodecInvariant
  BY NamesAssumption DEF NamesInit, CodecInvariant, AliasesAreOwned

\* A new alias was not reserved: it is no alias of another name and no name that is
\* sent unchanged.
LEMMA CodecGrows == CodecInvariant /\ [NamesNext]_nameVars => CodecInvariant'
<1> SUFFICES ASSUME CodecInvariant, [NamesNext]_nameVars PROVE CodecInvariant'
  OBVIOUS
<1> USE DEF CodecInvariant
<1>1. CASE TakeAlias
  <2>1. asked' = asked /\ Requested' = Requested /\ Unchanged' = Unchanged
    BY <1>1 DEF TakeAlias, Requested, Unchanged
  <2>2. PICK n \in Unaliased :
          IF AliasAt[n][digests] \in Reserved
          THEN digests < AliasTries /\ digests' = digests + 1 /\ UNCHANGED aliases
          ELSE /\ digests' = 0
               /\ aliases' = [m \in DOMAIN aliases \cup {n} |->
                                IF m = n THEN AliasAt[n][digests] ELSE aliases[m]]
    BY <1>1 DEF TakeAlias
  <2>3. CASE AliasAt[n][digests] \in Reserved
    BY <2>1, <2>2, <2>3, NamesAssumption DEF AliasesAreOwned
  <2>4. CASE AliasAt[n][digests] \notin Reserved
    <3>1. n \in Requested \ Portable
      BY DEF Unaliased
    <3>2. AliasAt[n][digests] \in Portable
      BY <3>1, AsksAssumption, NamesAssumption DEF Requested
    <3>3. AliasAt[n][digests] \notin Unchanged /\ \A m \in DOMAIN aliases : aliases[m] # AliasAt[n][digests]
      BY <2>4 DEF Reserved, AliasesInUse
    <3>4. /\ DOMAIN aliases' = DOMAIN aliases \cup {n}
          /\ aliases'[n] = AliasAt[n][digests]
          /\ \A m \in DOMAIN aliases \ {n} : aliases'[m] = aliases[m]
      BY <2>2, <2>4
    <3>5. AliasesAreOwned'
      BY <2>1, <3>1, <3>2, <3>3, <3>4 DEF AliasesAreOwned
    <3>6. digests' \in 0 .. AliasTries
      BY <2>2, <2>4, NamesAssumption
    <3> QED BY <2>1, <3>5, <3>6
  <2> QED BY <2>3, <2>4
<1>2. CASE UNCHANGED <<asked, aliases, digests>>
  BY <1>2 DEF AliasesAreOwned, Requested, Unchanged
<1>3. CallTool \/ HearName \/ HearArguments \/ CallBreaks \/ CallEnds \/ UNCHANGED nameVars
        => UNCHANGED <<asked, aliases, digests>>
  BY DEF CallTool, HearName, HearArguments, CallBreaks, CallEnds, nameVars
<1> QED BY <1>1, <1>2, <1>3 DEF NamesNext

\* Every name is either sent unchanged, and then it is nobody's alias, or it is the
\* only name with its alias.
LEMMA OwnedIsReversible == AliasesAreOwned => CodecIsReversible
<1> SUFFICES ASSUME AliasesAreOwned, Unaliased = {}, NEW n \in Requested
             PROVE  Encode(n) \in Portable /\ Decode(Encode(n)) = n
  BY DEF CodecIsReversible
<1>1. CASE n \in DOMAIN aliases
  <2>1. Encode(n) = aliases[n] /\ aliases[n] \in AliasesInUse
    BY <1>1 DEF Encode, AliasesInUse
  <2>2. \A m \in DOMAIN aliases : aliases[m] = aliases[n] => m = n
    BY <1>1 DEF AliasesAreOwned
  <2>3. (CHOOSE m \in DOMAIN aliases : aliases[m] = aliases[n]) = n
    BY <1>1, <2>2
  <2> QED BY <1>1, <2>1, <2>3 DEF Decode, AliasesAreOwned
<1>2. CASE n \notin DOMAIN aliases
  <2>1. n \in Unchanged
    BY <1>2 DEF Unaliased, Unchanged
  <2>2. n \notin AliasesInUse
    BY <2>1 DEF AliasesInUse, AliasesAreOwned
  <2> QED BY <1>2, <2>1, <2>2 DEF Encode, Decode, Unchanged
<1> QED BY <1>1, <1>2

\* Aliases never shadow a name or each other, and what the wire sends back is decoded
\* to the name that was encoded.
THEOREM NamesAreReversible == NamesSpec => [](AliasesAreOwned /\ CodecIsReversible)
<1>1. CodecInvariant => AliasesAreOwned /\ CodecIsReversible
  BY OwnedIsReversible DEF CodecInvariant
<1> QED BY <1>1, CodecStarts, CodecGrows, PTL DEF NamesSpec

(***************************************************************************)
(* Requests, their answers and the runtimes they lease.                     *)
(***************************************************************************)

(* request do; the others leave it alone.                                   *)

Places == {"idle", "starting", "sending", "pulling", "closing", "releasing", "done"}
Sources == Open \cup {"none", "orphan"}
Said == {"started", "metered", "stopped"}

\* The variables of the requests are functions; what they range over matters
\* only where it is looked at.
RequestsTyped ==
  /\ place \in [Requests -> Places]
  /\ source \in [Requests -> Sources]
  /\ content \in [Requests -> BOOLEAN]
  /\ billed \in [Requests -> Nat]
  /\ lease \in [Requests -> {"none", "held", "released"}]
  /\ DOMAIN at = Requests /\ DOMAIN heard = Requests /\ DOMAIN ended = Requests

\* Nothing was said to a request that has not come; one that waits for a
\* provider has its stream and no end; one that sends has either.
Answering(r) ==
  /\ place[r] = "idle" => heard[r] = {} /\ ~content[r] /\ billed[r] = 0 /\ source[r] = "none"
                          /\ ended[r] = "open"
  /\ place[r] \in {"starting", "pulling"} => source[r] \in Open /\ ended[r] = "open"
  /\ place[r] = "sending" => (source[r] \in Open <=> ended[r] = "open")

\* Content was handed over once the stream of the node being tried has begun.
Speaking(r) ==
  /\ heard[r] \subseteq {at[r]}
  /\ heard[r] # {} => content[r]
  /\ source[r] \in Open => (content[r] <=> source[r] \in Said)

\* Usage is recorded after the chunk that has the numbers was sent, which for a
\* chunk being sent is still to come.
Billing(r) ==
  /\ billed[r] <= 1
  /\ ended[r] = "complete" => billed[r] = 1
  /\ place[r] \in {"starting", "pulling"} =>
       billed[r] = (IF source[r] \in {"metered", "stopped"} THEN 1 ELSE 0)
  /\ place[r] = "sending" /\ ended[r] = "open" =>
       billed[r] = (IF source[r] = "stopped" THEN 1 ELSE 0)

\* The lease is held from the arrival of a request to its end, on a runtime
\* that is there.
Leasing(r) ==
  /\ place[r] \in {"idle", "done"} <=> lease[r] # "held"
  /\ lease[r] = "held" => runtime # "closed"

Sound(r) == Answering(r) /\ Speaking(r) /\ Billing(r) /\ Leasing(r)

ServingInvariant == RequestsTyped /\ \A r \in Requests : Sound(r)

\* The state of one request.
Of(r) == <<place[r], source[r], content[r], billed[r], lease[r], at[r], heard[r], ended[r]>>

LEMMA OthersAreLeftAlone ==
  ASSUME NEW q \in Requests, Sound(q), UNCHANGED <<Of(q), runtime>>
  PROVE  Sound(q)'
BY DEF Sound, Answering, Speaking, Billing, Leasing, Of

LEMMA ServingStarts == ServingInit => ServingInvariant
<1> SUFFICES ASSUME ServingInit PROVE ServingInvariant
  OBVIOUS
<1>1. RequestsTyped
  BY DEF ServingInit, RequestsTyped, Places, Sources
<1>2. ASSUME NEW r \in Requests PROVE Sound(r)
  <2>1. /\ place[r] = "idle" /\ source[r] = "none" /\ content[r] = FALSE /\ billed[r] = 0
        /\ lease[r] = "none" /\ heard[r] = {} /\ ended[r] = "open" /\ runtime = "current"
    BY DEF ServingInit
  <2>2. Answering(r)
    BY <2>1 DEF Answering
  <2>3. Speaking(r)
    BY <2>1 DEF Speaking, Open
  <2>4. Billing(r)
    <3>1. billed[r] \in Nat
      BY <1>1 DEF RequestsTyped
    <3> QED BY <2>1, <3>1 DEF Billing
  <2>5. Leasing(r)
    BY <2>1 DEF Leasing
  <2> QED BY <2>2, <2>3, <2>4, <2>5 DEF Sound
<1> QED BY <1>1, <1>2 DEF ServingInvariant

LEMMA ArriveKeeps ==
  ASSUME RequestsTyped, NEW r \in Requests, Sound(r), NEW n \in Names, NEW w \in Wires[r], Arrive(r, n, w)
  PROVE  /\ RequestsTyped'
         /\ Sound(r)'
         /\ \A q \in Requests \ {r} : UNCHANGED Of(q)
         /\ UNCHANGED runtime
<1> USE DEF Arrive, NoUsableNode, Preflight, OpenNode, registry, world, RequestsTyped, Places,
    Sources, Open, Said
<1>1. RequestsTyped'
  OBVIOUS
<1>2. \A q \in Requests \ {r} : UNCHANGED Of(q)
  BY DEF Of
<1>3. UNCHANGED runtime
  OBVIOUS
<1>4. Answering(r)'
  BY DEF Sound, Answering
<1>5. Speaking(r)'
  BY DEF Sound, Answering, Speaking
<1>6. Billing(r)'
  BY DEF Sound, Answering, Speaking, Billing
<1>7. Leasing(r)'
  BY DEF Sound, Leasing
<1> QED BY <1>1, <1>2, <1>3, <1>4, <1>5, <1>6, <1>7 DEF Sound

LEMMA ServeLocallyKeeps ==
  ASSUME RequestsTyped, NEW r \in Requests, Sound(r), NEW n \in Names, NEW how \in {"invalid", "local"}, ServeLocally(r, n, how)
  PROVE  /\ RequestsTyped'
         /\ Sound(r)'
         /\ \A q \in Requests \ {r} : UNCHANGED Of(q)
         /\ UNCHANGED runtime
<1> USE DEF ServeLocally, registry, world, RequestsTyped, Places, Sources, Open, Said
<1>1. RequestsTyped'
  OBVIOUS
<1>2. \A q \in Requests \ {r} : UNCHANGED Of(q)
  BY DEF Of
<1>3. UNCHANGED runtime
  OBVIOUS
<1>4. Answering(r)'
  BY DEF Sound, Answering
<1>5. Speaking(r)'
  BY DEF Sound, Answering, Speaking
<1>6. Billing(r)'
  BY DEF Sound, Answering, Speaking, Billing
<1>7. Leasing(r)'
  BY DEF Sound, Leasing
<1> QED BY <1>1, <1>2, <1>3, <1>4, <1>5, <1>6, <1>7 DEF Sound

LEMMA ChunkKeeps ==
  ASSUME RequestsTyped, NEW r \in Requests, Sound(r), NEW c \in Open, Chunk(r, c)
  PROVE  /\ RequestsTyped'
         /\ Sound(r)'
         /\ \A q \in Requests \ {r} : UNCHANGED Of(q)
         /\ UNCHANGED runtime
<1> USE DEF Chunk, Pulling, NextChunk, Bill, fixed, registry, world, RequestsTyped, Places,
    Sources, Open, Said
<1>1. RequestsTyped'
  OBVIOUS
<1>2. \A q \in Requests \ {r} : UNCHANGED Of(q)
  BY DEF Of
<1>3. UNCHANGED runtime
  OBVIOUS
<1>4. Answering(r)'
  BY DEF Sound, Answering
<1>5. Speaking(r)'
  BY DEF Sound, Answering, Speaking
<1>6. Billing(r)'
  <2>0. billed[r] \in Nat /\ billed'[r] \in Nat
    BY <1>1
  <2>1. /\ billed[r] = (IF source[r] \in {"metered", "stopped"} THEN 1 ELSE 0)
        /\ ended[r] = "open"
        /\ c \in NextChunk(source[r])
    BY DEF Sound, Answering, Billing
  <2>2. source'[r] = c /\ ended'[r] = ended[r]
    OBVIOUS
  <2>3. CASE place'[r] = "sending"
    <3>1. billed'[r] = billed[r]
      BY <2>3
    <3>2. source[r] = "metered" <=> c = "stopped"
      BY <2>1, <2>3
    <3> HIDE DEF Chunk
    <3> QED BY <2>0, <2>1, <2>2, <2>3, <3>1, <3>2 DEF Billing
  <2>4. CASE place'[r] # "sending"
    <3>1. place'[r] \in {"starting", "pulling"}
      BY <2>4
    <3>2. billed'[r] = IF c = "metered" THEN billed[r] + 1 ELSE billed[r]
      BY <2>4
    <3>3. source[r] = "metered" <=> c = "stopped"
      BY <2>1, <2>4
    <3>4. source[r] # "stopped"
      BY <2>1
    <3> HIDE DEF Chunk
    <3> QED BY <2>0, <2>1, <2>2, <3>1, <3>2, <3>3, <3>4 DEF Billing
  <2> QED BY <2>3, <2>4
<1>7. Leasing(r)'
  BY DEF Sound, Leasing
<1> QED BY <1>1, <1>2, <1>3, <1>4, <1>5, <1>6, <1>7 DEF Sound

LEMMA SentKeeps ==
  ASSUME RequestsTyped, NEW r \in Requests, Sound(r), Sent(r)
  PROVE  /\ RequestsTyped'
         /\ Sound(r)'
         /\ \A q \in Requests \ {r} : UNCHANGED Of(q)
         /\ UNCHANGED runtime
<1> USE DEF Sent, Bill, fixed, registry, world, RequestsTyped, Places, Sources, Open, Said
<1>1. RequestsTyped'
  <2>1. /\ place' \in [Requests -> Places]
        /\ content' \in [Requests -> BOOLEAN]
        /\ lease' \in [Requests -> {"none", "held", "released"}]
        /\ DOMAIN at' = Requests /\ DOMAIN heard' = Requests /\ DOMAIN ended' = Requests
    OBVIOUS
  <2>2. source' \in [Requests -> Sources]
    <3>1. source' = source \/ source' = [source EXCEPT ![r] = "orphan"]
      OBVIOUS
    <3> HIDE DEF Sent
    <3> QED BY <3>1
  <2>3. billed' \in [Requests -> Nat]
    <3>1. billed' = [billed EXCEPT ![r] = IF source[r] = "metered" THEN billed[r] + 1 ELSE billed[r]]
      OBVIOUS
    <3> HIDE DEF Sent
    <3> QED BY <3>1
  <2> QED BY <2>1, <2>2, <2>3
<1>2. \A q \in Requests \ {r} : UNCHANGED Of(q)
  BY DEF Of
<1>3. UNCHANGED runtime
  OBVIOUS
<1>4. Answering(r)'
  BY DEF Sound, Answering
<1>5. Speaking(r)'
  BY DEF Sound, Answering, Speaking
<1>6. Billing(r)'
  <2>0. billed[r] \in Nat /\ billed'[r] \in Nat
    BY <1>1
  <2>1. billed'[r] = IF source[r] = "metered" THEN billed[r] + 1 ELSE billed[r]
    OBVIOUS
  <2>2. CASE ended[r] # "open"
    <3>1. source[r] \notin Open /\ place'[r] = "closing" /\ ended'[r] = ended[r]
      BY <2>2 DEF Sound, Answering
    <3> QED BY <2>1, <2>2, <3>1 DEF Sound, Billing
  <2>3. CASE ended[r] = "open"
    <3>1. source[r] \in Said \cup {"quiet", "pinged"}
      BY <2>3 DEF Sound, Answering
    <3>2. billed[r] = (IF source[r] = "stopped" THEN 1 ELSE 0)
      BY <2>3 DEF Sound, Billing
    <3>3. \/ /\ source[r] = "stopped" /\ place'[r] = "closing" /\ ended'[r] = "complete"
          \/ place'[r] = "pulling" /\ source'[r] = source[r] /\ ended'[r] = "open"
      BY <2>3
    <3> HIDE DEF Sent
    <3> QED BY <2>0, <2>1, <3>1, <3>2, <3>3 DEF Billing
  <2> QED BY <2>2, <2>3
<1>7. Leasing(r)'
  BY DEF Sound, Leasing
<1> QED BY <1>1, <1>2, <1>3, <1>4, <1>5, <1>6, <1>7 DEF Sound

LEMMA FinishKeeps ==
  ASSUME RequestsTyped, NEW r \in Requests, Sound(r), Finish(r)
  PROVE  /\ RequestsTyped'
         /\ Sound(r)'
         /\ \A q \in Requests \ {r} : UNCHANGED Of(q)
         /\ UNCHANGED runtime
<1> USE DEF Finish, Pulling, fixed, world, RequestsTyped, Places, Sources, Open, Said
<1>1. RequestsTyped'
  OBVIOUS
<1>2. \A q \in Requests \ {r} : UNCHANGED Of(q)
  BY DEF Of
<1>3. UNCHANGED runtime
  OBVIOUS
<1>4. Answering(r)'
  BY DEF Sound, Answering
<1>5. Speaking(r)'
  BY DEF Sound, Answering, Speaking
<1>6. Billing(r)'
  BY DEF Sound, Answering, Speaking, Billing
<1>7. Leasing(r)'
  BY DEF Sound, Leasing
<1> QED BY <1>1, <1>2, <1>3, <1>4, <1>5, <1>6, <1>7 DEF Sound

LEMMA ProviderFailsKeeps ==
  ASSUME RequestsTyped, NEW r \in Requests, Sound(r), NEW kind \in FailureKinds, ProviderFails(r, kind)
  PROVE  /\ RequestsTyped'
         /\ Sound(r)'
         /\ \A q \in Requests \ {r} : UNCHANGED Of(q)
         /\ UNCHANGED runtime
<1> USE DEF ProviderFails, Pulling, MayFailOver, OpenNode, Surface, ErrorResponse,
    TerminalFrame, fixed, world, RequestsTyped, Places, Sources, Open, Said
<1>1. RequestsTyped'
  OBVIOUS
<1>2. \A q \in Requests \ {r} : UNCHANGED Of(q)
  BY DEF Of
<1>3. UNCHANGED runtime
  OBVIOUS
<1>4. Answering(r)'
  BY DEF Sound, Answering
<1>5. Speaking(r)'
  BY DEF Sound, Answering, Speaking
<1>6. Billing(r)'
  BY DEF Sound, Answering, Speaking, Billing
<1>7. Leasing(r)'
  BY DEF Sound, Leasing
<1> QED BY <1>1, <1>2, <1>3, <1>4, <1>5, <1>6, <1>7 DEF Sound

LEMMA DisconnectKeeps ==
  ASSUME RequestsTyped, NEW r \in Requests, Sound(r), Disconnect(r)
  PROVE  /\ RequestsTyped'
         /\ Sound(r)'
         /\ \A q \in Requests \ {r} : UNCHANGED Of(q)
         /\ UNCHANGED runtime
<1> USE DEF Disconnect, fixed, registry, world, RequestsTyped, Places, Sources, Open, Said
<1>1. RequestsTyped'
  OBVIOUS
<1>2. \A q \in Requests \ {r} : UNCHANGED Of(q)
  BY DEF Of
<1>3. UNCHANGED runtime
  OBVIOUS
<1>4. Answering(r)'
  BY DEF Sound, Answering
<1>5. Speaking(r)'
  BY DEF Sound, Answering, Speaking
<1>6. Billing(r)'
  BY DEF Sound, Answering, Speaking, Billing
<1>7. Leasing(r)'
  BY DEF Sound, Leasing
<1> QED BY <1>1, <1>2, <1>3, <1>4, <1>5, <1>6, <1>7 DEF Sound

LEMMA CancelStartKeeps ==
  ASSUME RequestsTyped, NEW r \in Requests, Sound(r), CancelStart(r)
  PROVE  /\ RequestsTyped'
         /\ Sound(r)'
         /\ \A q \in Requests \ {r} : UNCHANGED Of(q)
         /\ UNCHANGED runtime
<1> USE DEF CancelStart, fixed, registry, world, RequestsTyped, Places, Sources, Open, Said
<1>1. RequestsTyped'
  OBVIOUS
<1>2. \A q \in Requests \ {r} : UNCHANGED Of(q)
  BY DEF Of
<1>3. UNCHANGED runtime
  OBVIOUS
<1>4. Answering(r)'
  BY DEF Sound, Answering
<1>5. Speaking(r)'
  BY DEF Sound, Answering, Speaking
<1>6. Billing(r)'
  BY DEF Sound, Answering, Speaking, Billing
<1>7. Leasing(r)'
  BY DEF Sound, Leasing
<1> QED BY <1>1, <1>2, <1>3, <1>4, <1>5, <1>6, <1>7 DEF Sound

LEMMA CloseBodyKeeps ==
  ASSUME RequestsTyped, NEW r \in Requests, Sound(r), CloseBody(r)
  PROVE  /\ RequestsTyped'
         /\ Sound(r)'
         /\ \A q \in Requests \ {r} : UNCHANGED Of(q)
         /\ UNCHANGED runtime
<1> USE DEF CloseBody, fixed, registry, world, RequestsTyped, Places, Sources, Open, Said
<1>1. RequestsTyped'
  OBVIOUS
<1>2. \A q \in Requests \ {r} : UNCHANGED Of(q)
  BY DEF Of
<1>3. UNCHANGED runtime
  OBVIOUS
<1>4. Answering(r)'
  BY DEF Sound, Answering
<1>5. Speaking(r)'
  BY DEF Sound, Answering, Speaking
<1>6. Billing(r)'
  BY DEF Sound, Answering, Speaking, Billing
<1>7. Leasing(r)'
  BY DEF Sound, Leasing
<1> QED BY <1>1, <1>2, <1>3, <1>4, <1>5, <1>6, <1>7 DEF Sound

LEMMA ReleaseKeeps ==
  ASSUME RequestsTyped, NEW r \in Requests, Sound(r), Release(r)
  PROVE  /\ RequestsTyped'
         /\ Sound(r)'
         /\ \A q \in Requests \ {r} : UNCHANGED Of(q)
         /\ UNCHANGED runtime
<1> USE DEF Release, fixed, registry, world, RequestsTyped, Places, Sources, Open, Said
<1>1. RequestsTyped'
  OBVIOUS
<1>2. \A q \in Requests \ {r} : UNCHANGED Of(q)
  BY DEF Of
<1>3. UNCHANGED runtime
  OBVIOUS
<1>4. Answering(r)'
  BY DEF Sound, Answering
<1>5. Speaking(r)'
  BY DEF Sound, Answering, Speaking
<1>6. Billing(r)'
  BY DEF Sound, Answering, Speaking, Billing
<1>7. Leasing(r)'
  BY DEF Sound, Leasing
<1> QED BY <1>1, <1>2, <1>3, <1>4, <1>5, <1>6, <1>7 DEF Sound

LEMMA ReapKeeps ==
  ASSUME RequestsTyped, NEW r \in Requests, Sound(r), Reap(r)
  PROVE  /\ RequestsTyped'
         /\ Sound(r)'
         /\ \A q \in Requests \ {r} : UNCHANGED Of(q)
         /\ UNCHANGED runtime
<1> USE DEF Reap, fixed, registry, world, RequestsTyped, Places, Sources, Open, Said
<1>1. RequestsTyped'
  OBVIOUS
<1>2. \A q \in Requests \ {r} : UNCHANGED Of(q)
  BY DEF Of
<1>3. UNCHANGED runtime
  OBVIOUS
<1>4. Answering(r)'
  BY DEF Sound, Answering
<1>5. Speaking(r)'
  BY DEF Sound, Answering, Speaking
<1>6. Billing(r)'
  BY DEF Sound, Answering, Speaking, Billing
<1>7. Leasing(r)'
  BY DEF Sound, Leasing
<1> QED BY <1>1, <1>2, <1>3, <1>4, <1>5, <1>6, <1>7 DEF Sound

\* Retiring and closing the runtime, and the clock, leave the requests alone; it is
\* closed only when no lease is left.
LEMMA RuntimeKeeps ==
  ASSUME ServingInvariant, Retire \/ CloseRuntime \/ Minute
  PROVE  ServingInvariant'
<1>1. UNCHANGED <<place, source, content, billed, lease, at, heard, ended>>
  BY DEF Retire, CloseRuntime, Minute, requestVars
<1>2. RequestsTyped'
  BY <1>1 DEF ServingInvariant, RequestsTyped
<1>3. ASSUME NEW r \in Requests PROVE Sound(r)'
  <2>1. Sound(r)
    BY DEF ServingInvariant
  <2>2. lease[r] = "held" => runtime' # "closed"
    BY <2>1 DEF Retire, CloseRuntime, Minute, Sound, Leasing
  <2> QED BY <1>1, <2>1, <2>2 DEF Sound, Answering, Speaking, Billing, Leasing
<1> QED BY <1>2, <1>3 DEF ServingInvariant

LEMMA ServingKept ==
  ASSUME ServingInvariant, ServingNext
  PROVE  ServingInvariant'
<1>1. CASE Retire \/ CloseRuntime \/ Minute
  BY <1>1, RuntimeKeeps
<1>2. CASE \E r \in Requests :
             \/ RequestStep(r)
             \/ \E n \in Names :
                  \/ \E w \in Wires[r] : Arrive(r, n, w)
                  \/ \E how \in {"invalid", "local"} : ServeLocally(r, n, how)
  <2>1. PICK r \in Requests : \/ RequestStep(r)
                             \/ \E n \in Names :
                                  \/ \E w \in Wires[r] : Arrive(r, n, w)
                                  \/ \E how \in {"invalid", "local"} : ServeLocally(r, n, how)
    BY <1>2
  <2>2. RequestsTyped /\ \A q \in Requests : Sound(q)
    BY DEF ServingInvariant
  <2>3. /\ RequestsTyped'
        /\ Sound(r)'
        /\ \A q \in Requests \ {r} : UNCHANGED Of(q)
        /\ UNCHANGED runtime
    BY <2>1, <2>2, ArriveKeeps, ServeLocallyKeeps, ChunkKeeps, SentKeeps, FinishKeeps,
       ProviderFailsKeeps, DisconnectKeeps, CancelStartKeeps, CloseBodyKeeps, ReleaseKeeps, ReapKeeps
    DEF RequestStep
  <2>4. ASSUME NEW q \in Requests PROVE Sound(q)'
    <3>1. CASE q = r
      BY <2>3, <3>1
    <3>2. CASE q # r
      <4>1. UNCHANGED Of(q)
        BY <2>3, <3>2
      <4> QED BY <2>2, <2>3, <4>1, OthersAreLeftAlone
    <3> QED BY <3>1, <3>2
  <2> QED BY <2>3, <2>4 DEF ServingInvariant
<1> QED BY <1>1, <1>2 DEF ServingNext

LEMMA ServingStays == ServingSafety => []ServingInvariant
<1>1. ServingInvariant /\ [ServingNext]_servingVars => ServingInvariant'
  <2>1. ASSUME ServingInvariant, UNCHANGED servingVars PROVE ServingInvariant'
    BY <2>1
    DEF servingVars, ServingInvariant, RequestsTyped, Sound, Answering, Speaking, Billing, Leasing
  <2> QED BY <2>1, ServingKept
<1> QED BY <1>1, ServingStarts, PTL DEF ServingSafety

\* A client hears the content of one node, from its beginning, and its answer is
\* billed once if it was complete and never twice, whatever fails over to what and
\* wherever it disconnects (failover.py, usage_recorder.py).
THEOREM OneAnswerIsBilledOnce == ServingSpec => []OneAnswerOneBill
<1>1. ServingInvariant => OneAnswerOneBill
  BY DEF ServingInvariant, Sound, Speaking, Billing, OneAnswerOneBill, OneVoice, BilledOnce
<1> QED BY <1>1, ServingStays, PTL DEF ServingSpec

\* From the arrival of a request to the release of its lease the runtime that
\* serves it is not closed (api/routes.py, response_streams.py).
THEOREM RuntimesOutliveResponses == ServingSpec => []RuntimeOutlivesResponses
<1>1. ServingInvariant => RuntimeOutlivesResponses
  BY DEF ServingInvariant, Sound, Leasing, RuntimeOutlivesResponses
<1> QED BY <1>1, ServingStays, PTL DEF ServingSpec

(***************************************************************************)
(* The stream of an OpenAI-chat provider.  Everything a delta, a repair or  *)
(* a failure does to the ledger is one of a few operators; each of them     *)
(* keeps a ledger sound and takes nothing back from it.                     *)
(***************************************************************************)

Bodies == {"none", "part", "whole", "raw", "excess", "some"}

ContentBlocks == [kind : {"text", "thinking", "tool_use"}, state : {"open", "closed", "torn"},
                  body : Bodies]

ToolStates == [block : Nat, early : Nat, buffer : Nat]

Ledgers == [blocks : Seq(ContentBlocks), active : Nat, tools : [Tools -> ToolStates], over : BOOLEAN]

IsOpen(l, b) == l.blocks[b].state = "open"

\* The content block that is open is the active one.
ActiveIsOpen(l) ==
  /\ l.active \in 0 .. Len(l.blocks)
  /\ l.active # 0 => IsOpen(l, l.active) /\ l.blocks[l.active].kind # "tool_use"

\* The block of a tool stays open until the answer is over, and is nobody else's.
ToolsAreOpen(l) ==
  /\ \A t \in Tools :
       /\ l.tools[t].block \in 0 .. Len(l.blocks)
       /\ l.tools[t].block # 0 => /\ IsOpen(l, l.tools[t].block)
                                  /\ l.blocks[l.tools[t].block].kind = "tool_use"
  /\ \A t, u \in Tools : l.tools[t].block = l.tools[u].block => t = u \/ l.tools[t].block = 0

\* No other block is open, and none was torn.
RestIsClosed(l) ==
  \A b \in DOMAIN l.blocks :
    \/ l.blocks[b].state = "closed"
    \/ IsOpen(l, b) /\ (b = l.active \/ \E t \in Tools : l.tools[t].block = b)

LedgerIsSound(l) ==
  /\ l \in Ledgers /\ ~l.over
  /\ ActiveIsOpen(l) /\ ToolsAreOpen(l) /\ RestIsClosed(l)

\* Half an object is never given to a call whose arguments wait for the whole.
HalvesAreHeld(l) ==
  \A t \in Tools : l.tools[t].block # 0 /\ KindOf[t] # "plain" =>
    l.blocks[l.tools[t].block].body # "part"

\* While the ledger is fed, nothing went out of a call of which something waits.
BuffersAreUnsaid(l) ==
  \A t \in Tools : l.tools[t].buffer # 0 =>
    /\ KindOf[t] # "plain"
    /\ l.tools[t].block # 0 /\ l.blocks[l.tools[t].block].body = "none"

LedgerGrows(l, m) ==
  /\ Len(m.blocks) >= Len(l.blocks)
  /\ \A b \in DOMAIN l.blocks : Grows(l.blocks[b], m.blocks[b])

\* What is changed when the blocks and the tools of a ledger are.
LEMMA BlocksAndToolsChanged ==
  ASSUME NEW l \in Ledgers, NEW blocks, NEW tools
  PROVE  [l EXCEPT !.blocks = blocks, !.tools = tools]
           = [blocks |-> blocks, active |-> l.active, tools |-> tools, over |-> l.over]
<1>1. PICK a, b, c, d : l = [blocks |-> a, active |-> b, tools |-> c, over |-> d]
  BY DEF Ledgers
<1>2. [l EXCEPT !.blocks = blocks] = [blocks |-> blocks, active |-> b, tools |-> c, over |-> d]
  BY <1>1
<1>3. [l EXCEPT !.blocks = blocks, !.tools = tools]
        = [[blocks |-> blocks, active |-> b, tools |-> c, over |-> d] EXCEPT !.tools = tools]
  BY <1>2
<1> QED
  BY <1>1, <1>3

\* A body counts for two fragments at most.
LEMMA BodiesAreCounted == \A x \in ContentBlocks : Fragments(x.body) \in 0 .. 2
  BY DEF ContentBlocks, Fragments

\* What grows from what grew has grown.
LEMMA GrowsOn ==
  ASSUME NEW l \in Ledgers, NEW m \in Ledgers, NEW n \in Ledgers, LedgerGrows(l, m), LedgerGrows(m, n)
  PROVE  LedgerGrows(l, n)
<1>1. Len(n.blocks) >= Len(l.blocks) /\ DOMAIN l.blocks \subseteq DOMAIN m.blocks
  BY DEF LedgerGrows, Ledgers
<1>2. ASSUME NEW b \in DOMAIN l.blocks PROVE Grows(l.blocks[b], n.blocks[b])
  <2>1. Grows(l.blocks[b], m.blocks[b]) /\ Grows(m.blocks[b], n.blocks[b])
    BY <1>1 DEF LedgerGrows
  <2>2. l.blocks[b] \in ContentBlocks /\ m.blocks[b] \in ContentBlocks /\ n.blocks[b] \in ContentBlocks
    BY <1>1 DEF LedgerGrows, Ledgers
  <2> QED
    BY <2>1, <2>2, BodiesAreCounted DEF Grows
<1> QED
  BY <1>1, <1>2 DEF LedgerGrows

LEMMA GrowsFromItself ==
  ASSUME NEW l \in Ledgers
  PROVE  LedgerGrows(l, l)
  BY BodiesAreCounted DEF LedgerGrows, Grows, Ledgers

\* One entry of a sequence changes.
LEMMA OneEntryChanged ==
  ASSUME NEW T, NEW s \in Seq(T), NEW i \in 1 .. Len(s), NEW x \in T
  PROVE  /\ [s EXCEPT ![i] = x] \in Seq(T)
         /\ Len([s EXCEPT ![i] = x]) = Len(s)
         /\ DOMAIN [s EXCEPT ![i] = x] = DOMAIN s
         /\ [s EXCEPT ![i] = x][i] = x
         /\ \A j \in DOMAIN s : j # i => [s EXCEPT ![i] = x][j] = s[j]
  OBVIOUS

\* A new ledger.
LEMMA NewIsSound == LedgerIsSound(NewLedger) /\ HalvesAreHeld(NewLedger) /\ BuffersAreUnsaid(NewLedger)
<1>1. NewLedger \in Ledgers /\ NewLedger.blocks = <<>> /\ NewLedger.active = 0 /\ ~NewLedger.over
  BY DEF NewLedger, NoTool, Ledgers, ToolStates
<1>2. \A t \in Tools : NewLedger.tools[t].block = 0 /\ NewLedger.tools[t].buffer = 0
  BY DEF NewLedger, NoTool
<1>3. ActiveIsOpen(NewLedger) /\ RestIsClosed(NewLedger)
  BY <1>1 DEF ActiveIsOpen, RestIsClosed
<1>4. ToolsAreOpen(NewLedger)
  BY <1>1, <1>2 DEF ToolsAreOpen
<1>5. HalvesAreHeld(NewLedger) /\ BuffersAreUnsaid(NewLedger)
  BY <1>2 DEF HalvesAreHeld, BuffersAreUnsaid
<1> QED
  BY <1>1, <1>3, <1>4, <1>5 DEF LedgerIsSound

\* What is said about blocks is all that soundness is about.
LEMMA SameBlocksAreSound ==
  ASSUME NEW l, LedgerIsSound(l), NEW m \in Ledgers, ~m.over, m.active = l.active,
         \A t \in Tools : m.tools[t].block = l.tools[t].block,
         Len(m.blocks) = Len(l.blocks),
         \A b \in DOMAIN l.blocks : /\ m.blocks[b].kind = l.blocks[b].kind
                                    /\ m.blocks[b].state = l.blocks[b].state
  PROVE  LedgerIsSound(m)
<1>1. DOMAIN m.blocks = DOMAIN l.blocks
  BY DEF LedgerIsSound, Ledgers
<1>2. DOMAIN l.blocks = 1 .. Len(l.blocks)
  BY DEF LedgerIsSound, Ledgers
<1>3. ActiveIsOpen(m)
  BY <1>1, <1>2 DEF LedgerIsSound, ActiveIsOpen, IsOpen
<1>4. ToolsAreOpen(m)
  <2>1. ASSUME NEW t \in Tools
        PROVE  /\ m.tools[t].block \in 0 .. Len(m.blocks)
               /\ m.tools[t].block # 0 => /\ IsOpen(m, m.tools[t].block)
                                          /\ m.blocks[m.tools[t].block].kind = "tool_use"
    <3>1. l.tools[t].block \in 0 .. Len(l.blocks) /\ Len(l.blocks) \in Nat
      BY DEF LedgerIsSound, ToolsAreOpen, Ledgers
    <3>2. l.tools[t].block # 0 => l.tools[t].block \in DOMAIN l.blocks
      BY <3>1, <1>2
    <3> QED
      BY <3>1, <3>2 DEF LedgerIsSound, ToolsAreOpen, IsOpen
  <2>2. \A t, u \in Tools : m.tools[t].block = m.tools[u].block => t = u \/ m.tools[t].block = 0
    BY DEF LedgerIsSound, ToolsAreOpen
  <2> QED
    BY <2>1, <2>2 DEF ToolsAreOpen
<1>5. RestIsClosed(m)
  BY <1>1 DEF LedgerIsSound, RestIsClosed, IsOpen
<1> QED
  BY <1>3, <1>4, <1>5 DEF LedgerIsSound

\* A ledger whose content is closed is sound with one more block.
LEMMA OneMoreBlock ==
  ASSUME NEW l, LedgerIsSound(l), l.active = 0, NEW x \in ContentBlocks,
         NEW m \in Ledgers, ~m.over, m.blocks = Append(l.blocks, x),
         \/ /\ x.state = "open" /\ x.kind # "tool_use" /\ m.active = Len(l.blocks) + 1
            /\ \A t \in Tools : m.tools[t].block = l.tools[t].block
         \/ /\ x.state = "closed" /\ m.active = 0
            /\ \A t \in Tools : m.tools[t].block = l.tools[t].block
         \/ /\ x.state = "open" /\ x.kind = "tool_use" /\ m.active = 0
            /\ \E t \in Tools : /\ l.tools[t].block = 0 /\ m.tools[t].block = Len(l.blocks) + 1
                                /\ \A u \in Tools \ {t} : m.tools[u].block = l.tools[u].block
  PROVE  LedgerIsSound(m) /\ LedgerGrows(l, m)
<1> DEFINE new == Len(l.blocks) + 1
<1>1. /\ l.blocks \in Seq(ContentBlocks) /\ Len(l.blocks) \in Nat
      /\ DOMAIN l.blocks = 1 .. Len(l.blocks)
      /\ DOMAIN m.blocks = 1 .. new /\ Len(m.blocks) = new
      /\ m.blocks[new] = x /\ \A b \in DOMAIN l.blocks : m.blocks[b] = l.blocks[b]
  BY DEF LedgerIsSound, Ledgers
<1>2. LedgerGrows(l, m)
  BY <1>1, BodiesAreCounted, SMTT(30) DEF LedgerGrows, Grows
<1>3. /\ \A t \in Tools : l.tools[t].block \in 0 .. Len(l.blocks)
      /\ m.active \in {0, new}
      /\ \A t \in Tools : m.tools[t].block \in {l.tools[t].block, new}
  BY DEF LedgerIsSound, ToolsAreOpen
<1>4. ActiveIsOpen(m)
  BY <1>1 DEF LedgerIsSound, ActiveIsOpen, IsOpen
<1>5. ToolsAreOpen(m)
  <2>1. \A t \in Tools : m.tools[t].block \in 0 .. Len(m.blocks)
    BY <1>1, <1>3
  <2>2. \A t \in Tools : m.tools[t].block # 0 =>
          IsOpen(m, m.tools[t].block) /\ m.blocks[m.tools[t].block].kind = "tool_use"
    <3>1. ASSUME NEW t \in Tools, m.tools[t].block # 0
          PROVE  IsOpen(m, m.tools[t].block) /\ m.blocks[m.tools[t].block].kind = "tool_use"
      <4>1. CASE m.tools[t].block = new
        <5>1. x.state = "open" /\ x.kind = "tool_use"
          <6>1. m.tools[t].block # l.tools[t].block
            BY <1>1, <1>3, <4>1
          <6> QED
            BY <6>1
        <5> QED
          BY <1>1, <4>1, <5>1 DEF IsOpen
      <4>2. CASE m.tools[t].block = l.tools[t].block
        <5>1. /\ l.tools[t].block \in DOMAIN l.blocks /\ IsOpen(l, l.tools[t].block)
              /\ l.blocks[l.tools[t].block].kind = "tool_use"
          BY <1>1, <1>3, <3>1, <4>2 DEF LedgerIsSound, ToolsAreOpen
        <5> QED
          BY <1>1, <4>2, <5>1 DEF IsOpen
      <4> QED
        BY <1>3, <4>1, <4>2
    <3> QED
      BY <3>1
  <2>3. \A t, u \in Tools : m.tools[t].block = m.tools[u].block => t = u \/ m.tools[t].block = 0
    BY <1>1, <1>3 DEF LedgerIsSound, ToolsAreOpen
  <2> QED
    BY <2>1, <2>2, <2>3 DEF ToolsAreOpen
<1>6. RestIsClosed(m)
  <2>1. ASSUME NEW b \in DOMAIN l.blocks
        PROVE  \/ m.blocks[b].state = "closed"
               \/ IsOpen(m, b) /\ \E t \in Tools : m.tools[t].block = b
    BY <1>1, <1>3 DEF LedgerIsSound, RestIsClosed, IsOpen
  <2>2. \/ m.blocks[new].state = "closed"
        \/ IsOpen(m, new) /\ (new = m.active \/ \E t \in Tools : m.tools[t].block = new)
    BY <1>1 DEF IsOpen
  <2> QED
    BY <1>1, <2>1, <2>2 DEF RestIsClosed
<1> QED
  BY <1>2, <1>4, <1>5, <1>6 DEF LedgerIsSound

\* The open content block is closed.
LEMMA CloseContentKeeps ==
  ASSUME NEW l, LedgerIsSound(l)
  PROVE  /\ LedgerIsSound(CloseContent(l)) /\ LedgerGrows(l, CloseContent(l))
         /\ CloseContent(l).active = 0 /\ CloseContent(l).tools = l.tools
         /\ Len(CloseContent(l).blocks) = Len(l.blocks)
         /\ \A b \in DOMAIN l.blocks : /\ CloseContent(l).blocks[b].kind = l.blocks[b].kind
                                       /\ CloseContent(l).blocks[b].body = l.blocks[b].body
<1>1. CASE l.active = 0
  BY <1>1, GrowsFromItself DEF LedgerIsSound, CloseContent
<1>2. CASE l.active # 0
  <2> DEFINE a == l.active
             m == CloseContent(l)
  <2>1. /\ a \in 1 .. Len(l.blocks) /\ l.blocks[a].state = "open" /\ l.blocks[a].kind # "tool_use"
        /\ l.blocks \in Seq(ContentBlocks) /\ DOMAIN l.blocks = 1 .. Len(l.blocks)
    BY <1>2 DEF LedgerIsSound, ActiveIsOpen, IsOpen, Ledgers
  <2>2. l.blocks[a] \in ContentBlocks
    BY <2>1
  <2> DEFINE x == [l.blocks[a] EXCEPT !.state = "closed"]
  <2>3. /\ Stop(l.blocks[a]) = x
        /\ x \in ContentBlocks
        /\ x.state = "closed" /\ x.kind = l.blocks[a].kind /\ x.body = l.blocks[a].body
    BY <2>1, <2>2 DEF Stop, ContentBlocks
  <2>4. m = [l EXCEPT !.blocks = [l.blocks EXCEPT ![a] = Stop(l.blocks[a])], !.active = 0]
    BY <1>2 DEF CloseContent, LedgerIsSound, Ledgers
  <2>5. /\ m.blocks = [l.blocks EXCEPT ![a] = x] /\ m.active = 0
        /\ m.tools = l.tools /\ m.over = l.over
    BY <2>3, <2>4 DEF LedgerIsSound, Ledgers
  <2>6. m \in Ledgers
    <3>1. m.blocks \in Seq(ContentBlocks)
      BY <2>1, <2>3, <2>5, OneEntryChanged
    <3>2. m = [blocks |-> m.blocks, active |-> 0, tools |-> l.tools, over |-> l.over]
      BY <2>4, <2>5 DEF LedgerIsSound, Ledgers
    <3> QED
      BY <3>1, <3>2 DEF LedgerIsSound, Ledgers
  <2>7. /\ Len(m.blocks) = Len(l.blocks) /\ DOMAIN m.blocks = DOMAIN l.blocks
        /\ m.blocks[a] = x /\ \A b \in DOMAIN l.blocks : b # a => m.blocks[b] = l.blocks[b]
    BY <2>1, <2>3, <2>5
  <2>8. \A b \in DOMAIN l.blocks : m.blocks[b].kind = l.blocks[b].kind /\ m.blocks[b].body = l.blocks[b].body
    BY <2>3, <2>7
  <2>9. \A t \in Tools : l.tools[t].block # a
    BY <2>1 DEF LedgerIsSound, ToolsAreOpen
  <2> HIDE DEF m, x
  <2>10. LedgerGrows(l, m)
    BY <2>1, <2>3, <2>7, <2>8, BodiesAreCounted DEF LedgerGrows, Grows
  <2>11. ToolsAreOpen(m)
    BY <2>1, <2>5, <2>7, <2>9 DEF LedgerIsSound, ToolsAreOpen, IsOpen
  <2>12. RestIsClosed(m)
    BY <2>3, <2>5, <2>7 DEF LedgerIsSound, RestIsClosed, IsOpen
  <2>13. ActiveIsOpen(m) /\ ~m.over
    BY <2>1, <2>5, <2>7 DEF LedgerIsSound, ActiveIsOpen, Ledgers
  <2> QED
    BY <2>5, <2>6, <2>7, <2>8, <2>10, <2>11, <2>12, <2>13 DEF LedgerIsSound, m
<1> QED
  BY <1>1, <1>2

\* What is said about calls is about their tools and what their blocks hold.
LEMMA SameCallsAreHeld ==
  ASSUME NEW l, LedgerIsSound(l), NEW m,
         \A t \in Tools : /\ m.tools[t].block = l.tools[t].block
                         /\ m.tools[t].buffer = l.tools[t].buffer,
         \A b \in DOMAIN l.blocks : m.blocks[b].body = l.blocks[b].body
  PROVE  /\ HalvesAreHeld(l) => HalvesAreHeld(m)
         /\ BuffersAreUnsaid(l) => BuffersAreUnsaid(m)
<1>1. \A t \in Tools : l.tools[t].block # 0 => l.tools[t].block \in DOMAIN l.blocks
  BY DEF LedgerIsSound, ToolsAreOpen, Ledgers
<1> QED
  BY <1>1 DEF HalvesAreHeld, BuffersAreUnsaid

Fed(l) == LedgerIsSound(l) /\ HalvesAreHeld(l) /\ BuffersAreUnsaid(l)

\* The text or the thinking goes on, or a block of it begins.
LEMMA SayKeeps ==
  ASSUME NEW l, LedgerIsSound(l), NEW kind \in {"text", "thinking"}
  PROVE  /\ LedgerIsSound(Say(l, kind)) /\ LedgerGrows(l, Say(l, kind))
         /\ HalvesAreHeld(l) => HalvesAreHeld(Say(l, kind))
         /\ BuffersAreUnsaid(l) => BuffersAreUnsaid(Say(l, kind))
         /\ \A b \in ToolBlocks(Say(l, kind)) : b \in ToolBlocks(l)
         /\ Say(l, kind).tools = l.tools
<1>1. CASE l.active # 0 /\ l.blocks[l.active].kind = kind
  BY <1>1, GrowsFromItself DEF LedgerIsSound, Say
<1>2. CASE ~(l.active # 0 /\ l.blocks[l.active].kind = kind)
  <2> DEFINE c == CloseContent(l)
             x == Block(kind, "some")
             new == Len(l.blocks) + 1
             m == Say(l, kind)
  <2>1. /\ LedgerIsSound(c) /\ LedgerGrows(l, c) /\ c.active = 0 /\ c.tools = l.tools
        /\ Len(c.blocks) = Len(l.blocks)
        /\ \A b \in DOMAIN l.blocks : c.blocks[b].kind = l.blocks[b].kind /\ c.blocks[b].body = l.blocks[b].body
    BY CloseContentKeeps
  <2>2. x \in ContentBlocks /\ x.state = "open" /\ x.kind = kind /\ x.kind # "tool_use"
    BY DEF Block, ContentBlocks, Bodies
  <2>3. c \in Ledgers /\ l \in Ledgers
    BY <2>1 DEF LedgerIsSound
  <2>4. m = [c EXCEPT !.blocks = Append(c.blocks, x), !.active = new]
    BY <1>2 DEF Say
  <2> HIDE DEF c, x, m
  <2>5. /\ m.blocks = Append(c.blocks, x) /\ m.active = new /\ m.tools = c.tools /\ m.over = c.over
        /\ m = [blocks |-> Append(c.blocks, x), active |-> new, tools |-> c.tools, over |-> c.over]
    BY <2>3, <2>4 DEF Ledgers
  <2>6. m \in Ledgers
    BY <2>2, <2>3, <2>5 DEF Ledgers
  <2>7. LedgerIsSound(m) /\ LedgerGrows(c, m)
    BY <2>1, <2>2, <2>5, <2>6, OneMoreBlock DEF LedgerIsSound
  <2>8. LedgerGrows(l, m)
    BY <2>1, <2>3, <2>6, <2>7, GrowsOn
  <2>9. /\ DOMAIN l.blocks = 1 .. Len(l.blocks) /\ DOMAIN c.blocks = DOMAIN l.blocks
        /\ DOMAIN m.blocks = 1 .. new /\ m.blocks[new] = x
        /\ \A b \in DOMAIN l.blocks : m.blocks[b] = c.blocks[b]
    BY <2>1, <2>3, <2>5 DEF Ledgers
  <2>10. \A b \in DOMAIN l.blocks : m.blocks[b].body = l.blocks[b].body /\ m.blocks[b].kind = l.blocks[b].kind
    BY <2>1, <2>9
  <2>11. /\ HalvesAreHeld(l) => HalvesAreHeld(m)
         /\ BuffersAreUnsaid(l) => BuffersAreUnsaid(m)
    <3>1. \A t \in Tools : m.tools[t].block = l.tools[t].block /\ m.tools[t].buffer = l.tools[t].buffer
      BY <2>1, <2>5
    <3> QED
      BY <2>10, <3>1, SameCallsAreHeld
  <2>12. \A b \in ToolBlocks(m) : b \in ToolBlocks(l)
    BY <2>2, <2>3, <2>9, <2>10 DEF ToolBlocks, Ledgers
  <2> QED
    BY <2>1, <2>5, <2>7, <2>8, <2>11, <2>12 DEF m
<1> QED
  BY <1>1, <1>2

\* A call found in the text.
LEMMA HeuristicKeeps ==
  ASSUME NEW l, Fed(l)
  PROVE  Fed(HeuristicTool(l)) /\ LedgerGrows(l, HeuristicTool(l))
<1> DEFINE c == CloseContent(l)
           x == Stop(Block("tool_use", "whole"))
           new == Len(l.blocks) + 1
           m == HeuristicTool(l)
<1>1. /\ LedgerIsSound(c) /\ LedgerGrows(l, c) /\ c.active = 0 /\ c.tools = l.tools
      /\ Len(c.blocks) = Len(l.blocks)
      /\ \A b \in DOMAIN l.blocks : c.blocks[b].body = l.blocks[b].body
  BY CloseContentKeeps DEF Fed
<1>2. x \in ContentBlocks /\ x.state = "closed"
  BY DEF Stop, Block, ContentBlocks, Bodies
<1>3. c \in Ledgers /\ l \in Ledgers
  BY <1>1 DEF LedgerIsSound, Fed
<1>4. m = [c EXCEPT !.blocks = Append(c.blocks, x)]
  BY DEF HeuristicTool
<1> HIDE DEF c, x, m
<1>5. /\ m.blocks = Append(c.blocks, x) /\ m.active = 0 /\ m.tools = c.tools /\ m.over = c.over
      /\ m = [blocks |-> Append(c.blocks, x), active |-> c.active, tools |-> c.tools, over |-> c.over]
  BY <1>1, <1>3, <1>4 DEF Ledgers
<1>6. m \in Ledgers
  BY <1>2, <1>3, <1>5 DEF Ledgers
<1>7. LedgerIsSound(m) /\ LedgerGrows(c, m)
  BY <1>1, <1>2, <1>5, <1>6, OneMoreBlock DEF LedgerIsSound
<1>8. LedgerGrows(l, m)
  BY <1>1, <1>3, <1>6, <1>7, GrowsOn
<1>9. \A b \in DOMAIN l.blocks : m.blocks[b] = c.blocks[b]
  BY <1>1, <1>3, <1>5 DEF Ledgers
<1>10. HalvesAreHeld(m) /\ BuffersAreUnsaid(m)
  <2>1. LedgerIsSound(l) /\ HalvesAreHeld(l) /\ BuffersAreUnsaid(l)
    BY DEF Fed
  <2>2. \A b \in DOMAIN l.blocks : m.blocks[b].body = l.blocks[b].body
    BY <1>1, <1>9
  <2>3. \A t \in Tools : m.tools[t] = l.tools[t]
    BY <1>1, <1>5
  <2> QED
    BY <2>1, <2>2, <2>3, SameCallsAreHeld
<1>11. Fed(m)
  BY <1>7, <1>10 DEF Fed
<1> QED
  BY <1>8, <1>11 DEF m

WithDelta(l, b, body, tools) ==
  [blocks |-> [l.blocks EXCEPT ![b] = Delta(l.blocks[b], body)],
   active |-> l.active, tools |-> tools, over |-> l.over]

\* One block that is open gets a delta.
Feeds(l, b, body, tools) ==
  /\ LedgerIsSound(l) /\ b \in DOMAIN l.blocks /\ IsOpen(l, b)
  /\ body \in Bodies /\ Fragments(body) >= Fragments(l.blocks[b].body)
  /\ tools \in [Tools -> ToolStates] /\ \A t \in Tools : tools[t].block = l.tools[t].block
LEMMA DeltaKeeps ==
  ASSUME NEW l, NEW b, NEW body, NEW tools, Feeds(l, b, body, tools),
         NEW m, m = WithDelta(l, b, body, tools)
  PROVE  /\ LedgerIsSound(m) /\ LedgerGrows(l, m) /\ m.tools = tools
         /\ DOMAIN m.blocks = DOMAIN l.blocks /\ m.blocks[b].body = body
         /\ \A c \in DOMAIN l.blocks : m.blocks[c].kind = l.blocks[c].kind
         /\ \A c \in DOMAIN l.blocks \ {b} : m.blocks[c] = l.blocks[c]
<1>0. /\ LedgerIsSound(l) /\ b \in DOMAIN l.blocks /\ IsOpen(l, b)
      /\ body \in Bodies /\ Fragments(body) >= Fragments(l.blocks[b].body)
      /\ tools \in [Tools -> ToolStates] /\ \A t \in Tools : tools[t].block = l.tools[t].block
  BY DEF Feeds
<1> DEFINE x == [l.blocks[b] EXCEPT !.body = body]
<1>1. l \in Ledgers /\ l.blocks \in Seq(ContentBlocks) /\ b \in 1 .. Len(l.blocks)
      /\ l.blocks[b] \in ContentBlocks /\ l.blocks[b].state = "open"
  BY <1>0 DEF LedgerIsSound, Ledgers, IsOpen
<1>2. /\ Delta(l.blocks[b], body) = x /\ x \in ContentBlocks
      /\ x.body = body /\ x.state = "open" /\ x.kind = l.blocks[b].kind
  BY <1>0, <1>1 DEF Delta, ContentBlocks
<1>3. /\ m.blocks = [l.blocks EXCEPT ![b] = x] /\ m.active = l.active /\ m.over = l.over
      /\ m.tools = tools
      /\ m = [blocks |-> m.blocks, active |-> l.active, tools |-> tools, over |-> l.over]
  BY <1>0, <1>2 DEF WithDelta
<1> HIDE DEF x
<1>4. /\ m.blocks \in Seq(ContentBlocks) /\ Len(m.blocks) = Len(l.blocks)
      /\ DOMAIN m.blocks = DOMAIN l.blocks /\ m.blocks[b] = x
      /\ \A c \in DOMAIN l.blocks : c # b => m.blocks[c] = l.blocks[c]
  BY <1>0, <1>1, <1>2, <1>3, OneEntryChanged
<1>5. m \in Ledgers
  BY <1>0, <1>1, <1>3, <1>4 DEF Ledgers
<1>6. \A c \in DOMAIN l.blocks : /\ m.blocks[c].kind = l.blocks[c].kind
                                /\ m.blocks[c].state = l.blocks[c].state
  BY <1>0, <1>1, <1>2, <1>4
<1>7. LedgerIsSound(m)
  <2>1. ~m.over /\ m.active = l.active /\ \A t \in Tools : m.tools[t].block = l.tools[t].block
    BY <1>0, <1>3 DEF LedgerIsSound
  <2> QED
    BY <1>0, <2>1, <1>4, <1>5, <1>6, SameBlocksAreSound
<1>8. \A c \in DOMAIN l.blocks : Fragments(m.blocks[c].body) >= Fragments(l.blocks[c].body)
  BY <1>0, <1>1, <1>2, <1>4, BodiesAreCounted, SMTT(30)
<1>9. LedgerGrows(l, m)
  BY <1>0, <1>1, <1>4, <1>6, <1>8 DEF LedgerGrows, Grows, Ledgers
<1> QED
  BY <1>0, <1>2, <1>3, <1>4, <1>6, <1>7, <1>9

\* What a fragment of the arguments adds to a call that has begun.
LEMMA EmitKeeps ==
  ASSUME NEW l, LedgerIsSound(l), NEW t \in Tools, l.tools[t].block # 0,
         HalvesAreHeld(l), BuffersAreUnsaid(l), NEW n \in Nat, NEW kind,
         kind = KindOf[t] \/ (kind = "plain" /\ n >= 2 /\ l.tools[t].buffer = 0),
         NEW m, m = EmitArgs(l, t, kind, n), NEW b, b = l.tools[t].block,
         n = 0 \/ kind = "plain" \/ l.blocks[b].body = "none"
  PROVE  /\ Fed(m) /\ LedgerGrows(l, m) /\ DOMAIN m.blocks = DOMAIN l.blocks
         /\ \A c \in DOMAIN l.blocks : m.blocks[c].kind = l.blocks[c].kind
         /\ \A c \in DOMAIN l.blocks \ {b} : m.blocks[c] = l.blocks[c]
         /\ \A u \in Tools : m.tools[u].block = l.tools[u].block
         /\ \A u \in Tools \ {t} : m.tools[u] = l.tools[u]
         /\ n = 2 /\ l.blocks[b].body = "none" /\ l.tools[t].buffer = 0 => Complete(m.blocks[b])
<1> DEFINE tool == l.tools[t]
           kept == tool.buffer + n
<1>1. /\ l \in Ledgers /\ tool \in ToolStates /\ b \in DOMAIN l.blocks /\ IsOpen(l, b)
      /\ l.blocks[b] \in ContentBlocks /\ KindOf[t] \in {"plain", "Task", "aliased"}
      /\ l.tools \in [Tools -> ToolStates]
  <2>1. KindOf[t] \in {"plain", "Task", "aliased"}
    BY ChatConstants
  <2>2. l \in Ledgers /\ l.tools \in [Tools -> ToolStates] /\ l.blocks \in Seq(ContentBlocks)
    BY DEF LedgerIsSound, Ledgers
  <2>3. tool \in ToolStates
    BY <2>2
  <2>4. b \in 0 .. Len(l.blocks) /\ IsOpen(l, b) /\ b # 0
    BY DEF LedgerIsSound, ToolsAreOpen
  <2>5. b \in DOMAIN l.blocks /\ l.blocks[b] \in ContentBlocks
    BY <2>2, <2>4
  <2> QED
    BY <2>1, <2>2, <2>3, <2>4, <2>5
<1>2. /\ tool.buffer \in Nat /\ kept \in Nat /\ b \in Nat
      /\ tool.buffer # 0 => KindOf[t] # "plain" /\ l.blocks[b].body = "none"
      /\ kind \in {"plain", "Task", "aliased"}
  BY <1>1 DEF ToolStates, BuffersAreUnsaid
<1>3. \A u \in Tools : u # t => l.tools[u].block # b
  BY DEF LedgerIsSound, ToolsAreOpen
<1>4. CASE n = 0
  BY <1>1, <1>4, GrowsFromItself DEF EmitArgs, Fed
<1>5. CASE n > 0 /\ kind = "plain"
  <2> DEFINE body == Body(Fragments(l.blocks[b].body) + n)
  <2>1. /\ body \in Bodies /\ Fragments(body) >= Fragments(l.blocks[b].body)
        /\ n >= 2 => body \in {"whole", "excess"}
        /\ n = 2 /\ l.blocks[b].body = "none" => body = "whole"
    <3>1. Fragments(l.blocks[b].body) \in 0 .. 2
      BY <1>1, BodiesAreCounted
    <3>2. \A k \in Nat \ {0} : /\ Body(k) \in {"part", "whole", "excess"}
                               /\ k >= 2 => Body(k) \in {"whole", "excess"}
                               /\ Fragments(Body(k)) = IF k >= 2 THEN 2 ELSE 1
      BY DEF Body, Fragments
    <3>4. l.blocks[b].body = "none" => Fragments(l.blocks[b].body) = 0
      BY DEF Fragments
    <3>5. Body(2) = "whole"
      BY DEF Body
    <3>3. Fragments(l.blocks[b].body) + n \in Nat \ {0} /\ Fragments(l.blocks[b].body) + n >= n
      BY <1>5, <3>1
    <3> QED
      BY <1>5, <3>1, <3>2, <3>3, <3>4, <3>5, SMTT(30) DEF Bodies
  <2>2. m = WithDelta(l, b, body, l.tools)
    <3>1. m = [l EXCEPT !.blocks[b] = Delta(l.blocks[b], body)]
      BY <1>5 DEF EmitArgs
    <3> HIDE DEF body
    <3> QED
      BY <1>1, <3>1 DEF Ledgers, WithDelta
  <2>3. m.tools = l.tools
    BY <2>2 DEF WithDelta
  <2> HIDE DEF body
  <2>4. /\ LedgerIsSound(m) /\ LedgerGrows(l, m)
        /\ DOMAIN m.blocks = DOMAIN l.blocks /\ m.blocks[b].body = body
        /\ \A c \in DOMAIN l.blocks : m.blocks[c].kind = l.blocks[c].kind
        /\ \A c \in DOMAIN l.blocks \ {b} : m.blocks[c] = l.blocks[c]
    <3>1. /\ b \in DOMAIN l.blocks /\ IsOpen(l, b) /\ l.tools \in [Tools -> ToolStates]
          /\ body \in Bodies /\ Fragments(body) >= Fragments(l.blocks[b].body)
      BY <1>1, <2>1
    <3>2. Feeds(l, b, body, l.tools)
      BY <3>1 DEF Feeds
    <3> HIDE DEF tool, kept
    <3>3. LedgerIsSound(m) /\ LedgerGrows(l, m)
      BY <3>2, <2>2, DeltaKeeps
    <3>4. DOMAIN m.blocks = DOMAIN l.blocks /\ m.blocks[b].body = body
      BY <3>2, <2>2, DeltaKeeps
    <3>5. \A c \in DOMAIN l.blocks : m.blocks[c].kind = l.blocks[c].kind
      BY <3>2, <2>2, DeltaKeeps
    <3>6. \A c \in DOMAIN l.blocks \ {b} : m.blocks[c] = l.blocks[c]
      BY <3>2, <2>2, DeltaKeeps
    <3> QED
      BY <3>3, <3>4, <3>5, <3>6
  <2>5. \A u \in Tools : u # t /\ l.tools[u].block # 0 => l.tools[u].block \in DOMAIN l.blocks \ {b}
    BY <1>1, <1>3 DEF LedgerIsSound, ToolsAreOpen, Ledgers
  <2>6. HalvesAreHeld(m)
    <3>1. KindOf[t] # "plain" => m.blocks[b].body # "part"
      BY <1>5, <2>1, <2>4
    <3> QED
      BY <2>3, <2>4, <2>5, <3>1 DEF HalvesAreHeld
  <2>7. BuffersAreUnsaid(m)
    <3>1. tool.buffer = 0
      BY <1>2, <1>5
    <3> QED
      BY <2>3, <2>4, <2>5, <3>1 DEF BuffersAreUnsaid
  <2>8. n = 2 /\ l.blocks[b].body = "none" => Complete(m.blocks[b])
    BY <2>1, <2>4 DEF Complete
  <2> QED
    BY <2>3, <2>4, <2>6, <2>7, <2>8 DEF Fed
<1>6. CASE n > 0 /\ kind # "plain" /\ kept # 2
  <2>1. KindOf[t] # "plain" /\ l.blocks[b].body = "none" /\ ~(n = 2 /\ tool.buffer = 0)
    BY <1>6
  <2>2. m = [l EXCEPT !.tools = [l.tools EXCEPT ![t] = [tool EXCEPT !.buffer = kept]]]
    BY <1>1, <1>6 DEF EmitArgs, Ledgers
  <2> DEFINE x == [tool EXCEPT !.buffer = kept]
  <2>3. x \in ToolStates /\ x.block = b /\ x.buffer = kept
    BY <1>1, <1>2 DEF ToolStates
  <2> HIDE DEF x
  <2>4. /\ m.blocks = l.blocks /\ m.active = l.active /\ m.over = l.over
        /\ m.tools = [l.tools EXCEPT ![t] = x]
        /\ m = [blocks |-> l.blocks, active |-> l.active, tools |-> m.tools, over |-> l.over]
    BY <1>1, <2>2 DEF Ledgers, x
  <2>5. m \in Ledgers /\ m.tools[t] = x /\ \A u \in Tools : u # t => m.tools[u] = l.tools[u]
    BY <1>1, <2>3, <2>4 DEF Ledgers
  <2>6. \A u \in Tools : m.tools[u].block = l.tools[u].block
    BY <2>3, <2>5
  <2>7. LedgerIsSound(m)
    <3>1. ~m.over
      BY <2>4 DEF LedgerIsSound
    <3>2. /\ m.active = l.active /\ Len(m.blocks) = Len(l.blocks)
          /\ \A c \in DOMAIN l.blocks : /\ m.blocks[c].kind = l.blocks[c].kind
                                       /\ m.blocks[c].state = l.blocks[c].state
      BY <2>4
    <3>3. m \in Ledgers
      BY <2>5
    <3> QED
      BY <3>1, <3>2, <3>3, <2>6, SameBlocksAreSound
  <2>8. LedgerGrows(l, m)
    BY <1>1, <2>4, GrowsFromItself DEF LedgerGrows
  <2>9. HalvesAreHeld(m)
    BY <2>4, <2>6 DEF HalvesAreHeld
  <2>10. BuffersAreUnsaid(m)
    BY <2>1, <2>3, <2>4, <2>5 DEF BuffersAreUnsaid
  <2> QED
    BY <2>1, <2>4, <2>5, <2>6, <2>7, <2>8, <2>9, <2>10 DEF Fed
<1>7. CASE n > 0 /\ kind # "plain" /\ kept = 2
  <2> DEFINE body == "whole"
             x == [tool EXCEPT !.buffer = 0]
             tools == [l.tools EXCEPT ![t] = x]
  <2>1. body = "whole" /\ Fragments(body) = 2
    BY DEF Fragments
  <2>2. x \in ToolStates /\ x.block = b /\ x.buffer = 0
    BY <1>1 DEF ToolStates
  <2>3. m = WithDelta(l, b, body, tools)
    <3>1. m = [l EXCEPT !.tools[t].buffer = 0, !.blocks[b] = Delta(l.blocks[b], body)]
      BY <1>2, <1>7 DEF EmitArgs
    <3> HIDE DEF body
    <3> QED
      BY <1>1, <3>1 DEF Ledgers, WithDelta
  <2> HIDE DEF x, body
  <2>4. /\ tools \in [Tools -> ToolStates]
        /\ tools[t] = x
        /\ \A u \in Tools : u # t => tools[u] = l.tools[u]
    BY <1>1, <2>2
  <2>5. \A u \in Tools : tools[u].block = l.tools[u].block
    BY <2>2, <2>4
  <2> HIDE DEF tools
  <2>6. m.tools = tools
    BY <2>3 DEF WithDelta
  <2>7. body \in Bodies /\ Fragments(body) >= Fragments(l.blocks[b].body)
    BY <1>1, <2>1, BodiesAreCounted DEF Bodies
  <2>8. /\ LedgerIsSound(m) /\ LedgerGrows(l, m)
        /\ DOMAIN m.blocks = DOMAIN l.blocks /\ m.blocks[b].body = body
        /\ \A c \in DOMAIN l.blocks : m.blocks[c].kind = l.blocks[c].kind
        /\ \A c \in DOMAIN l.blocks \ {b} : m.blocks[c] = l.blocks[c]
    <3>1. b \in DOMAIN l.blocks /\ IsOpen(l, b) /\ tools \in [Tools -> ToolStates]
      BY <1>1, <2>4
    <3>2. Feeds(l, b, body, tools)
      BY <3>1, <2>5, <2>7 DEF Feeds
    <3> HIDE DEF tool, kept
    <3>3. LedgerIsSound(m) /\ LedgerGrows(l, m)
      BY <3>2, <2>3, DeltaKeeps
    <3>4. DOMAIN m.blocks = DOMAIN l.blocks /\ m.blocks[b].body = body
      BY <3>2, <2>3, DeltaKeeps
    <3>5. \A c \in DOMAIN l.blocks : m.blocks[c].kind = l.blocks[c].kind
      BY <3>2, <2>3, DeltaKeeps
    <3>6. \A c \in DOMAIN l.blocks \ {b} : m.blocks[c] = l.blocks[c]
      BY <3>2, <2>3, DeltaKeeps
    <3> QED
      BY <3>3, <3>4, <3>5, <3>6
  <2>9. \A u \in Tools : u # t /\ l.tools[u].block # 0 => l.tools[u].block \in DOMAIN l.blocks \ {b}
    BY <1>1, <1>3 DEF LedgerIsSound, ToolsAreOpen, Ledgers
  <2>10. HalvesAreHeld(m)
    BY <2>1, <2>2, <2>4, <2>6, <2>8, <2>9 DEF HalvesAreHeld
  <2>11. BuffersAreUnsaid(m)
    BY <2>2, <2>4, <2>6, <2>8, <2>9 DEF BuffersAreUnsaid
  <2>12. Complete(m.blocks[b])
    BY <2>1, <2>8 DEF Complete
  <2> QED
    BY <2>4, <2>5, <2>6, <2>8, <2>10, <2>11, <2>12 DEF Fed
<1> QED
  BY <1>2, <1>4, <1>5, <1>6, <1>7, SMTT(30)

\* A call begins: with what came of its arguments before its name, and n fragments more.
LEMMA StartKeeps ==
  ASSUME NEW l, Fed(l), NEW t \in Tools, l.tools[t].block = 0, NEW n \in Nat,
         NEW kind, kind = KindOf[t] \/ (kind = "plain" /\ n >= 2),
         NEW m, m = StartTool(l, t, kind, n), NEW new, new = Len(l.blocks) + 1
  PROVE  /\ Fed(m) /\ LedgerGrows(l, m) /\ DOMAIN m.blocks = 1 .. new
         /\ \A b \in DOMAIN l.blocks : m.blocks[b].kind = l.blocks[b].kind
         /\ \A b \in DOMAIN l.blocks : m.blocks[b].body = l.blocks[b].body
         /\ \A u \in Tools \ {t} : m.tools[u] = l.tools[u]
         /\ m.tools[t].block = new
         /\ n = 2 /\ l.tools[t].early = 0 => Complete(m.blocks[new])
<1> DEFINE c == CloseContent(l)
           x == Block("tool_use", "none")
           y == [NoTool EXCEPT !.block = new]
           w == [c.tools EXCEPT ![t] = y]
           s == [blocks |-> Append(c.blocks, x), active |-> c.active, tools |-> w, over |-> c.over]
           k == l.tools[t].early + n
<1>1. /\ LedgerIsSound(c) /\ LedgerGrows(l, c) /\ c.active = 0 /\ c.tools = l.tools
      /\ Len(c.blocks) = Len(l.blocks)
      /\ \A b \in DOMAIN l.blocks : c.blocks[b].kind = l.blocks[b].kind /\ c.blocks[b].body = l.blocks[b].body
  BY CloseContentKeeps DEF Fed
<1>2. /\ x \in ContentBlocks /\ x.state = "open" /\ x.kind = "tool_use" /\ x.body = "none"
      /\ y.block = new /\ y.buffer = 0 /\ y.early = 0
  BY DEF Block, ContentBlocks, Bodies, NoTool
<1>3. /\ c \in Ledgers /\ l \in Ledgers /\ Len(l.blocks) \in Nat /\ new \in Nat \ {0}
      /\ DOMAIN l.blocks = 1 .. Len(l.blocks) /\ DOMAIN c.blocks = DOMAIN l.blocks
      /\ l.tools[t] \in ToolStates
  BY <1>1 DEF LedgerIsSound, Fed, Ledgers
<1>4. y \in ToolStates
  BY <1>3 DEF ToolStates, NoTool
<1>5. k \in Nat /\ k >= n /\ (l.tools[t].early = 0 => k = n)
  BY <1>3 DEF ToolStates
<1>6. m = EmitArgs(s, t, kind, k)
  <2>1. m = EmitArgs([c EXCEPT !.blocks = Append(c.blocks, x), !.tools = w], t, kind, k)
    BY <1>1 DEF StartTool
  <2> HIDE DEF c, x, w, k
  <2>2. [c EXCEPT !.blocks = Append(c.blocks, x), !.tools = w] = s
    BY <1>3, BlocksAndToolsChanged
  <2> QED
    BY <2>1, <2>2
<1> HIDE DEF c, x, y, k
<1>7. /\ s.blocks = Append(c.blocks, x) /\ s.active = 0 /\ s.over = c.over
      /\ s.tools = [c.tools EXCEPT ![t] = y]
      /\ s = [blocks |-> s.blocks, active |-> c.active, tools |-> s.tools, over |-> c.over]
      /\ c.active \in Nat /\ c.over \in BOOLEAN
  <2>1. c.active = 0 /\ c.over \in BOOLEAN
    BY <1>1, <1>3 DEF Ledgers
  <2> HIDE DEF w
  <2>2. /\ s.blocks = Append(c.blocks, x) /\ s.active = c.active /\ s.over = c.over /\ s.tools = w
    OBVIOUS
  <2>3. s = [blocks |-> s.blocks, active |-> c.active, tools |-> s.tools, over |-> c.over]
    BY <2>2
  <2> QED
    BY <2>1, <2>2, <2>3 DEF w
<1> HIDE DEF s, w
<1>8. /\ s.blocks \in Seq(ContentBlocks) /\ DOMAIN s.blocks = 1 .. new /\ s.blocks[new] = x
      /\ \A b \in DOMAIN l.blocks : s.blocks[b] = c.blocks[b]
  BY <1>1, <1>2, <1>3, <1>7 DEF Ledgers
<1>9. /\ s.tools \in [Tools -> ToolStates] /\ s.tools[t] = y
      /\ \A u \in Tools \ {t} : s.tools[u] = l.tools[u]
  BY <1>1, <1>3, <1>4, <1>7 DEF Ledgers
<1>10. s \in Ledgers
  <2>1. s.blocks \in Seq(ContentBlocks) /\ s.tools \in [Tools -> ToolStates]
    BY <1>8, <1>9
  <2> DEFINE blocks == s.blocks
             tools == s.tools
             active == c.active
             over == c.over
  <2>2. active \in Nat /\ over \in BOOLEAN /\ s = [blocks |-> blocks, active |-> active, tools |-> tools, over |-> over]
    BY <1>7
  <2> HIDE DEF blocks, tools, active, over
  <2>3. [blocks |-> blocks, active |-> active, tools |-> tools, over |-> over] \in Ledgers
    BY <2>1, <2>2 DEF Ledgers, blocks, tools
  <2> QED
    BY <2>2, <2>3
<1>11. LedgerIsSound(s) /\ LedgerGrows(c, s)
  <2>1. ~s.over /\ new = Len(c.blocks) + 1
    BY <1>1, <1>7 DEF LedgerIsSound
  <2>2. c.tools[t].block = 0 /\ s.tools[t].block = new
    BY <1>1, <1>2, <1>9
  <2>3. \A u \in Tools \ {t} : s.tools[u].block = c.tools[u].block
    BY <1>1, <1>9
  <2>4. /\ x.state = "open" /\ x.kind = "tool_use" /\ s.active = 0
        /\ \E v \in Tools : /\ c.tools[v].block = 0 /\ s.tools[v].block = Len(c.blocks) + 1
                            /\ \A u \in Tools \ {v} : s.tools[u].block = c.tools[u].block
    BY <1>2, <1>7, <2>1, <2>2, <2>3
  <2>5. LedgerIsSound(c) /\ c.active = 0 /\ x \in ContentBlocks /\ s.blocks = Append(c.blocks, x)
    BY <1>1, <1>2, <1>7
  <2> QED
    BY <1>10, <2>1, <2>4, <2>5, OneMoreBlock
<1>12. LedgerGrows(l, s)
  BY <1>1, <1>3, <1>10, <1>11, GrowsOn
<1>13. \A u \in Tools : l.tools[u].block # 0 => u # t /\ l.tools[u].block \in DOMAIN l.blocks
  BY <1>1, <1>3 DEF Fed, LedgerIsSound, ToolsAreOpen
<1>14. \A b \in DOMAIN l.blocks : s.blocks[b].body = l.blocks[b].body /\ s.blocks[b].kind = l.blocks[b].kind
  BY <1>1, <1>8
<1>15. HalvesAreHeld(s)
  <2>1. HalvesAreHeld(l)
    BY DEF Fed
  <2> QED
    <3>1. /\ s.tools[t].block = new /\ s.blocks[new].body = "none"
          /\ \A u \in Tools \ {t} : s.tools[u].block = l.tools[u].block
      BY <1>2, <1>8, <1>9
    <3> QED
      <4>1. ASSUME NEW u \in Tools, s.tools[u].block # 0, KindOf[u] # "plain"
            PROVE  s.blocks[s.tools[u].block].body # "part"
        <5>1. CASE u = t
          BY <3>1, <5>1
        <5>2. CASE u # t
          <6>1. s.tools[u].block = l.tools[u].block /\ l.tools[u].block \in DOMAIN l.blocks
            BY <1>13, <3>1, <4>1, <5>2
          <6>2. l.blocks[l.tools[u].block].body # "part"
            BY <2>1, <4>1, <6>1 DEF HalvesAreHeld
          <6> QED
            BY <1>14, <6>1, <6>2
        <5> QED
          BY <5>1, <5>2
      <4> QED
        BY <4>1 DEF HalvesAreHeld
<1>16. BuffersAreUnsaid(s)
  <2>1. BuffersAreUnsaid(l)
    BY DEF Fed
  <2> QED
    BY <2>1, <1>2, <1>9, <1>13, <1>14 DEF BuffersAreUnsaid
<1>17. s.tools[t].block = new /\ new # 0 /\ s.blocks[new].body = "none" /\ s.tools[t].buffer = 0
  BY <1>2, <1>3, <1>8, <1>9
<1>18. /\ Fed(m) /\ LedgerGrows(s, m) /\ DOMAIN m.blocks = DOMAIN s.blocks
       /\ \A b \in DOMAIN s.blocks : m.blocks[b].kind = s.blocks[b].kind
       /\ \A b \in DOMAIN s.blocks \ {new} : m.blocks[b] = s.blocks[b]
       /\ \A u \in Tools : m.tools[u].block = s.tools[u].block
       /\ \A u \in Tools \ {t} : m.tools[u] = s.tools[u]
       /\ k = 2 => Complete(m.blocks[new])
  BY <1>5, <1>6, <1>11, <1>15, <1>16, <1>17, EmitKeeps
<1>19. LedgerGrows(l, m)
  <2>1. m \in Ledgers
    BY <1>18 DEF Fed, LedgerIsSound
  <2> QED
    BY <2>1, <1>3, <1>10, <1>12, <1>18, GrowsOn
<1>20. DOMAIN l.blocks \subseteq DOMAIN s.blocks \ {new}
  BY <1>3, <1>8
<1> QED
  BY <1>5, <1>3, <1>8, <1>9, <1>14, <1>17, <1>18, <1>19, <1>20

\* A fragment of the arguments of a call, perhaps before its name.
LEMMA ArgsKeep ==
  ASSUME NEW l, Fed(l), NEW t \in Tools,
         l.tools[t].block # 0 =>
           Fragments(l.blocks[l.tools[t].block].body) + l.tools[t].buffer < 2,
         NEW m, m = ToolArgs(l, t)
  PROVE  Fed(m) /\ LedgerGrows(l, m)
<1> DEFINE c == CloseContent(l)
<1>1. /\ LedgerIsSound(c) /\ LedgerGrows(l, c) /\ c.tools = l.tools
      /\ \A b \in DOMAIN l.blocks : c.blocks[b].body = l.blocks[b].body
  BY CloseContentKeeps DEF Fed
<1>2. LedgerIsSound(l) /\ HalvesAreHeld(l) /\ BuffersAreUnsaid(l)
  BY DEF Fed
<1>3. c \in Ledgers /\ l \in Ledgers /\ l.tools[t] \in ToolStates
  BY <1>1, <1>2 DEF LedgerIsSound, Ledgers
<1>4. HalvesAreHeld(c) /\ BuffersAreUnsaid(c)
  BY <1>1, <1>2, SameCallsAreHeld
<1>5. CASE l.tools[t].block = 0
  <2> DEFINE x == [l.tools[t] EXCEPT !.early = l.tools[t].early + 1]
  <2>1. m = [c EXCEPT !.tools = [c.tools EXCEPT ![t] = x]]
    BY <1>1, <1>3, <1>5 DEF ToolArgs, Ledgers
  <2>2. x \in ToolStates /\ x.block = l.tools[t].block /\ x.buffer = l.tools[t].buffer
    BY <1>3 DEF ToolStates
  <2> HIDE DEF x, c
  <2>3. /\ m.blocks = c.blocks /\ m.active = c.active /\ m.over = c.over
        /\ m.tools = [c.tools EXCEPT ![t] = x]
        /\ m = [blocks |-> c.blocks, active |-> c.active, tools |-> m.tools, over |-> c.over]
    BY <1>3, <2>1 DEF Ledgers
  <2>4. m \in Ledgers /\ m.tools[t] = x /\ \A u \in Tools : u # t => m.tools[u] = c.tools[u]
    BY <1>3, <2>2, <2>3 DEF Ledgers
  <2>5. \A u \in Tools : /\ m.tools[u].block = c.tools[u].block
                         /\ m.tools[u].buffer = c.tools[u].buffer
    BY <1>1, <2>2, <2>4
  <2>6. LedgerIsSound(m)
    <3>1. ~m.over
      BY <1>1, <2>3 DEF LedgerIsSound
    <3>2. /\ m.active = c.active /\ Len(m.blocks) = Len(c.blocks)
          /\ \A b \in DOMAIN c.blocks : /\ m.blocks[b].kind = c.blocks[b].kind
                                       /\ m.blocks[b].state = c.blocks[b].state
      BY <2>3
    <3> QED
      BY <1>1, <2>4, <2>5, <3>1, <3>2, SameBlocksAreSound
  <2>7. HalvesAreHeld(m) /\ BuffersAreUnsaid(m)
    <3>1. \A b \in DOMAIN c.blocks : m.blocks[b].body = c.blocks[b].body
      BY <2>3
    <3> QED
      BY <1>1, <1>4, <2>5, <3>1, SameCallsAreHeld
  <2>8. LedgerGrows(l, m)
    BY <1>1, <2>3 DEF LedgerGrows
  <2> QED
    BY <2>6, <2>7, <2>8 DEF Fed
<1>6. CASE l.tools[t].block # 0
  <2> DEFINE b == l.tools[t].block
  <2>1. b \in DOMAIN l.blocks /\ l.blocks[b] \in ContentBlocks
    BY <1>2, <1>6 DEF LedgerIsSound, ToolsAreOpen, Ledgers
  <2>2. c.blocks[b].body = l.blocks[b].body /\ c.tools[t].block = b
    BY <1>1, <2>1
  <2>3. KindOf[t] = "plain" \/ c.blocks[b].body = "none"
    <3> DEFINE body == l.blocks[b].body
    <3>1. Fragments(body) \in 0 .. 2 /\ l.tools[t].buffer \in Nat
      BY <1>3, <2>1, BodiesAreCounted DEF ToolStates
    <3>2. Fragments(body) + l.tools[t].buffer < 2
      BY <1>6
    <3>3. Fragments(body) < 2
      BY <3>1, <3>2
    <3>4. body \in {"none", "part"}
      BY <3>3 DEF Fragments
    <3>5. KindOf[t] # "plain" => body # "part"
      BY <1>2, <1>6 DEF HalvesAreHeld
    <3> QED
      BY <2>2, <3>4, <3>5
  <2>4. m = EmitArgs(c, t, KindOf[t], 1)
    BY <1>6 DEF ToolArgs
  <2> HIDE DEF c
  <2>5. Fed(m) /\ LedgerGrows(c, m)
    BY <1>1, <1>4, <1>6, <2>2, <2>3, <2>4, EmitKeeps, SMTT(30)
  <2>6. m \in Ledgers
    BY <2>5 DEF Fed, LedgerIsSound
  <2> QED
    BY <1>1, <1>3, <2>5, <2>6, GrowsOn
<1> QED
  BY <1>5, <1>6

AllClosed(l) == \A b \in DOMAIN l.blocks : l.blocks[b].state = "closed"

\* The calls of m are those of l.
SameCalls(l, m) ==
  /\ DOMAIN m.blocks = DOMAIN l.blocks /\ m.tools = l.tools
  /\ \A b \in DOMAIN l.blocks : /\ m.blocks[b].kind = l.blocks[b].kind
                                /\ m.blocks[b].body = l.blocks[b].body

\* One more attempt brought the rest of a call's arguments.
LEMMA RepairKeeps ==
  ASSUME NEW l, l = ledger, LedgerIsSound(l), HalvesAreHeld(l), NEW t \in Incomplete(l),
         NEW b, b = l.tools[t].block,
         NEW m, m = Repaired(t)
  PROVE  /\ LedgerIsSound(m) /\ HalvesAreHeld(m) /\ LedgerGrows(l, m)
         /\ m.tools = l.tools /\ ToolBlocks(m) # {}
<1>1. /\ l \in Ledgers /\ t \in Tools /\ b # 0 /\ b \in DOMAIN l.blocks /\ IsOpen(l, b)
      /\ l.blocks[b] \in ContentBlocks /\ l.blocks[b].kind = "tool_use"
      /\ l.tools \in [Tools -> ToolStates]
  <2>1. t \in Tools /\ b # 0
    BY DEF Incomplete, StartedTools
  <2>2. b \in 0 .. Len(l.blocks) /\ IsOpen(l, b) /\ l.blocks[b].kind = "tool_use"
    BY <2>1 DEF LedgerIsSound, ToolsAreOpen
  <2>3. l \in Ledgers /\ l.blocks \in Seq(ContentBlocks) /\ l.tools \in [Tools -> ToolStates]
    BY DEF LedgerIsSound, Ledgers
  <2>4. b \in DOMAIN l.blocks
    BY <2>1, <2>2, <2>3
  <2> QED
    BY <2>1, <2>2, <2>3, <2>4
<1>2. PICK body \in {"raw", "whole"} : m = [l EXCEPT !.blocks[b] = Delta(l.blocks[b], body)]
  BY DEF Repaired
<1>3. m = WithDelta(l, b, body, l.tools)
  <2>1. PICK x, y, z, w : l = [blocks |-> x, active |-> y, tools |-> z, over |-> w]
    BY <1>1 DEF Ledgers
  <2>2. m = [l EXCEPT !.blocks = [l.blocks EXCEPT ![b] = Delta(l.blocks[b], body)]]
    BY <1>2
  <2> QED
    BY <2>1, <2>2 DEF WithDelta
<1>4. body \in Bodies /\ Fragments(body) >= Fragments(l.blocks[b].body)
  <2>1. Fragments(body) = 2 /\ body \in Bodies
    BY DEF Fragments, Bodies
  <2> QED
    BY <1>1, <2>1, BodiesAreCounted
<1>5. /\ LedgerIsSound(m) /\ LedgerGrows(l, m) /\ m.tools = l.tools
      /\ DOMAIN m.blocks = DOMAIN l.blocks /\ m.blocks[b].body = body
      /\ \A c \in DOMAIN l.blocks : m.blocks[c].kind = l.blocks[c].kind
      /\ \A c \in DOMAIN l.blocks \ {b} : m.blocks[c] = l.blocks[c]
  <2>1. Feeds(l, b, body, l.tools)
    BY <1>1, <1>4 DEF Feeds, LedgerIsSound, Ledgers
  <2> QED
    BY <1>3, <2>1, DeltaKeeps
<1>6. \A u \in Tools : l.tools[u].block # 0 => l.tools[u].block \in DOMAIN l.blocks
  BY DEF LedgerIsSound, ToolsAreOpen, Ledgers
<1>7. ASSUME NEW u \in Tools, m.tools[u].block # 0, KindOf[u] # "plain"
      PROVE  m.blocks[m.tools[u].block].body # "part"
  <2> DEFINE c == l.tools[u].block
  <2>1. m.tools[u].block = c /\ c \in DOMAIN l.blocks
    BY <1>5, <1>6, <1>7
  <2>2. l.blocks[c].body # "part"
    BY <1>5, <1>7 DEF HalvesAreHeld
  <2> HIDE DEF c
  <2>3. CASE c = b
    BY <1>2, <1>5, <2>1, <2>3
  <2>4. CASE c # b
    BY <1>5, <2>1, <2>2, <2>4
  <2> QED
    BY <2>3, <2>4
<1>8. b \in ToolBlocks(m)
  BY <1>1, <1>5 DEF ToolBlocks
<1>9. HalvesAreHeld(m)
  BY <1>7 DEF HalvesAreHeld
<1> QED
  BY <1>5, <1>8, <1>9

\* What waits at the end of an answer goes out: half an object of an aliased call, never of a Task.
LEMMA FlushKeeps ==
  ASSUME NEW l, Fed(l), NEW m, m = FlushTools(l)
  PROVE  /\ LedgerIsSound(m) /\ LedgerGrows(l, m)
         /\ \A t \in Tools : m.tools[t].block # 0 /\ KindOf[t] = "Task" =>
              m.blocks[m.tools[t].block].body # "part"
<1>1. LedgerIsSound(l) /\ HalvesAreHeld(l) /\ BuffersAreUnsaid(l)
  BY DEF Fed
<1>2. /\ l \in Ledgers /\ l.blocks \in Seq(ContentBlocks) /\ l.tools \in [Tools -> ToolStates]
      /\ DOMAIN l.blocks = 1 .. Len(l.blocks) /\ Len(l.blocks) \in Nat
      /\ l.active \in Nat /\ l.over \in BOOLEAN
  BY <1>1 DEF LedgerIsSound, Ledgers
<1> DEFINE Waits(b) == \E t \in Tools : Waiting(l, t) /\ l.tools[t].block = b
           Owner(b) == CHOOSE t \in Tools : l.tools[t].block = b
           Flushed(b) == Delta(l.blocks[b], IF KindOf[Owner(b)] = "Task" THEN "whole"
                                            ELSE Body(l.tools[Owner(b)].buffer))
           blocks == [b \in DOMAIN l.blocks |-> IF Waits(b) THEN Flushed(b) ELSE l.blocks[b]]
           tools == [t \in Tools |-> IF Waiting(l, t) THEN [l.tools[t] EXCEPT !.buffer = 0] ELSE l.tools[t]]
<1>3. m = [l EXCEPT !.blocks = blocks, !.tools = tools]
  BY <1>2 DEF FlushTools
<1> HIDE DEF blocks, tools
<1>4. m = [blocks |-> blocks, active |-> l.active, tools |-> tools, over |-> l.over]
  BY <1>2, <1>3, BlocksAndToolsChanged
<1>5. ASSUME NEW b \in DOMAIN l.blocks, Waits(b)
      PROVE  /\ Owner(b) \in Tools /\ l.tools[Owner(b)].block = b /\ Waiting(l, Owner(b))
             /\ l.blocks[b].body = "none" /\ IsOpen(l, b) /\ l.tools[Owner(b)].buffer # 0
  <2>1. PICK t \in Tools : Waiting(l, t) /\ l.tools[t].block = b
    BY <1>5
  <2>2. Owner(b) \in Tools /\ l.tools[Owner(b)].block = b
    BY <2>1
  <2>3. Owner(b) = t
    BY <1>1, <1>2, <2>1, <2>2 DEF LedgerIsSound, ToolsAreOpen
  <2> HIDE DEF Owner
  <2>4. l.blocks[b].body = "none" /\ l.tools[t].buffer # 0
    BY <1>1, <2>1 DEF Waiting, BuffersAreUnsaid
  <2>5. IsOpen(l, b)
    BY <1>1, <1>2, <2>1 DEF LedgerIsSound, ToolsAreOpen
  <2> QED
    BY <2>1, <2>2, <2>3, <2>4, <2>5
<1>6. ASSUME NEW b \in DOMAIN l.blocks
      PROVE  /\ blocks[b] \in ContentBlocks /\ blocks[b].kind = l.blocks[b].kind
             /\ blocks[b].state = l.blocks[b].state
             /\ Fragments(blocks[b].body) >= Fragments(l.blocks[b].body)
             /\ Waits(b) /\ KindOf[Owner(b)] = "Task" => blocks[b].body = "whole"
             /\ ~Waits(b) => blocks[b] = l.blocks[b]
  <2>1. l.blocks[b] \in ContentBlocks
    BY <1>2
  <2>2. CASE Waits(b)
    <3>1. /\ l.blocks[b].body = "none" /\ l.blocks[b].state = "open"
          /\ l.tools[Owner(b)].buffer # 0
      BY <1>5, <2>2 DEF IsOpen
    <3> DEFINE body == IF KindOf[Owner(b)] = "Task" THEN "whole" ELSE Body(l.tools[Owner(b)].buffer)
    <3>2. blocks[b] = Delta(l.blocks[b], body)
      BY <2>2, <3>1 DEF blocks
    <3>3. body \in {"whole", "part", "excess"} /\ (KindOf[Owner(b)] = "Task" => body = "whole")
      BY <3>1 DEF Body
    <3> HIDE DEF body, Waits, Owner
    <3>4. blocks[b] = [l.blocks[b] EXCEPT !.body = body]
      BY <2>1, <3>1, <3>2 DEF Delta, ContentBlocks
    <3>5. /\ blocks[b] \in ContentBlocks /\ blocks[b].kind = l.blocks[b].kind
          /\ blocks[b].state = l.blocks[b].state /\ blocks[b].body = body
      BY <2>1, <3>3, <3>4 DEF ContentBlocks, Bodies
    <3>6. Fragments(body) >= Fragments(l.blocks[b].body)
      BY <3>1, <3>3 DEF Fragments
    <3> QED
      BY <2>2, <3>3, <3>5, <3>6
  <2>3. CASE ~Waits(b)
    <3>1. blocks[b] = l.blocks[b]
      BY <2>3 DEF blocks
    <3> HIDE DEF Waits, Owner
    <3> QED
      BY <2>1, <2>3, <3>1, BodiesAreCounted
  <2> QED
    BY <2>2, <2>3
<1>7. blocks \in Seq(ContentBlocks) /\ Len(blocks) = Len(l.blocks) /\ DOMAIN blocks = DOMAIN l.blocks
  <2>1. DOMAIN blocks = 1 .. Len(l.blocks)
    BY <1>2 DEF blocks
  <2>2. blocks = [b \in DOMAIN blocks |-> blocks[b]]
    BY DEF blocks
  <2>3. blocks \in [1 .. Len(l.blocks) -> ContentBlocks]
    BY <1>2, <1>6, <2>1, <2>2
  <2> QED
    BY <1>2, <2>1, <2>3
<1>8. ASSUME NEW t \in Tools
      PROVE  tools[t] \in ToolStates /\ tools[t].block = l.tools[t].block
  <2>1. l.tools[t] \in ToolStates
    BY <1>2
  <2>2. tools[t] = IF Waiting(l, t) THEN [l.tools[t] EXCEPT !.buffer = 0] ELSE l.tools[t]
    BY DEF tools
  <2>3. CASE Waiting(l, t)
    <3>1. tools[t] = [l.tools[t] EXCEPT !.buffer = 0]
      BY <2>2, <2>3
    <3>2. PICK x, y, z \in Nat : l.tools[t] = [block |-> x, early |-> y, buffer |-> z]
      BY <2>1 DEF ToolStates
    <3>3. tools[t] = [block |-> x, early |-> y, buffer |-> 0]
      BY <3>1, <3>2
    <3> QED
      BY <3>2, <3>3 DEF ToolStates
  <2>4. CASE ~Waiting(l, t)
    BY <2>1, <2>2, <2>4
  <2> QED
    BY <2>3, <2>4
<1>9. tools \in [Tools -> ToolStates]
  <2>1. tools = [t \in Tools |-> tools[t]]
    BY DEF tools
  <2> QED
    BY <1>8, <2>1
<1>10. m.blocks = blocks /\ m.tools = tools /\ m.active = l.active /\ m.over = l.over
  BY <1>4
<1>11. m \in Ledgers
  BY <1>2, <1>4, <1>7, <1>9 DEF Ledgers
<1>12. LedgerIsSound(m)
  <2>1. ~m.over
    BY <1>1, <1>10 DEF LedgerIsSound
  <2>2. /\ m.active = l.active /\ Len(m.blocks) = Len(l.blocks)
        /\ \A t \in Tools : m.tools[t].block = l.tools[t].block
    BY <1>7, <1>8, <1>10
  <2>3. \A b \in DOMAIN l.blocks : /\ m.blocks[b].kind = l.blocks[b].kind
                                  /\ m.blocks[b].state = l.blocks[b].state
    BY <1>6, <1>10
  <2> QED
    BY <1>1, <1>11, <2>1, <2>2, <2>3, SameBlocksAreSound
<1>13. LedgerGrows(l, m)
  BY <1>2, <1>6, <1>7, <1>10, SMTT(30) DEF LedgerGrows, Grows
<1>14. ASSUME NEW t \in Tools, l.tools[t].block # 0, KindOf[t] = "Task"
       PROVE  blocks[l.tools[t].block].body # "part"
  <2> DEFINE b == l.tools[t].block
  <2>1. b \in DOMAIN l.blocks /\ b # 0
    BY <1>1, <1>2, <1>14 DEF LedgerIsSound, ToolsAreOpen
  <2>2. CASE Waits(b)
    <3>1. Owner(b) \in Tools /\ l.tools[Owner(b)].block = b
      BY <1>5, <2>1, <2>2
    <3>2. Owner(b) = t
      BY <1>1, <2>1, <3>1 DEF LedgerIsSound, ToolsAreOpen
    <3> HIDE DEF Owner, Waits
    <3> QED
      BY <1>6, <1>14, <2>1, <2>2, <3>2
  <2>3. CASE ~Waits(b)
    <3>1. blocks[b] = l.blocks[b]
      BY <1>6, <2>1, <2>3
    <3> QED
      BY <1>1, <1>14, <3>1 DEF HalvesAreHeld
  <2> QED
    BY <2>2, <2>3
<1> QED
  BY <1>8, <1>10, <1>12, <1>13, <1>14

\* All blocks are closed when the answer is over.
LEMMA FinaleCloses ==
  ASSUME NEW l, LedgerIsSound(l), NEW m, m = Finale(l)
  PROVE  /\ AllClosed(m) /\ LedgerGrows(l, m) /\ m.over /\ SameCalls(l, m)
         /\ m.active = 0 /\ Len(m.blocks) = Len(l.blocks)
<1> DEFINE c == CloseContent(l)
           S == {c.tools[t].block : t \in StartedTools(l)}
           blocks == [b \in DOMAIN c.blocks |-> IF b \in S THEN Stop(c.blocks[b]) ELSE c.blocks[b]]
<1>1. /\ LedgerIsSound(c) /\ LedgerGrows(l, c) /\ c.active = 0 /\ c.tools = l.tools
      /\ Len(c.blocks) = Len(l.blocks)
      /\ \A b \in DOMAIN l.blocks : c.blocks[b].kind = l.blocks[b].kind /\ c.blocks[b].body = l.blocks[b].body
  BY CloseContentKeeps
<1>2. /\ l \in Ledgers /\ c \in Ledgers /\ Len(l.blocks) \in Nat
      /\ DOMAIN l.blocks = 1 .. Len(l.blocks) /\ DOMAIN c.blocks = DOMAIN l.blocks
  BY <1>1 DEF LedgerIsSound, Ledgers
<1>3. m = [StopEach(c, S) EXCEPT !.over = TRUE]
  BY <1>1 DEF Finale, CloseAll
<1>4. StopEach(c, S) = [c EXCEPT !.blocks = blocks, !.active = 0]
  <2> HIDE DEF c, S
  <2>1. StopEach(c, S) = [c EXCEPT !.blocks = blocks, !.active = IF c.active \in S THEN 0 ELSE c.active]
    BY <1>2 DEF StopEach, Ledgers
  <2>2. (IF c.active \in S THEN 0 ELSE c.active) = 0
    BY <1>1
  <2> HIDE DEF blocks
  <2> QED
    BY <2>1, <2>2
<1> HIDE DEF c, S, blocks
<1>5. m.blocks = blocks /\ m.active = 0 /\ m.over /\ m.tools = c.tools
  <2>1. PICK x, y, z, w : c = [blocks |-> x, active |-> y, tools |-> z, over |-> w]
    BY <1>2 DEF Ledgers
  <2>2. StopEach(c, S) = [blocks |-> blocks, active |-> 0, tools |-> z, over |-> w]
    BY <1>4, <2>1
  <2>3. m = [[blocks |-> blocks, active |-> 0, tools |-> z, over |-> w] EXCEPT !.over = TRUE]
    BY <1>3, <2>2
  <2> QED
    BY <2>1, <2>3
<1>6. ASSUME NEW b \in DOMAIN l.blocks
      PROVE  /\ blocks[b].state = "closed" /\ blocks[b].kind = l.blocks[b].kind
             /\ blocks[b].body = l.blocks[b].body
  <2>1. c.blocks[b] \in ContentBlocks /\ b # 0
    BY <1>2 DEF Ledgers
  <2>2. CASE b \in S
    <3>1. c.blocks[b].state = "open"
      <4>1. PICK t \in Tools : c.tools[t].block = b
        BY <2>2 DEF S, StartedTools
      <4> QED
        BY <1>1, <2>1, <4>1 DEF LedgerIsSound, ToolsAreOpen, IsOpen
    <3>2. blocks[b] = [c.blocks[b] EXCEPT !.state = "closed"]
      BY <1>2, <2>1, <2>2, <3>1 DEF blocks, Stop, ContentBlocks
    <3> QED
      BY <1>1, <2>1, <3>2 DEF ContentBlocks
  <2>3. CASE b \notin S
    <3>1. \A t \in Tools : c.tools[t].block # b
      BY <1>1, <2>1, <2>3 DEF S, StartedTools
    <3>2. c.blocks[b].state = "closed"
      BY <1>1, <1>2, <2>1, <3>1 DEF LedgerIsSound, RestIsClosed
    <3> QED
      BY <1>1, <1>2, <2>3, <3>2 DEF blocks
  <2> QED
    BY <2>2, <2>3
<1>7. DOMAIN blocks = DOMAIN l.blocks /\ Len(blocks) = Len(l.blocks)
  <2>1. DOMAIN blocks = 1 .. Len(l.blocks)
    BY <1>2 DEF blocks
  <2> QED
    BY <1>2, <2>1
<1>8. LedgerGrows(l, m)
  <2>1. \A b \in DOMAIN l.blocks : l.blocks[b] \in ContentBlocks
    BY <1>2 DEF Ledgers
  <2> QED
    BY <1>2, <1>5, <1>6, <1>7, <2>1, BodiesAreCounted DEF LedgerGrows, Grows
<1> QED
  BY <1>1, <1>5, <1>6, <1>7, <1>8 DEF AllClosed, SameCalls

\* After a failure nothing is left open.
LEMMA FailureCloses ==
  ASSUME NEW l, LedgerIsSound(l), NEW m, m = CloseUnclosed(l)
  PROVE  /\ AllClosed(m) /\ LedgerGrows(l, m) /\ SameCalls(l, m)
         /\ m.active \in 0 .. Len(m.blocks) /\ Len(m.blocks) = Len(l.blocks)
<1> DEFINE S == {b \in DOMAIN l.blocks : l.blocks[b].state = "open"}
           blocks == [b \in DOMAIN l.blocks |-> IF b \in S THEN Stop(l.blocks[b]) ELSE l.blocks[b]]
           active == IF l.active \in S THEN 0 ELSE l.active
<1>1. /\ l \in Ledgers /\ Len(l.blocks) \in Nat /\ DOMAIN l.blocks = 1 .. Len(l.blocks)
      /\ \A b \in DOMAIN l.blocks : l.blocks[b] \in ContentBlocks
  BY DEF LedgerIsSound, Ledgers
<1>2. m = [l EXCEPT !.blocks = blocks, !.active = active]
  BY <1>1 DEF CloseUnclosed, StopEach, Ledgers
<1> HIDE DEF blocks, active
<1>3. m.blocks = blocks /\ m.active = active /\ m.tools = l.tools
  <2>1. PICK x, y, z, w : l = [blocks |-> x, active |-> y, tools |-> z, over |-> w]
    BY <1>1 DEF Ledgers
  <2> QED
    BY <1>2, <2>1
<1>4. ASSUME NEW b \in DOMAIN l.blocks
      PROVE  /\ blocks[b].state = "closed" /\ blocks[b].kind = l.blocks[b].kind
             /\ blocks[b].body = l.blocks[b].body
  <2>1. CASE l.blocks[b].state = "open"
    <3>1. blocks[b] = [l.blocks[b] EXCEPT !.state = "closed"]
      BY <1>1, <2>1 DEF blocks, Stop, ContentBlocks
    <3> QED
      BY <1>1, <3>1 DEF ContentBlocks
  <2>2. CASE l.blocks[b].state # "open"
    <3>1. l.blocks[b].state = "closed"
      BY <2>2 DEF LedgerIsSound, RestIsClosed, IsOpen
    <3> QED
      BY <2>2, <3>1 DEF blocks
  <2> QED
    BY <2>1, <2>2
<1>5. DOMAIN blocks = DOMAIN l.blocks /\ Len(blocks) = Len(l.blocks)
  <2>1. DOMAIN blocks = 1 .. Len(l.blocks)
    BY <1>1 DEF blocks
  <2> QED
    BY <1>1, <2>1
<1>6. LedgerGrows(l, m)
  BY <1>1, <1>3, <1>4, <1>5, BodiesAreCounted DEF LedgerGrows, Grows
<1>7. active \in 0 .. Len(l.blocks)
  BY <1>1 DEF active, LedgerIsSound, ActiveIsOpen
<1> QED
  BY <1>3, <1>4, <1>5, <1>6, <1>7 DEF AllClosed, SameCalls

\* Where the blocks of a ledger are.
Placed(l) ==
  /\ Len(l.blocks) \in Nat /\ DOMAIN l.blocks = 1 .. Len(l.blocks)
  /\ l.active \in 0 .. Len(l.blocks)
  /\ \A t \in Tools : l.tools[t].block \in 0 .. Len(l.blocks)

\* A call that was given anything has a block.
BuffersWait(l) == \A t \in Tools : l.tools[t].block = 0 => l.tools[t].buffer = 0

\* What was heard of a call before its name is kept until the call begins.
EarlyKept(l) ==
  \A t \in Tools : l.tools[t].block = 0 => l.tools[t].early = broken.tools[t].early

\* Every call is complete, but for those that began before their name in the stream that broke.
CallsGoOut(l) == \A b \in ToolBlocks(l) : Complete(l.blocks[b]) \/ BeganEarly(l, b)

CallsAreWhole(l) ==
  /\ recovered => \A b \in ToolBlocks(l) :
       JsonAnswer(l)[b].input # "empty" \/ BeganEarly(l, b)
  /\ \A t \in StartedTools(l) : KindOf[t] = "Task" => l.blocks[l.tools[t].block].body # "part"

StreamCounts ==
  /\ phase \in {"opening", "streaming", "recovering", "calling", "complete", "failed"}
  /\ committed \in BOOLEAN /\ finish \in BOOLEAN /\ recovered \in BOOLEAN
  /\ attempts \in 0 .. MaxAttempts /\ deltas \in 0 .. MaxDeltas

\* What is known of the ledger in each phase.
LedgerInPhase ==
  /\ phase = "opening" => ~committed /\ ledger = NewLedger
  /\ phase = "streaming" => Fed(ledger)
  /\ phase = "recovering" =>
       /\ LedgerIsSound(ledger) /\ HalvesAreHeld(ledger) /\ BuffersWait(ledger)
  /\ phase = "calling" => Fed(ledger) /\ CallsGoOut(ledger)
  /\ phase \in {"recovering", "calling"} =>
       EarlyKept(ledger) /\ LedgerIsSound(broken) /\ LedgerGrows(broken, ledger)
  /\ phase = "complete" => committed /\ AllClosed(ledger) /\ CallsAreWhole(ledger)
  /\ phase = "failed" /\ committed => AllClosed(ledger)

StreamInvariant ==
  /\ StreamCounts /\ Placed(ledger) /\ LedgerInPhase
  /\ recovered => phase = "complete"

LEMMA SoundIsPlaced == ASSUME NEW l, LedgerIsSound(l) PROVE Placed(l)
  BY DEF LedgerIsSound, Placed, Ledgers, ActiveIsOpen, ToolsAreOpen

LEMMA SameCallsArePlaced ==
  ASSUME NEW l, Placed(l), NEW m, SameCalls(l, m), Len(m.blocks) = Len(l.blocks),
         m.active \in 0 .. Len(m.blocks)
  PROVE  Placed(m)
  BY DEF Placed, SameCalls

LEMMA FedBuffersWait == ASSUME NEW l, Fed(l) PROVE BuffersWait(l)
  BY DEF Fed, BuffersAreUnsaid, BuffersWait

\* What goes out passes for whole.
LEMMA CompleteIsWhole ==
  ASSUME NEW l, LedgerIsSound(l), HalvesAreHeld(l), NEW m, SameCalls(l, m), CallsGoOut(l)
  PROVE  /\ \A b \in ToolBlocks(m) : JsonAnswer(m)[b].input # "empty" \/ BeganEarly(m, b)
         /\ \A t \in StartedTools(m) : KindOf[t] = "Task" => m.blocks[m.tools[t].block].body # "part"
<1>1. ToolBlocks(m) = ToolBlocks(l) /\ ToolBlocks(l) \subseteq DOMAIN l.blocks
  BY DEF ToolBlocks, SameCalls
<1>2. ASSUME NEW b \in ToolBlocks(m), ~BeganEarly(m, b)
      PROVE  JsonAnswer(m)[b].input # "empty"
  <2>1. ~BeganEarly(l, b)
    BY <1>2 DEF BeganEarly, SameCalls
  <2>2. Complete(m.blocks[b]) /\ m.blocks[b].body \in {"whole", "raw"} /\ b \in DOMAIN m.blocks
    BY <1>1, <2>1 DEF Complete, SameCalls, CallsGoOut
  <2> QED
    BY <2>2 DEF JsonAnswer
<1>3. ASSUME NEW t \in StartedTools(m), KindOf[t] = "Task"
      PROVE  m.blocks[m.tools[t].block].body # "part"
  <2>1. t \in Tools /\ l.tools[t].block # 0 /\ m.tools[t].block = l.tools[t].block
    BY DEF StartedTools, SameCalls
  <2>2. l.tools[t].block \in DOMAIN l.blocks
    BY <2>1 DEF LedgerIsSound, ToolsAreOpen, Ledgers
  <2>3. l.blocks[l.tools[t].block].body # "part"
    BY <1>3, <2>1 DEF HalvesAreHeld
  <2> QED
    BY <2>1, <2>2, <2>3 DEF SameCalls
<1> QED
  BY <1>2, <1>3

\* What was given is not taken back by this step.
ShownGrows ==
  /\ Len(Shown'.blocks) >= Len(Shown.blocks)
  /\ \A b \in DOMAIN Shown.blocks : Grows(Shown.blocks[b], Shown'.blocks[b])
  /\ Shown.over => Shown' = Shown

\* What nobody saw may change; what was shown grows.
LEMMA ShownMoves ==
  ASSUME ~committed => Len(Shown'.blocks) \in Nat,
         committed => LedgerGrows(Shown, Shown') /\ ~Shown.over
  PROVE  ShownGrows
<1>1. CASE committed
  BY <1>1 DEF ShownGrows, LedgerGrows
<1>2. CASE ~committed
  <2>1. Shown = NewLedger
    BY <1>2 DEF Shown
  <2>2. NewLedger.blocks = <<>> /\ ~NewLedger.over
    BY DEF NewLedger
  <2> HIDE DEF Shown
  <2>3. Len(Shown.blocks) = 0 /\ DOMAIN Shown.blocks = {} /\ ~Shown.over
    BY <2>1, <2>2
  <2> QED
    BY <1>2, <2>3 DEF ShownGrows
<1> QED
  BY <1>1, <1>2

LEMMA NewIsPlaced == Placed(NewLedger) /\ Len(NewLedger.blocks) \in Nat
  BY NewIsSound, SoundIsPlaced DEF Placed

\* A blank text when there is nothing to show.
LEMMA PadKeeps ==
  ASSUME NEW l, Fed(l)
  PROVE  Fed(Pad(l)) /\ LedgerGrows(l, Pad(l))
<1>1. l \in Ledgers /\ LedgerGrows(l, l)
  BY GrowsFromItself DEF Fed, LedgerIsSound
<1>2. Fed(Say(l, "text")) /\ LedgerGrows(l, Say(l, "text"))
  BY SayKeeps DEF Fed
<1> QED
  BY <1>1, <1>2 DEF Pad

\* What is closed at the end has grown from whatever was shown.
LEMMA GrowsToTheEnd ==
  ASSUME NEW s \in Ledgers, NEW l \in Ledgers, NEW c,
         LedgerGrows(s, l), LedgerGrows(l, c), SameCalls(l, c), Placed(c)
  PROVE  LedgerGrows(s, c)
<1>1. DOMAIN s.blocks \subseteq DOMAIN l.blocks /\ Len(c.blocks) >= Len(s.blocks)
  BY DEF LedgerGrows, Ledgers, Placed
<1>2. ASSUME NEW b \in DOMAIN s.blocks PROVE Grows(s.blocks[b], c.blocks[b])
  <2>1. Grows(s.blocks[b], l.blocks[b]) /\ Grows(l.blocks[b], c.blocks[b])
    BY <1>1 DEF LedgerGrows
  <2>2. s.blocks[b] \in ContentBlocks /\ l.blocks[b] \in ContentBlocks
    BY <1>1 DEF Ledgers
  <2>3. c.blocks[b].body = l.blocks[b].body
    BY <1>1 DEF SameCalls
  <2> QED
    BY <2>1, <2>2, <2>3, BodiesAreCounted DEF Grows
<1> QED
  BY <1>1, <1>2 DEF LedgerGrows

\* The failure reaches the consumer.
LEMMA GivingUpIsSound ==
  ASSUME NEW l, LedgerIsSound(l), NEW salvage \in BOOLEAN, StreamCounts, ~recovered,
         GiveUp(l, salvage), attempts' \in 0 .. MaxAttempts, UNCHANGED recovered,
         committed => LedgerGrows(Shown, l) /\ ~Shown.over /\ Shown \in Ledgers
  PROVE  StreamInvariant' /\ ShownGrows
<1> DEFINE c == CloseUnclosed(l)
<1>1. /\ AllClosed(c) /\ LedgerGrows(l, c) /\ Placed(c) /\ SameCalls(l, c)
  BY FailureCloses, SoundIsPlaced, SameCallsArePlaced
<1>2. /\ phase' = "failed" /\ committed' = (committed \/ salvage)
      /\ ledger' = IF committed' THEN c ELSE l
      /\ finish' = finish /\ deltas' = deltas
  BY DEF GiveUp
<1>3. Placed(l)
  BY SoundIsPlaced
<1> HIDE DEF c
<1>4. StreamCounts'
  BY <1>2 DEF StreamCounts
<1>5. Placed(ledger')
  BY <1>1, <1>2, <1>3
<1>6. LedgerInPhase'
  BY <1>1, <1>2 DEF LedgerInPhase
<1>7. StreamInvariant'
  BY <1>4, <1>5, <1>6 DEF StreamInvariant
<1>8. Shown' = IF committed' THEN c ELSE NewLedger
  BY <1>2 DEF Shown
<1>9. Len(Shown'.blocks) \in Nat
  BY <1>1, <1>8, NewIsPlaced DEF Placed
<1>10. committed => LedgerGrows(Shown, Shown')
  BY <1>1, <1>2, <1>8, GrowsToTheEnd DEF LedgerIsSound
<1>11. ShownGrows
  BY <1>9, <1>10, ShownMoves
<1> QED
  BY <1>7, <1>11

\* The answer is over.
LEMMA EndingIsSound ==
  ASSUME NEW l, LedgerIsSound(l), StreamCounts,
         ledger' = Finale(l), committed' = TRUE, phase' = "complete", finish' = finish,
         deltas' = deltas, attempts' \in 0 .. MaxAttempts, recovered' \in BOOLEAN,
         CallsAreWhole(ledger)',
         committed => LedgerGrows(Shown, l) /\ ~Shown.over /\ Shown \in Ledgers
  PROVE  StreamInvariant' /\ ShownGrows
<1> DEFINE c == Finale(l)
<1>1. /\ AllClosed(c) /\ LedgerGrows(l, c) /\ Placed(c) /\ SameCalls(l, c)
  <2>1. /\ AllClosed(c) /\ LedgerGrows(l, c) /\ SameCalls(l, c) /\ c.active = 0
        /\ Len(c.blocks) = Len(l.blocks)
    BY FinaleCloses
  <2>2. Placed(l)
    BY SoundIsPlaced
  <2>3. c.active \in 0 .. Len(c.blocks)
    BY <2>1, <2>2 DEF Placed
  <2> QED
    BY <2>1, <2>2, <2>3, SameCallsArePlaced
<1>2. ledger' = c
  OBVIOUS
<1>3. Placed(l)
  BY SoundIsPlaced
<1> HIDE DEF c
<1>4. StreamCounts'
  BY DEF StreamCounts
<1>5. Placed(ledger')
  BY <1>1, <1>2
<1>6. LedgerInPhase'
  BY <1>1, <1>2 DEF LedgerInPhase
<1>7. StreamInvariant'
  BY <1>4, <1>5, <1>6 DEF StreamInvariant
<1>8. Shown' = c
  BY <1>2 DEF Shown
<1>9. Len(Shown'.blocks) \in Nat
  BY <1>1, <1>8 DEF Placed
<1>10. committed => LedgerGrows(Shown, Shown')
  BY <1>1, <1>8, GrowsToTheEnd DEF LedgerIsSound
<1>11. ShownGrows
  BY <1>9, <1>10, ShownMoves
<1> QED
  BY <1>7, <1>11

\* An attempt is accepted upstream.
LEMMA OpeningKeeps ==
  ASSUME StreamInvariant, OpenStream
  PROVE  StreamInvariant' /\ ShownGrows
<1>1. ~committed /\ ledger = NewLedger /\ ~recovered /\ attempts \in 0 .. MaxAttempts
  BY DEF StreamInvariant, StreamCounts, LedgerInPhase, OpenStream
<1>2. phase' = "streaming" /\ ~committed' /\ ledger' = NewLedger
  BY <1>1 DEF OpenStream
<1>3. attempts' \in 0 .. MaxAttempts
  BY <1>1, ChatConstants DEF OpenStream, CanAttempt
<1>4. StreamCounts'
  BY <1>3 DEF StreamInvariant, StreamCounts, OpenStream
<1>5. Fed(ledger')
  BY <1>2, NewIsSound DEF Fed
<1>6. StreamInvariant'
  <2>1. LedgerInPhase'
    BY <1>2, <1>5 DEF LedgerInPhase
  <2>2. Placed(ledger')
    BY <1>2, NewIsPlaced
  <2> QED
    BY <1>1, <1>4, <2>1, <2>2 DEF StreamInvariant, OpenStream
<1>7. Shown' = NewLedger
  BY <1>2 DEF Shown
<1>8. ShownGrows
  BY <1>1, <1>7, NewIsPlaced, ShownMoves
<1> QED
  BY <1>6, <1>8

\* A delta of the upstream stream.
LEMMA ReceivingKeeps ==
  ASSUME StreamInvariant, NEW d \in Deltas, NEW t \in Tools, Receive(d, t)
  PROVE  StreamInvariant' /\ ShownGrows
<1>1. /\ phase = "streaming" /\ phase' = "streaming" /\ Fed(ledger) /\ ~recovered
      /\ broken' = broken /\ attempts' = attempts /\ recovered' = recovered
      /\ committed \in BOOLEAN /\ finish \in BOOLEAN
  BY DEF StreamInvariant, StreamCounts, LedgerInPhase, Receive
<1>2. /\ Fed(ledger') /\ LedgerGrows(ledger, ledger') /\ committed' \in {committed, TRUE}
      /\ finish' \in BOOLEAN
  <2>1. LedgerIsSound(ledger) /\ HalvesAreHeld(ledger) /\ BuffersAreUnsaid(ledger) /\ ledger \in Ledgers
    BY <1>1 DEF Fed, LedgerIsSound
  <2>2. Heard(d, t)
    BY DEF Receive
  <2>3. CASE finish' = TRUE /\ UNCHANGED <<ledger, committed>>
    <3>1. ledger' = ledger /\ committed' = committed /\ finish' = TRUE
      BY <2>3
    <3> QED
      BY <1>1, <2>1, <3>1, GrowsFromItself
  <2>4. CASE Hold(Say(ledger, "thinking")) /\ UNCHANGED finish
    <3>1. ledger' = Say(ledger, "thinking") /\ committed' \in {committed, TRUE} /\ finish' = finish
      BY <2>4 DEF Hold
    <3>2. Fed(Say(ledger, "thinking")) /\ LedgerGrows(ledger, Say(ledger, "thinking"))
      BY <2>1, SayKeeps DEF Fed
    <3> QED
      BY <1>1, <3>1, <3>2
  <2>5. CASE Hold(Say(ledger, "text")) /\ UNCHANGED finish
    <3>1. ledger' = Say(ledger, "text") /\ committed' \in {committed, TRUE} /\ finish' = finish
      BY <2>5 DEF Hold
    <3>2. Fed(Say(ledger, "text")) /\ LedgerGrows(ledger, Say(ledger, "text"))
      BY <2>1, SayKeeps DEF Fed
    <3> QED
      BY <1>1, <3>1, <3>2
  <2>6. CASE Hold(HeuristicTool(ledger)) /\ UNCHANGED finish
    BY <1>1, <2>6, HeuristicKeeps DEF Hold
  <2>7. CASE ledger.tools[t].block = 0 /\ Hold(StartTool(ledger, t, KindOf[t], 0)) /\ UNCHANGED finish
    <3>1. ledger' = StartTool(ledger, t, KindOf[t], 0) /\ committed' \in {committed, TRUE} /\ finish' = finish
      BY <2>7 DEF Hold
    <3>2. Fed(StartTool(ledger, t, KindOf[t], 0)) /\ LedgerGrows(ledger, StartTool(ledger, t, KindOf[t], 0))
      BY <1>1, <2>7, StartKeeps
    <3> QED
      BY <1>1, <3>1, <3>2
  <2>8. CASE /\ \/ ledger.tools[t] = NoTool
                \/ Fragments(ledger.blocks[ledger.tools[t].block].body) + ledger.tools[t].buffer < 2
             /\ Hold(ToolArgs(ledger, t)) /\ UNCHANGED finish
    <3>1. ledger.tools[t].block # 0 =>
            Fragments(ledger.blocks[ledger.tools[t].block].body) + ledger.tools[t].buffer < 2
      BY <2>8 DEF NoTool
    <3>2. ledger' = ToolArgs(ledger, t) /\ committed' \in {committed, TRUE} /\ finish' = finish
      BY <2>8 DEF Hold
    <3>3. Fed(ToolArgs(ledger, t)) /\ LedgerGrows(ledger, ToolArgs(ledger, t))
      BY <1>1, <3>1, ArgsKeep
    <3> QED
      BY <1>1, <3>2, <3>3
  <2> QED
    BY <2>2, <2>3, <2>4, <2>5, <2>6, <2>7, <2>8 DEF Heard
<1>3. StreamCounts'
  <2>1. deltas' \in 0 .. MaxDeltas
    BY ChatConstants DEF StreamInvariant, StreamCounts, Receive
  <2>2. attempts' \in 0 .. MaxAttempts
    BY <1>1 DEF StreamInvariant, StreamCounts
  <2>3. committed' \in BOOLEAN
    BY <1>1, <1>2
  <2>4. recovered' \in BOOLEAN
    BY <1>1 DEF StreamInvariant, StreamCounts
  <2> QED
    BY <1>1, <1>2, <2>1, <2>2, <2>3, <2>4 DEF StreamCounts
<1>4. StreamInvariant'
  <2>1. LedgerInPhase'
    BY <1>1, <1>2 DEF LedgerInPhase
  <2>2. Placed(ledger')
    BY <1>2, SoundIsPlaced DEF Fed
  <2> QED
    BY <1>1, <1>3, <2>1, <2>2 DEF StreamInvariant
<1>5. /\ committed => Shown = ledger /\ Shown' = ledger'
      /\ ~committed => Shown' \in {NewLedger, ledger'}
  <2>1. Shown' = IF ~committed' THEN NewLedger ELSE ledger'
    BY <1>1 DEF Shown
  <2>2. committed => committed' = TRUE
    BY <1>2
  <2>3. committed => Shown = ledger
    BY <1>1 DEF Shown
  <2> QED
    BY <2>1, <2>2, <2>3
<1>6. Len(ledger'.blocks) \in Nat /\ ~ledger.over
  BY <1>1, <1>4 DEF StreamInvariant, Placed, Fed, LedgerIsSound
<1>7. ShownGrows
  BY <1>2, <1>5, <1>6, NewIsPlaced, ShownMoves
<1> QED
  BY <1>4, <1>7

\* The upstream stream ends as it should.
LEMMA EndKeeps ==
  ASSUME StreamInvariant, StreamEnds
  PROVE  StreamInvariant' /\ ShownGrows
<1> DEFINE p == Pad(ledger)
           f == FlushTools(p)
<1>1. /\ phase = "streaming" /\ Fed(ledger) /\ ~recovered /\ StreamCounts
      /\ attempts \in 0 .. MaxAttempts /\ recovered' = FALSE
  BY DEF StreamInvariant, StreamCounts, LedgerInPhase, StreamEnds
<1>2. Fed(p) /\ LedgerGrows(ledger, p)
  BY <1>1, PadKeeps
<1> HIDE DEF p
<1>3. /\ LedgerIsSound(f) /\ LedgerGrows(p, f)
      /\ \A t \in Tools : f.tools[t].block # 0 /\ KindOf[t] = "Task" =>
           f.blocks[f.tools[t].block].body # "part"
  BY <1>2, FlushKeeps
<1> HIDE DEF f
<1>4. /\ ledger' = Finale(f) /\ committed' = TRUE /\ phase' = "complete" /\ finish' = finish
      /\ deltas' = deltas /\ attempts' = attempts /\ recovered' = recovered
  BY DEF StreamEnds, f, p
<1>5. ledger \in Ledgers /\ p \in Ledgers /\ f \in Ledgers /\ ~ledger.over
  BY <1>1, <1>2, <1>3 DEF Fed, LedgerIsSound
<1>6. LedgerGrows(ledger, f)
  BY <1>2, <1>3, <1>5, GrowsOn
<1>7. CallsAreWhole(ledger)'
  <2>1. SameCalls(f, ledger')
    BY <1>3, <1>4, FinaleCloses
  <2>2. ASSUME NEW t \in Tools, ledger'.tools[t].block # 0, KindOf[t] = "Task"
        PROVE  ledger'.blocks[ledger'.tools[t].block].body # "part"
    <3>1. f.tools[t].block # 0 /\ ledger'.tools[t].block = f.tools[t].block
      BY <2>1, <2>2 DEF SameCalls
    <3>2. f.tools[t].block \in DOMAIN f.blocks
      BY <1>3, <3>1 DEF LedgerIsSound, ToolsAreOpen, Ledgers
    <3>3. f.blocks[f.tools[t].block].body # "part"
      BY <1>3, <2>2, <3>1
    <3> QED
      BY <2>1, <3>1, <3>2, <3>3 DEF SameCalls
  <2> QED
    BY <1>1, <2>2 DEF CallsAreWhole, StartedTools
<1>8. committed => Shown = ledger
  BY <1>1 DEF Shown
<1> QED
  BY <1>1, <1>3, <1>4, <1>5, <1>6, <1>7, <1>8, EndingIsSound

\* The stream breaks: a retry nobody sees, a recovery, or a failure.
LEMMA BreakingKeeps ==
  ASSUME StreamInvariant, NEW retryable \in BOOLEAN, Break(retryable),
         phase \in {"opening", "streaming"}
  PROVE  StreamInvariant' /\ ShownGrows
<1>1. /\ StreamCounts /\ ~recovered /\ attempts' = attempts /\ recovered' = recovered
      /\ attempts \in 0 .. MaxAttempts /\ committed \in BOOLEAN
  BY DEF StreamInvariant, StreamCounts, Break
<1>2. Fed(ledger) /\ (phase = "opening" => ~committed)
  BY NewIsSound DEF StreamInvariant, LedgerInPhase, Fed
<1>3. LedgerIsSound(ledger) /\ HalvesAreHeld(ledger) /\ ledger \in Ledgers /\ ~ledger.over
  BY <1>2 DEF Fed, LedgerIsSound
<1>4. committed => Shown = ledger
  BY <1>2 DEF Shown
<1>5. LedgerGrows(ledger, ledger)
  BY <1>3, GrowsFromItself
<1>6. CASE MayRetryEarly(retryable)
  <2>1. phase' = "opening" /\ ledger' = NewLedger /\ finish' = FALSE /\ deltas' = 0
        /\ committed' = committed /\ ~committed
    BY <1>6 DEF Break, RetryEarly, MayRetryEarly
  <2>2. StreamCounts'
    <3>1. deltas' \in 0 .. MaxDeltas /\ attempts' \in 0 .. MaxAttempts
      BY <1>1, <2>1, ChatConstants
    <3>2. finish' \in BOOLEAN
      BY <2>1
    <3>3. recovered' \in BOOLEAN /\ committed' \in BOOLEAN
      BY <1>1, <2>1 DEF StreamCounts
    <3> QED
      BY <2>1, <3>1, <3>2, <3>3 DEF StreamCounts
  <2>3. LedgerInPhase'
    BY <2>1 DEF LedgerInPhase
  <2>4. StreamInvariant'
    BY <1>1, <2>1, <2>2, <2>3, NewIsPlaced DEF StreamInvariant
  <2>5. Shown' = NewLedger
    BY <2>1 DEF Shown
  <2> QED
    BY <2>1, <2>4, <2>5, NewIsPlaced, ShownMoves
<1>7. CASE ~MayRetryEarly(retryable) /\ MayRecover(retryable)
  <2>1. /\ phase' = "recovering" /\ broken' = ledger /\ ledger' = ledger
        /\ committed' = committed /\ finish' = finish /\ deltas' = deltas
    BY <1>7 DEF Break
  <2>2. StreamCounts'
    BY <1>1, <2>1 DEF StreamCounts
  <2>3. LedgerInPhase'
    BY <1>2, <1>3, <1>5, <2>1, FedBuffersWait DEF LedgerInPhase, EarlyKept
  <2>4. StreamInvariant'
    BY <1>1, <2>1, <2>2, <2>3 DEF StreamInvariant
  <2>5. Shown' = IF committed THEN ledger ELSE NewLedger
    BY <2>1 DEF Shown
  <2> QED
    BY <1>3, <1>4, <1>5, <2>4, <2>5, NewIsPlaced, ShownMoves
<1>8. CASE ~MayRetryEarly(retryable) /\ ~MayRecover(retryable)
  <2>1. GiveUp(ledger, Salvageable)
    BY <1>8 DEF Break
  <2>2. Salvageable \in BOOLEAN
    BY DEF Salvageable, HasOutput, AllToolsComplete
  <2> QED
    BY <1>1, <1>3, <1>4, <1>5, <2>1, <2>2, GivingUpIsSound
<1> QED
  BY <1>6, <1>7, <1>8

\* What a recovery starts from.
LEMMA InRecovery ==
  ASSUME StreamInvariant, phase \in {"recovering", "calling"}
  PROVE  /\ LedgerIsSound(ledger) /\ HalvesAreHeld(ledger) /\ BuffersWait(ledger)
         /\ EarlyKept(ledger) /\ LedgerIsSound(broken) /\ LedgerGrows(broken, ledger)
         /\ StreamCounts /\ ~recovered /\ attempts \in 0 .. MaxAttempts
         /\ ledger \in Ledgers /\ broken \in Ledgers
         /\ committed => Shown = broken
         /\ committed => ~Shown.over
<1>1. /\ LedgerIsSound(ledger) /\ HalvesAreHeld(ledger) /\ BuffersWait(ledger)
      /\ EarlyKept(ledger) /\ LedgerIsSound(broken) /\ LedgerGrows(broken, ledger)
      /\ StreamCounts /\ ~recovered
  BY FedBuffersWait DEF StreamInvariant, LedgerInPhase, Fed
<1>2. committed => Shown = broken
  BY DEF Shown
<1> QED
  BY <1>1, <1>2 DEF StreamCounts, LedgerIsSound

\* The recovery goes on, or is complete, and nobody saw what was repaired.
LEMMA StillRecovering ==
  ASSUME StreamInvariant, phase \in {"recovering", "calling"}, phase' \in {"recovering", "calling"},
         LedgerIsSound(ledger'), HalvesAreHeld(ledger'), BuffersWait(ledger'), EarlyKept(ledger'),
         phase' = "calling" => Fed(ledger') /\ CallsGoOut(ledger'),
         LedgerGrows(ledger, ledger'), attempts' \in 0 .. MaxAttempts,
         UNCHANGED <<broken, committed, finish, deltas, recovered>>
  PROVE  StreamInvariant' /\ ShownGrows
<1>1. /\ LedgerIsSound(broken) /\ LedgerGrows(broken, ledger) /\ StreamCounts /\ ~recovered
      /\ ledger \in Ledgers /\ broken \in Ledgers
      /\ committed => ~Shown.over
  BY InRecovery
<1>2. ledger' \in Ledgers
  BY DEF LedgerIsSound
<1>3. LedgerGrows(broken, ledger') /\ LedgerGrows(broken, broken)
  BY <1>1, <1>2, GrowsOn, GrowsFromItself
<1>4. /\ broken' = broken /\ committed' = committed /\ finish' = finish
      /\ deltas' = deltas /\ recovered' = recovered
  OBVIOUS
<1>5. StreamCounts'
  BY <1>1, <1>4 DEF StreamCounts
<1>6. LedgerInPhase'
  <2>1. EarlyKept(ledger)' /\ (phase' = "calling" => CallsGoOut(ledger)')
    BY <1>4 DEF EarlyKept, CallsGoOut, BeganEarly
  <2> QED
    BY <1>1, <1>3, <1>4, <2>1 DEF LedgerInPhase
<1>7. StreamInvariant'
  BY <1>1, <1>4, <1>5, <1>6, SoundIsPlaced DEF StreamInvariant
<1>8. Shown = (IF committed THEN broken ELSE NewLedger) /\ Shown' = (IF committed THEN broken ELSE NewLedger)
  BY <1>4 DEF Shown
<1>9. ~committed => Len(Shown'.blocks) \in Nat
  BY <1>8, NewIsPlaced
<1>10. committed => LedgerGrows(Shown, Shown') /\ ~Shown.over
  BY <1>1, <1>3, <1>8
<1>11. ShownGrows
  BY <1>9, <1>10, ShownMoves
<1> QED
  BY <1>7, <1>11

\* The recovery is complete, with whole calls.
LEMMA RecoveredIsSound ==
  ASSUME StreamInvariant, phase \in {"recovering", "calling"},
         NEW l, LedgerIsSound(l), HalvesAreHeld(l), LedgerGrows(ledger, l), CallsGoOut(l),
         Recovered(l), attempts' \in 0 .. MaxAttempts
  PROVE  StreamInvariant' /\ ShownGrows
<1>1. /\ LedgerIsSound(broken) /\ LedgerGrows(broken, ledger) /\ StreamCounts /\ ~recovered
      /\ ledger \in Ledgers /\ broken \in Ledgers
      /\ committed => Shown = broken
      /\ committed => ~Shown.over
  BY InRecovery
<1>2. l \in Ledgers
  BY DEF LedgerIsSound
<1>3. LedgerGrows(broken, l)
  BY <1>1, <1>2, GrowsOn
<1>4. /\ ledger' = Finale(l) /\ committed' = TRUE /\ phase' = "complete" /\ finish' = finish
      /\ deltas' = deltas /\ recovered' = TRUE /\ broken' = broken
  BY DEF Recovered
<1>5. SameCalls(l, ledger')
  BY <1>4, FinaleCloses
<1>6. CallsAreWhole(ledger)'
  <2>1. /\ \A b \in ToolBlocks(ledger') :
             JsonAnswer(ledger')[b].input # "empty" \/ BeganEarly(ledger', b)
        /\ \A t \in StartedTools(ledger') :
             KindOf[t] = "Task" => ledger'.blocks[ledger'.tools[t].block].body # "part"
    BY <1>5, CompleteIsWhole
  <2> QED
    BY <1>4, <2>1 DEF CallsAreWhole, BeganEarly
<1> QED
  BY <1>1, <1>3, <1>4, <1>6, EndingIsSound

LEMMA SalvageKeeps ==
  ASSUME StreamInvariant, SalvageTools
  PROVE  StreamInvariant' /\ ShownGrows
<1>1. /\ phase = "recovering" /\ AllToolsComplete(ledger) /\ Recovered(ledger) /\ attempts' = attempts
  BY DEF SalvageTools
<1>2. /\ LedgerIsSound(ledger) /\ HalvesAreHeld(ledger) /\ ledger \in Ledgers
      /\ attempts \in 0 .. MaxAttempts
  BY <1>1, InRecovery
<1>3. LedgerGrows(ledger, ledger)
  BY <1>2, GrowsFromItself
<1>4. CallsGoOut(ledger)
  BY <1>1 DEF AllToolsComplete, CallsGoOut
<1> QED
  BY <1>1, <1>2, <1>3, <1>4, RecoveredIsSound

\* A call's arguments are repaired.
LEMMA RepairingKeeps ==
  ASSUME StreamInvariant, NEW t \in Tools, RepairTool(t)
  PROVE  StreamInvariant' /\ ShownGrows
<1> DEFINE m == Repaired(t)
<1>1. /\ phase = "recovering" /\ t \in Incomplete(ledger) /\ attempts < MaxAttempts
      /\ attempts' = attempts + 1
  BY DEF RepairTool, CanAttempt
<1>2. /\ LedgerIsSound(ledger) /\ HalvesAreHeld(ledger) /\ BuffersWait(ledger)
      /\ EarlyKept(ledger) /\ attempts \in 0 .. MaxAttempts
  BY <1>1, InRecovery
<1>3. /\ LedgerIsSound(m) /\ HalvesAreHeld(m) /\ LedgerGrows(ledger, m)
      /\ m.tools = ledger.tools
  BY <1>1, <1>2, RepairKeeps
<1>4. attempts' \in 0 .. MaxAttempts
  BY <1>1, <1>2, ChatConstants
<1> HIDE DEF m
<1>5. CASE AllToolsComplete(m)
  <2>1. Recovered(m)
    BY <1>5 DEF RepairTool, m
  <2>2. CallsGoOut(m)
    BY <1>5 DEF AllToolsComplete, CallsGoOut
  <2> QED
    BY <1>1, <1>3, <1>4, <2>1, <2>2, RecoveredIsSound
<1>6. CASE ~AllToolsComplete(m)
  <2>1. /\ ledger' = m /\ UNCHANGED <<phase, broken, committed, finish, deltas, recovered>>
    BY <1>6 DEF RepairTool, m
  <2>2. BuffersWait(m) /\ EarlyKept(m)
    BY <1>2, <1>3 DEF BuffersWait, EarlyKept
  <2>3. /\ LedgerIsSound(ledger') /\ HalvesAreHeld(ledger') /\ BuffersWait(ledger')
        /\ EarlyKept(ledger')
        /\ LedgerGrows(ledger, ledger') /\ phase' = "recovering"
    BY <1>1, <1>3, <2>1, <2>2
  <2> QED
    BY <1>1, <1>4, <2>1, <2>3, StillRecovering
<1> QED
  BY <1>5, <1>6

\* The answer is continued: its thoughts, its text, and then perhaps calls.
LEMMA ContinuingKeeps ==
  ASSUME StreamInvariant, Continue
  PROVE  StreamInvariant' /\ ShownGrows
<1>1. PICK thinks \in BOOLEAN, talks \in BOOLEAN :
        LET thought == IF thinks THEN Say(ledger, "thinking") ELSE ledger
            said == IF talks THEN Say(thought, "text") ELSE thought
        IN  \/ Recovered(said)
            \/ /\ ledger' = said /\ phase' = "calling"
               /\ UNCHANGED <<broken, committed, finish, deltas, recovered>>
  BY DEF Continue
<1> DEFINE thought == IF thinks THEN Say(ledger, "thinking") ELSE ledger
           said == IF talks THEN Say(thought, "text") ELSE thought
<1>2. /\ phase = "recovering" /\ ToolBlocks(ledger) = {} /\ attempts < MaxAttempts
      /\ attempts' = attempts + 1
  BY DEF Continue, CanAttempt
<1>3. /\ LedgerIsSound(ledger) /\ HalvesAreHeld(ledger) /\ BuffersWait(ledger)
      /\ EarlyKept(ledger) /\ attempts \in 0 .. MaxAttempts /\ ledger \in Ledgers
  BY <1>2, InRecovery
<1>4. attempts' \in 0 .. MaxAttempts
  BY <1>2, <1>3, ChatConstants
<1>5. Fed(ledger)
  <2>1. \A u \in Tools : ledger.tools[u].block = 0
    BY <1>2, <1>3 DEF ToolBlocks, LedgerIsSound, ToolsAreOpen, Ledgers
  <2> QED
    BY <1>3, <2>1 DEF Fed, BuffersAreUnsaid, BuffersWait
<1>6. /\ Fed(thought) /\ LedgerGrows(ledger, thought) /\ ToolBlocks(thought) = {}
      /\ thought.tools = ledger.tools
  <2>1. CASE thinks
    BY <1>2, <1>5, <2>1, SayKeeps DEF Fed
  <2>2. CASE ~thinks
    BY <1>2, <1>3, <1>5, <2>2, GrowsFromItself
  <2> QED
    BY <2>1, <2>2
<1> HIDE DEF thought
<1>7. /\ Fed(said) /\ LedgerGrows(thought, said) /\ ToolBlocks(said) = {}
      /\ said.tools = ledger.tools
  <2>1. thought \in Ledgers
    BY <1>6 DEF Fed, LedgerIsSound
  <2>2. CASE talks
    BY <1>6, <2>2, SayKeeps DEF Fed
  <2>3. CASE ~talks
    BY <1>6, <2>1, <2>3, GrowsFromItself
  <2> QED
    BY <2>2, <2>3
<1>8. \/ Recovered(said)
      \/ /\ ledger' = said /\ phase' = "calling"
         /\ UNCHANGED <<broken, committed, finish, deltas, recovered>>
  BY <1>1 DEF thought
<1> HIDE DEF said
<1>9. LedgerGrows(ledger, said) /\ CallsGoOut(said) /\ EarlyKept(said)
  <2>1. thought \in Ledgers /\ said \in Ledgers
    BY <1>6, <1>7 DEF Fed, LedgerIsSound
  <2> QED
    BY <1>3, <1>6, <1>7, <2>1, GrowsOn DEF CallsGoOut, EarlyKept
<1>10. LedgerIsSound(said) /\ HalvesAreHeld(said) /\ BuffersWait(said)
  BY <1>7, FedBuffersWait DEF Fed
<1>11. CASE Recovered(said)
  BY <1>2, <1>4, <1>9, <1>10, <1>11, RecoveredIsSound
<1>12. CASE /\ ledger' = said /\ phase' = "calling"
            /\ UNCHANGED <<broken, committed, finish, deltas, recovered>>
  <2>1. /\ LedgerIsSound(ledger') /\ HalvesAreHeld(ledger') /\ BuffersWait(ledger')
        /\ EarlyKept(ledger') /\ Fed(ledger') /\ CallsGoOut(ledger') /\ LedgerGrows(ledger, ledger')
    BY <1>7, <1>9, <1>10, <1>12
  <2> QED
    BY <1>2, <1>4, <1>12, <2>1, StillRecovering
<1> QED
  BY <1>8, <1>11, <1>12

\* A call of the continuation begins whole, unless it began early.
LEMMA ContinuedCallKeeps ==
  ASSUME StreamInvariant, NEW t \in Tools, ContinueCall(t)
  PROVE  StreamInvariant' /\ ShownGrows
<1> DEFINE m == StartTool(ledger, t, CallKind(t), 2)
           new == Len(ledger.blocks) + 1
<1>1. /\ phase = "calling" /\ attempts' = attempts /\ \A u \in StartedTools(ledger) : u < t
      /\ \/ Recovered(m)
         \/ ledger' = m /\ UNCHANGED <<phase, broken, committed, finish, deltas, recovered>>
  BY DEF ContinueCall
<1>2. /\ Fed(ledger) /\ CallsGoOut(ledger) /\ EarlyKept(ledger) /\ LedgerIsSound(ledger)
      /\ attempts \in 0 .. MaxAttempts /\ ledger \in Ledgers
  BY <1>1, InRecovery DEF StreamInvariant, LedgerInPhase
<1>3. ledger.tools[t].block = 0
  <2>1. t \in Nat /\ ~(t < t)
    BY ChatConstants
  <2> QED
    BY <1>1, <2>1 DEF StartedTools
<1>4. CallKind(t) = KindOf[t] \/ CallKind(t) = "plain"
  BY DEF CallKind
<1> HIDE DEF m
<1>5. /\ Fed(m) /\ LedgerGrows(ledger, m) /\ DOMAIN m.blocks = 1 .. new
      /\ \A b \in DOMAIN ledger.blocks : m.blocks[b].kind = ledger.blocks[b].kind
      /\ \A b \in DOMAIN ledger.blocks : m.blocks[b].body = ledger.blocks[b].body
      /\ \A u \in Tools \ {t} : m.tools[u] = ledger.tools[u]
      /\ m.tools[t].block = new
      /\ ledger.tools[t].early = 0 => Complete(m.blocks[new])
  <2> DEFINE kind == CallKind(t)
             n == 2
  <2>1. kind = KindOf[t] \/ (kind = "plain" /\ n >= 2)
    BY <1>4
  <2>2. n \in Nat /\ n = 2 /\ m = StartTool(ledger, t, kind, n)
    BY DEF m
  <2> HIDE DEF kind, n, new
  <2> QED
    BY <1>2, <1>3, <2>1, <2>2, StartKeeps DEF new
<1>6. DOMAIN ledger.blocks = 1 .. Len(ledger.blocks) /\ Len(ledger.blocks) \in Nat
  BY <1>2 DEF Ledgers
<1>7. EarlyKept(m)
  BY <1>2, <1>5, <1>6 DEF EarlyKept
<1>8. CallsGoOut(m)
  <2>1. ASSUME NEW b \in ToolBlocks(m)
        PROVE  Complete(m.blocks[b]) \/ BeganEarly(m, b)
    <3>1. CASE b = new
      <4>1. ledger.tools[t].early # 0 => BeganEarly(m, b)
        BY <1>2, <1>3, <1>5, <3>1 DEF BeganEarly, EarlyKept
      <4> QED
        BY <1>5, <3>1, <4>1
    <3>2. CASE b # new
      <4>1. b \in DOMAIN ledger.blocks /\ b # 0
        BY <1>5, <1>6, <3>2 DEF ToolBlocks
      <4>2. b \in ToolBlocks(ledger)
        BY <1>5, <2>1, <4>1 DEF ToolBlocks
      <4>3. Complete(ledger.blocks[b]) => Complete(m.blocks[b])
        BY <1>5, <4>1 DEF Complete
      <4>4. BeganEarly(ledger, b) => BeganEarly(m, b)
        BY <1>3, <1>5, <4>1 DEF BeganEarly
      <4> QED
        BY <1>2, <4>2, <4>3, <4>4 DEF CallsGoOut
    <3> QED
      BY <3>1, <3>2
  <2> QED
    BY <2>1 DEF CallsGoOut
<1>9. LedgerIsSound(m) /\ HalvesAreHeld(m) /\ BuffersWait(m)
  BY <1>5, FedBuffersWait DEF Fed
<1>10. CASE Recovered(m)
  BY <1>1, <1>2, <1>5, <1>8, <1>9, <1>10, RecoveredIsSound
<1>11. CASE ledger' = m /\ UNCHANGED <<phase, broken, committed, finish, deltas, recovered>>
  <2>1. /\ LedgerIsSound(ledger') /\ HalvesAreHeld(ledger') /\ BuffersWait(ledger')
        /\ EarlyKept(ledger') /\ Fed(ledger') /\ CallsGoOut(ledger') /\ LedgerGrows(ledger, ledger')
        /\ phase' = "calling"
    BY <1>1, <1>5, <1>7, <1>8, <1>9, <1>11
  <2> QED
    BY <1>1, <1>2, <1>11, <2>1, StillRecovering
<1> QED
  BY <1>1, <1>10, <1>11

LEMMA RetryingKeeps ==
  ASSUME StreamInvariant, RecoveryRetries
  PROVE  StreamInvariant' /\ ShownGrows
<1>1. /\ phase = "recovering" /\ attempts + 1 < MaxAttempts /\ attempts' = attempts + 1
      /\ UNCHANGED <<phase, ledger, broken, committed, finish, deltas, recovered>>
  BY DEF RecoveryRetries
<1>2. /\ LedgerIsSound(ledger) /\ HalvesAreHeld(ledger) /\ BuffersWait(ledger)
      /\ EarlyKept(ledger) /\ attempts \in 0 .. MaxAttempts /\ ledger \in Ledgers
  BY <1>1, InRecovery
<1>3. attempts' \in 0 .. MaxAttempts /\ LedgerGrows(ledger, ledger')
  BY <1>1, <1>2, ChatConstants, GrowsFromItself
<1>4. /\ LedgerIsSound(ledger') /\ HalvesAreHeld(ledger') /\ BuffersWait(ledger')
      /\ EarlyKept(ledger') /\ phase' = "recovering"
  BY <1>1, <1>2
<1> QED
  BY <1>1, <1>3, <1>4, StillRecovering

\* The recovery fails, and the first failure is reported on what was shown.
LEMMA FailingKeeps ==
  ASSUME StreamInvariant, RecoveryFails
  PROVE  StreamInvariant' /\ ShownGrows
<1>1. /\ phase = "recovering" /\ GiveUp(broken, FALSE) /\ recovered' = recovered
      /\ attempts' \in {attempts, IF CanAttempt THEN attempts + 1 ELSE attempts}
  BY DEF RecoveryFails
<1>2. /\ LedgerIsSound(broken) /\ StreamCounts /\ ~recovered /\ broken \in Ledgers
      /\ attempts \in 0 .. MaxAttempts
      /\ committed => Shown = broken
      /\ committed => ~Shown.over
  BY <1>1, InRecovery
<1>3. attempts' \in 0 .. MaxAttempts
  BY <1>1, <1>2, ChatConstants DEF CanAttempt
<1>4. LedgerGrows(broken, broken)
  BY <1>2, GrowsFromItself
<1> QED
  BY <1>1, <1>2, <1>3, <1>4, GivingUpIsSound

\* At first nothing was said.
LEMMA StreamStarts == ChatInit => StreamInvariant
<1> SUFFICES ASSUME ChatInit PROVE StreamInvariant
  OBVIOUS
<1>1. StreamCounts
  <2>1. attempts \in 0 .. MaxAttempts /\ deltas \in 0 .. MaxDeltas
    BY ChatConstants DEF ChatInit
  <2> QED
    BY <2>1 DEF ChatInit, StreamCounts
<1>2. Placed(ledger) /\ LedgerInPhase /\ ~recovered
  BY NewIsPlaced DEF ChatInit, LedgerInPhase
<1> QED
  BY <1>1, <1>2 DEF StreamInvariant

\* No step of a stream breaks the invariant or takes back what was shown.
LEMMA StreamStep == StreamInvariant /\ ChatStep => StreamInvariant' /\ ShownGrows
<1> SUFFICES ASSUME StreamInvariant, ChatStep PROVE StreamInvariant' /\ ShownGrows
  OBVIOUS
<1>1. CASE OpenStream
  BY <1>1, OpeningKeeps
<1>2. ASSUME NEW d \in Deltas, NEW t \in Tools, Receive(d, t)
      PROVE  StreamInvariant' /\ ShownGrows
  BY <1>2, ReceivingKeeps
<1>3. CASE StreamEnds
  BY <1>3, EndKeeps
<1>4. CASE StreamBreaks
  <2>1. PICK retryable \in BOOLEAN : Break(retryable) /\ phase = "streaming"
    BY <1>4 DEF StreamBreaks
  <2> QED
    BY <2>1, BreakingKeeps
<1>5. CASE StreamTruncated
  <2>1. phase = "streaming" /\ Break(TRUE)
    BY <1>5 DEF StreamTruncated
  <2> QED
    BY <2>1, BreakingKeeps
<1>6. CASE OpeningFails
  <2>1. phase = "opening" /\ Break(FALSE)
    BY <1>6 DEF OpeningFails
  <2> QED
    BY <2>1, BreakingKeeps
<1>7. CASE SalvageTools
  BY <1>7, SalvageKeeps
<1>8. CASE RecoveryRetries
  BY <1>8, RetryingKeeps
<1>9. CASE RecoveryFails
  BY <1>9, FailingKeeps
<1>10. ASSUME NEW t \in Tools, RepairTool(t)
       PROVE  StreamInvariant' /\ ShownGrows
  BY <1>10, RepairingKeeps
<1>11. ASSUME NEW t \in Tools, ContinueCall(t)
       PROVE  StreamInvariant' /\ ShownGrows
  BY <1>11, ContinuedCallKeeps
<1>12. CASE Continue
  BY <1>12, ContinuingKeeps
<1> QED
  BY <1>1, <1>2, <1>3, <1>4, <1>5, <1>6, <1>7, <1>8, <1>9, <1>10, <1>11, <1>12 DEF ChatStep

LEMMA StreamStutter ==
  StreamInvariant /\ UNCHANGED chatVars => StreamInvariant'
<1> SUFFICES ASSUME StreamInvariant, UNCHANGED chatVars PROVE StreamInvariant'
  OBVIOUS
<1>1. /\ phase' = phase /\ ledger' = ledger /\ broken' = broken /\ committed' = committed
      /\ finish' = finish /\ attempts' = attempts /\ deltas' = deltas /\ recovered' = recovered
  BY DEF chatVars
<1>2. StreamCounts'
  BY <1>1 DEF StreamInvariant, StreamCounts
<1>3. /\ CallsAreWhole(ledger) => CallsAreWhole(ledger)'
      /\ CallsGoOut(ledger) => CallsGoOut(ledger)'
      /\ EarlyKept(ledger) => EarlyKept(ledger)'
  BY <1>1 DEF CallsAreWhole, CallsGoOut, EarlyKept, BeganEarly
<1>4. LedgerInPhase'
  BY <1>1, <1>3 DEF StreamInvariant, LedgerInPhase
<1> QED
  BY <1>1, <1>2, <1>4 DEF StreamInvariant

\* The invariant says what the consumer has.
LEMMA SoundStream == StreamInvariant => StreamIsSound
<1> SUFFICES ASSUME StreamInvariant PROVE StreamIsSound
  OBVIOUS
<1>1. ChatTypeOK
  BY DEF StreamInvariant, StreamCounts, Placed, ChatTypeOK
<1>2. StreamIsWellFormed
  <2>1. CASE ~committed
    <3>1. Shown.blocks = <<>>
      BY <2>1 DEF Shown, NewLedger
    <3> HIDE DEF Shown
    <3> QED
      BY <3>1 DEF StreamIsWellFormed
  <2>2. CASE committed /\ phase \in {"complete", "failed"}
    <3>1. Shown = ledger /\ AllClosed(ledger)
      BY <2>2 DEF Shown, StreamInvariant, LedgerInPhase
    <3> QED
      BY <3>1 DEF StreamIsWellFormed, AllClosed
  <2>3. CASE committed /\ phase = "streaming"
    <3>1. Shown = ledger /\ RestIsClosed(ledger)
      BY <2>3 DEF Shown, StreamInvariant, LedgerInPhase, Fed, LedgerIsSound
    <3> HIDE DEF Shown
    <3> QED
      BY <2>3, <3>1 DEF StreamIsWellFormed, RestIsClosed, IsOpen
  <2>4. CASE committed /\ phase \in {"recovering", "calling"}
    <3>1. Shown = broken /\ RestIsClosed(broken)
      BY <2>4 DEF Shown, StreamInvariant, LedgerInPhase, LedgerIsSound
    <3> HIDE DEF Shown
    <3> QED
      BY <2>4, <3>1 DEF StreamIsWellFormed, RestIsClosed, IsOpen
  <2> QED
    BY <2>1, <2>2, <2>3, <2>4 DEF StreamInvariant, StreamCounts, LedgerInPhase
<1>3. ToolsAreWhole
  BY DEF StreamInvariant, LedgerInPhase, CallsAreWhole, ToolsAreWhole
<1> QED
  BY <1>1, <1>2, <1>3 DEF StreamIsSound

\* What a consumer is given obeys the protocol on every path through retries, recoveries and
\* failures, and no call in it is half of one: a delta, a repair, a continuation and a failure
\* keep a ledger sound, whatever tools an answer calls and however many deltas and attempts it
\* takes.  A recovered call is without its arguments only where they began before its name.
THEOREM StreamStaysSound == ChatSpec => []StreamIsSound
<1>1. ChatInit => StreamInvariant
  BY StreamStarts
<1>2. StreamInvariant /\ [ChatStep]_chatVars => StreamInvariant'
  BY StreamStep, StreamStutter
<1> QED
  BY <1>1, <1>2, SoundStream, PTL DEF ChatSpec

\* What was given to the consumer is never taken back.
THEOREM NothingIsEverUnsaid == ChatSpec => NothingIsUnsaid
<1>1. ChatInit => StreamInvariant
  BY StreamStarts
<1>2. StreamInvariant /\ [ChatStep]_chatVars => StreamInvariant'
  BY StreamStep, StreamStutter
<1>3. StreamInvariant /\ [ChatStep]_chatVars =>
        [/\ Len(Shown'.blocks) >= Len(Shown.blocks)
         /\ \A b \in DOMAIN Shown.blocks : Grows(Shown.blocks[b], Shown'.blocks[b])
         /\ Shown.over => Shown' = Shown]_chatVars
  BY StreamStep DEF ShownGrows
<1> QED
  BY <1>1, <1>2, <1>3, PTL DEF ChatSpec, NothingIsUnsaid

(***************************************************************************)
(* An answer that is translated twice.  What the client of a response has,  *)
(* once all that is held back is passed on, goes with the blocks of the     *)
(* translator and with what was heard upstream.  The proof follows one      *)
(* event after the other through the assembler; that a run of events is the *)
(* fold of its parts rests on an induction over numbers, which is proved    *)
(* from the pigeonhole principle for finite sets.                           *)
(***************************************************************************)

\* What the assembler is after each of some events.
Stages(a, s) ==
  CHOOSE f : f = [n \in 0 .. Len(s) |-> IF n = 0 THEN a ELSE Assemble(f[n - 1], s[n])]

\* An assembler has a stage after each event.
LEMMA StagesExist ==
  ASSUME NEW a, NEW s, Len(s) \in Nat
  PROVE  Stages(a, s) = [n \in 0 .. Len(s) |->
                           IF n = 0 THEN a ELSE Assemble(Stages(a, s)[n - 1], s[n])]
<1> DEFINE Stage(f, m) == f = [n \in 0 .. m |-> IF n = 0 THEN a ELSE Assemble(f[n - 1], s[n])]
           S == {m \in Nat : \E f : Stage(f, m)}
<1>1. 0 \in S
  <2> DEFINE g == [n \in 0 .. 0 |-> a]
  <2>1. g = [n \in 0 .. 0 |-> IF n = 0 THEN a ELSE Assemble(g[n - 1], s[n])]
    OBVIOUS
  <2>2. Stage(g, 0)
    BY <2>1
  <2> HIDE DEF Stage
  <2> QED
    BY <2>2
<1>2. ASSUME NEW m \in Nat, m \in S PROVE m + 1 \in S
  <2>1. PICK f : Stage(f, m)
    BY <1>2
  <2> DEFINE g == [n \in 0 .. m + 1 |-> IF n = m + 1 THEN Assemble(f[m], s[n]) ELSE f[n]]
  <2>2. ASSUME NEW n \in 0 .. m + 1
        PROVE  g[n] = IF n = 0 THEN a ELSE Assemble(g[n - 1], s[n])
    <3>1. CASE n = m + 1
      <4>1. g[n] = Assemble(f[m], s[n]) /\ n # 0
        BY <3>1
      <4>2. m \in 0 .. m + 1 /\ m # m + 1 /\ n - 1 = m
        BY <3>1
      <4>3. g[n - 1] = f[m]
        BY <4>2
      <4> QED
        BY <4>1, <4>3
    <3>2. CASE n # m + 1
      <4>1. n \in 0 .. m /\ g[n] = f[n]
        BY <3>2
      <4>2. f[n] = IF n = 0 THEN a ELSE Assemble(f[n - 1], s[n])
        BY <2>1, <4>1
      <4>3. n # 0 => n - 1 \in 0 .. m + 1 /\ n - 1 # m + 1
        BY <4>1
      <4>4. n # 0 => g[n - 1] = f[n - 1]
        BY <4>3
      <4> QED
        BY <4>1, <4>2, <4>4
    <3> QED
      BY <3>1, <3>2
  <2>3. g = [n \in 0 .. m + 1 |-> g[n]]
    OBVIOUS
  <2> HIDE DEF g
  <2>4. Stage(g, m + 1)
    BY <2>2, <2>3
  <2> HIDE DEF Stage
  <2> QED
    BY <2>4
<1> HIDE DEF S
<1>3. Len(s) \in S
  BY <1>1, <1>2, Induct
<1>4. \E f : Stage(f, Len(s))
  BY <1>3 DEF S
<1> QED
  BY <1>4 DEF Stages

\* Each stage is that before, with one event more.
LEMMA StagesStepwise ==
  ASSUME NEW a, NEW s, Len(s) \in Nat
  PROVE  /\ Stages(a, s)[0] = a
         /\ \A n \in 1 .. Len(s) : Stages(a, s)[n] = Assemble(Stages(a, s)[n - 1], s[n])
         /\ AssembleAll(a, s) = Stages(a, s)[Len(s)]
<1> DEFINE J == Stages(a, s)
<1>1. J = [n \in 0 .. Len(s) |-> IF n = 0 THEN a ELSE Assemble(J[n - 1], s[n])]
  BY StagesExist
<1>2. AssembleAll(a, s) = J[Len(s)]
  BY DEF AssembleAll, Stages
<1> HIDE DEF J
<1>3. 0 \in 0 .. Len(s) /\ \A n \in 1 .. Len(s) : n \in 0 .. Len(s) /\ n # 0
  OBVIOUS
<1>4. J[0] = a /\ \A n \in 1 .. Len(s) : J[n] = Assemble(J[n - 1], s[n])
  BY <1>1, <1>3
<1> QED
  BY <1>2, <1>4 DEF J

\* Without events the assembler stays as it is.
LEMMA AssembleNone == \A a : AssembleAll(a, <<>>) = a
<1> TAKE a
<1>1. Len(<<>>) = 0
  OBVIOUS
<1> QED
  BY <1>1, 0 \in Nat, StagesStepwise

\* The events of two sequences are assembled one sequence after the other.
LEMMA AssembleMore ==
  ASSUME NEW a, NEW T, NEW s \in Seq(T), NEW t \in Seq(T)
  PROVE  AssembleAll(a, s \o t) = AssembleAll(AssembleAll(a, s), t)
<1> DEFINE r == s \o t
           m == Len(s)
           k == Len(t)
           b == AssembleAll(a, s)
<1>1. /\ m \in Nat /\ k \in Nat /\ Len(r) = m + k
      /\ \A n \in 1 .. m : r[n] = s[n]
      /\ \A n \in 1 .. k : r[m + n] = t[n]
  OBVIOUS
<1>2. /\ Stages(a, s)[0] = a
      /\ \A n \in 1 .. m : Stages(a, s)[n] = Assemble(Stages(a, s)[n - 1], s[n])
      /\ b = Stages(a, s)[m]
  BY <1>1, StagesStepwise
<1>3. /\ Stages(b, t)[0] = b
      /\ \A n \in 1 .. k : Stages(b, t)[n] = Assemble(Stages(b, t)[n - 1], t[n])
      /\ AssembleAll(b, t) = Stages(b, t)[k]
  BY <1>1, StagesStepwise
<1> HIDE DEF r
<1>4. /\ Stages(a, r)[0] = a
      /\ \A n \in 1 .. m + k : Stages(a, r)[n] = Assemble(Stages(a, r)[n - 1], r[n])
      /\ AssembleAll(a, r) = Stages(a, r)[m + k]
  <2>1. Len(r) \in Nat /\ Len(r) = m + k
    BY <1>1
  <2> HIDE DEF m, k, b
  <2>2. /\ Stages(a, r)[0] = a
        /\ \A n \in 1 .. Len(r) : Stages(a, r)[n] = Assemble(Stages(a, r)[n - 1], r[n])
        /\ AssembleAll(a, r) = Stages(a, r)[Len(r)]
    BY <2>1, StagesStepwise
  <2> QED
    BY <2>1, <2>2
<1> HIDE DEF m, k, b
<1> DEFINE S == {n \in Nat : n <= m => Stages(a, r)[n] = Stages(a, s)[n]}
           R == {n \in Nat : n <= k => Stages(a, r)[m + n] = Stages(b, t)[n]}
<1>5. \A n \in Nat : n \in S
  <2>1. 0 \in S
    BY <1>2, <1>4
  <2>2. ASSUME NEW n \in Nat, n \in S PROVE n + 1 \in S
    <3> SUFFICES ASSUME n + 1 <= m PROVE Stages(a, r)[n + 1] = Stages(a, s)[n + 1]
      OBVIOUS
    <3>1. n + 1 \in 1 .. m /\ n + 1 \in 1 .. m + k /\ (n + 1) - 1 = n /\ n <= m
      BY <1>1
    <3>2. Stages(a, r)[n] = Stages(a, s)[n] /\ r[n + 1] = s[n + 1]
      BY <1>1, <2>2, <3>1
    <3>3. Stages(a, r)[n + 1] = Assemble(Stages(a, r)[n], r[n + 1])
      BY <1>4, <3>1
    <3>4. Stages(a, s)[n + 1] = Assemble(Stages(a, s)[n], s[n + 1])
      BY <1>2, <3>1
    <3> QED
      BY <3>2, <3>3, <3>4
  <2> HIDE DEF S
  <2> QED
    BY <2>1, <2>2, Induct
<1>6. Stages(a, r)[m] = b
  BY <1>1, <1>2, <1>5
<1>7. \A n \in Nat : n \in R
  <2>1. 0 \in R
    BY <1>1, <1>3, <1>6
  <2>2. ASSUME NEW n \in Nat, n \in R PROVE n + 1 \in R
    <3> SUFFICES ASSUME n + 1 <= k PROVE Stages(a, r)[m + (n + 1)] = Stages(b, t)[n + 1]
      OBVIOUS
    <3>1. /\ n + 1 \in 1 .. k /\ m + (n + 1) \in 1 .. m + k /\ (n + 1) - 1 = n /\ n <= k
          /\ (m + (n + 1)) - 1 = m + n
      BY <1>1
    <3>2. Stages(a, r)[m + n] = Stages(b, t)[n] /\ r[m + (n + 1)] = t[n + 1]
      BY <1>1, <2>2, <3>1
    <3>3. Stages(a, r)[m + (n + 1)] = Assemble(Stages(a, r)[m + n], r[m + (n + 1)])
      BY <1>4, <3>1
    <3>4. Stages(b, t)[n + 1] = Assemble(Stages(b, t)[n], t[n + 1])
      BY <1>3, <3>1
    <3> QED
      BY <3>2, <3>3, <3>4
  <2> HIDE DEF R
  <2> QED
    BY <2>1, <2>2, Induct
<1>8. Stages(a, r)[m + k] = Stages(b, t)[k]
  BY <1>1, <1>7
<1> QED
  BY <1>3, <1>4, <1>8 DEF r, b

\* One event.
LEMMA AssembleOne ==
  ASSUME NEW a, NEW e
  PROVE  AssembleAll(a, <<e>>) = Assemble(a, e)
<1>1. Len(<<e>>) = 1 /\ <<e>>[1] = e /\ 1 \in Nat /\ 1 \in 1 .. 1 /\ 1 - 1 = 0
  OBVIOUS
<1> DEFINE s == <<e>>
<1>2. Len(s) = 1 /\ s[1] = e
  BY <1>1
<1> HIDE DEF s
<1>3. AssembleAll(a, s) = Assemble(a, e)
  BY <1>1, <1>2, StagesStepwise
<1> QED
  BY <1>3 DEF s

\* One event after others.
LEMMA AssembleNext ==
  ASSUME NEW a, NEW T, NEW s \in Seq(T), NEW e \in T
  PROVE  AssembleAll(a, s \o <<e>>) = Assemble(AssembleAll(a, s), e)
<1> DEFINE t == <<e>>
<1>1. t \in Seq(T)
  OBVIOUS
<1>2. \A b : AssembleAll(b, t) = Assemble(b, e)
  BY AssembleOne
<1> HIDE DEF t
<1>3. AssembleAll(a, s \o t) = AssembleAll(AssembleAll(a, s), t)
  BY <1>1, AssembleMore
<1>4. AssembleAll(a, s \o t) = Assemble(AssembleAll(a, s), e)
  BY <1>2, <1>3
<1> QED
  BY <1>4 DEF t

\* A response that is over stays as it is.
LEMMA AssembleOver ==
  ASSUME NEW a, a.final # "open", NEW s, Len(s) \in Nat
  PROVE  AssembleAll(a, s) = a
<1>1. \A e : Assemble(a, e) = a
  BY DEF Assemble
<1>2. /\ Stages(a, s)[0] = a
      /\ \A n \in 1 .. Len(s) : Stages(a, s)[n] = Assemble(Stages(a, s)[n - 1], s[n])
      /\ AssembleAll(a, s) = Stages(a, s)[Len(s)]
  BY StagesStepwise
<1> DEFINE S == {n \in Nat : n <= Len(s) => Stages(a, s)[n] = a}
<1>3. 0 \in S
  BY <1>2
<1>4. ASSUME NEW n \in Nat, n \in S PROVE n + 1 \in S
  <2> SUFFICES ASSUME n + 1 <= Len(s) PROVE Stages(a, s)[n + 1] = a
    OBVIOUS
  <2>1. n + 1 \in 1 .. Len(s) /\ (n + 1) - 1 = n /\ n <= Len(s)
    OBVIOUS
  <2>2. Stages(a, s)[n] = a
    BY <1>4, <2>1
  <2>3. Stages(a, s)[n + 1] = Assemble(Stages(a, s)[n], s[n + 1])
    BY <1>2, <2>1
  <2> QED
    BY <1>1, <2>2, <2>3
<1> HIDE DEF S
<1>5. \A n \in Nat : n \in S
  BY <1>3, <1>4, Induct
<1> QED
  BY <1>2, <1>5 DEF S

\* What the assembler has: kinds of blocks, and slots.
Kinds == {"text", "thinking", "redacted", "call", "custom"}
Slots == [kind : Kinds, parts : Seq(Nat), state : {"in_progress", "completed"}]

\* The assembler v of an answer with n blocks, of which those in O are open.
Board(v, n, O) ==
  /\ v = [slots |-> v.slots, active |-> v.active, provisional |-> v.provisional,
          reason |-> v.reason, final |-> "open"]
  /\ n \in Nat /\ v.slots \in Seq(Slots) /\ Len(v.slots) = n
  /\ O \in SUBSET (1 .. n) /\ v.active = [b \in O |-> b]
  /\ \A s \in 1 .. n : /\ s \in O => v.slots[s].state = "in_progress"
                       /\ s \notin O /\ v.slots[s].state = "in_progress" => v.provisional # "none"
                       /\ v.slots[s].state = "completed" => ~CutCall(v.slots[s])

\* The slots are of the same kinds and have the same parts.
SayTheSame(p, q) ==
  /\ Len(p) = Len(q)
  /\ \A s \in 1 .. Len(p) : p[s].kind = q[s].kind /\ p[s].parts = q[s].parts

\* A slot of a kind is there, which says nothing yet; one slot says x more.
Extended(p, q, n, kind) ==
  /\ p \in Seq(Slots) /\ Len(p) = n /\ q \in Seq(Slots) /\ Len(q) = n + 1
  /\ \A s \in 1 .. n : q[s].kind = p[s].kind /\ q[s].parts = p[s].parts
  /\ q[n + 1].kind = kind /\ q[n + 1].parts = <<>>

\* The slots stay the same, but that slot b says x more.
Lengthened(p, q, b, x) ==
  /\ p \in Seq(Slots) /\ q \in Seq(Slots) /\ Len(q) = Len(p)
  /\ b \in 1 .. Len(p) /\ x \in Seq(Nat)
  /\ \A s \in 1 .. Len(p) : /\ q[s].kind = p[s].kind
                            /\ s # b => q[s].parts = p[s].parts
  /\ q[b].parts = p[b].parts \o x

\* A sequence is a function of the numbers up to its length.
LEMMA SeqFunctions ==
  ASSUME NEW T, NEW n \in Nat, NEW f \in [1 .. n -> T]
  PROVE  f \in Seq(T) /\ Len(f) = n
OBVIOUS

\* Blocks stop: they are no longer open, and the slots say what they said.
LEMMA BoardStops ==
  ASSUME NEW v, NEW n \in Nat, NEW O, Board(v, n, O), NEW B
  PROVE  /\ Board(CompleteBlocks(v, B), n, O \ B)
         /\ SayTheSame(v.slots, CompleteBlocks(v, B).slots)
<1>1. PICK slots, active, provisional, reason :
        v = [slots |-> slots, active |-> active, provisional |-> provisional,
             reason |-> reason, final |-> "open"]
  BY DEF Board
<1>2. /\ n \in Nat /\ slots \in Seq(Slots) /\ Len(slots) = n
      /\ O \in SUBSET (1 .. n) /\ active = [b \in O |-> b]
      /\ \A s \in 1 .. n : /\ s \in O => slots[s].state = "in_progress"
                           /\ s \notin O /\ slots[s].state = "in_progress" => provisional # "none"
                           /\ slots[s].state = "completed" => ~CutCall(slots[s])
  BY <1>1 DEF Board
<1> DEFINE S == O \cap B
           after == Completed(slots, S)
           invalid == IF \E s \in S : CutCall(slots[s]) THEN "invalid call" ELSE provisional
           w == [slots |-> after, active |-> [b \in O \ B |-> b], provisional |-> invalid,
                 reason |-> reason, final |-> "open"]
<1>3. CompleteBlocks(v, B) = w
  <2>1. {v.active[b] : b \in DOMAIN v.active \cap B} = S
    BY <1>1, <1>2
  <2> HIDE DEF S
  <2>2. CompleteSlots(v, S) = [slots |-> after, active |-> active, provisional |-> invalid,
                              reason |-> reason, final |-> "open"]
    <3>1. v.slots = slots /\ v.provisional = provisional
      BY <1>1
    <3>2. CompleteSlots(v, S) = [v EXCEPT !.slots = after, !.provisional = invalid]
      BY <3>1 DEF CompleteSlots
    <3> HIDE DEF after, invalid
    <3> QED
      BY <1>1, <3>2
  <2>3. [b \in DOMAIN active \ B |-> active[b]] = [b \in O \ B |-> b]
    BY <1>2
  <2> HIDE DEF after, invalid
  <2>4. CompleteBlocks(v, B) =
          [CompleteSlots(v, S) EXCEPT !.active = [b \in DOMAIN @ \ B |-> @[b]]]
    BY <2>1 DEF CompleteBlocks
  <2>5. CompleteBlocks(v, B) =
          [CompleteSlots(v, S) EXCEPT !.active = [b \in DOMAIN active \ B |-> active[b]]]
    BY <2>2, <2>4
  <2> QED
    BY <2>2, <2>3, <2>5
<1>4. ASSUME NEW s \in 1 .. n
      PROVE  /\ after[s] \in Slots
             /\ after[s].kind = slots[s].kind /\ after[s].parts = slots[s].parts
             /\ after[s].state = IF s \in S /\ ~CutCall(slots[s]) THEN "completed" ELSE slots[s].state
             /\ CutCall(after[s]) = CutCall(slots[s])
  <2>1. slots[s] \in Slots /\ s \in DOMAIN slots
    BY <1>2
  <2>2. after[s] = IF s \in S /\ ~CutCall(slots[s])
                   THEN [slots[s] EXCEPT !.state = "completed"] ELSE slots[s]
    BY <2>1 DEF Completed
  <2> HIDE DEF after, S
  <2>3. PICK slot \in Slots : slot = slots[s]
    BY <2>1
  <2>4. /\ [slot EXCEPT !.state = "completed"] \in Slots
        /\ [slot EXCEPT !.state = "completed"].kind = slot.kind
        /\ [slot EXCEPT !.state = "completed"].parts = slot.parts
        /\ [slot EXCEPT !.state = "completed"].state = "completed"
    BY DEF Slots
  <2>5. CutCall([slot EXCEPT !.state = "completed"]) = CutCall(slot)
    BY <2>4 DEF CutCall
  <2> QED
    BY <2>2, <2>3, <2>4, <2>5
<1>5. after \in [1 .. n -> Slots]
  <2>1. after = [s \in 1 .. n |-> after[s]]
    <3>1. DOMAIN slots = 1 .. n
      BY <1>2
    <3> QED
      BY <3>1 DEF Completed
  <2> HIDE DEF after
  <2> QED
    BY <1>4, <2>1
<1>6. after \in Seq(Slots) /\ Len(after) = n
  <2> HIDE DEF after
  <2> QED
    BY <1>2, <1>5, SeqFunctions
<1>7. ASSUME NEW s \in 1 .. n
      PROVE  /\ s \in O \ B => after[s].state = "in_progress"
             /\ s \notin O \ B /\ after[s].state = "in_progress" => w.provisional # "none"
             /\ after[s].state = "completed" => ~CutCall(after[s])
  <2> HIDE DEF after
  <2> QED
    BY <1>2, <1>4
<1>8. Board(w, n, O \ B)
  <2>1. O \ B \in SUBSET (1 .. n)
    BY <1>2
  <2> HIDE DEF after
  <2> QED
    BY <1>2, <1>6, <1>7, <2>1 DEF Board
<1>9. SayTheSame(slots, w.slots)
  <2> HIDE DEF after
  <2> QED
    BY <1>2, <1>4, <1>6 DEF SayTheSame
<1> QED
  BY <1>1, <1>3, <1>8, <1>9

\* A new block has a slot at the end.
LEMMA BoardStarts ==
  ASSUME NEW v, NEW n \in Nat, NEW O, Board(v, n, O), NEW kind \in Kinds, NEW w,
         w = Assemble(v, BlockBegin(n + 1, kind))
  PROVE  Board(w, n + 1, O \cup {n + 1}) /\ Extended(v.slots, w.slots, n, kind)
<1> DEFINE u == CompleteBlocks(v, {n + 1})
<1>0. n \in Nat /\ O \in SUBSET (1 .. n) /\ v.final = "open" /\ Len(v.slots) = n
  BY DEF Board
<1>1. O \ {n + 1} = O
  BY <1>0
<1>2. Board(u, n, O) /\ SayTheSame(v.slots, u.slots)
  BY <1>1, BoardStops
<1> HIDE DEF u
<1>3. w = Announce(u, n + 1, kind)
  BY <1>0 DEF Assemble, BlockBegin, u
<1>4. PICK slots, active, provisional, reason :
        u = [slots |-> slots, active |-> active, provisional |-> provisional,
             reason |-> reason, final |-> "open"]
  BY <1>2 DEF Board
<1>5. /\ slots \in Seq(Slots) /\ Len(slots) = n
      /\ active = [b \in O |-> b]
      /\ \A s \in 1 .. n : /\ s \in O => slots[s].state = "in_progress"
                           /\ s \notin O /\ slots[s].state = "in_progress" => provisional # "none"
                           /\ slots[s].state = "completed" => ~CutCall(slots[s])
  BY <1>2, <1>4 DEF Board
<1> DEFINE new == [kind |-> kind, parts |-> <<>>, state |-> "in_progress"]
           after == Append(slots, new)
<1>6. /\ after \in Seq(Slots) /\ Len(after) = n + 1 /\ after[n + 1] = new
      /\ \A s \in 1 .. n : after[s] = slots[s]
  <2>1. new \in Slots
    BY DEF Slots
  <2> HIDE DEF new
  <2> QED
    BY <1>5, <2>1
<1>7. w = [slots |-> after, active |-> [b \in O \cup {n + 1} |-> b], provisional |-> provisional,
           reason |-> reason, final |-> "open"]
  <2>1. [b \in DOMAIN active \cup {n + 1} |-> IF b = n + 1 THEN Len(slots) + 1 ELSE active[b]]
          = [b \in O \cup {n + 1} |-> b]
    BY <1>5
  <2>2. u.slots = slots /\ u.active = active
    BY <1>4
  <2>3. w = [u EXCEPT !.slots = after,
                      !.active = [b \in DOMAIN active \cup {n + 1} |->
                                    IF b = n + 1 THEN Len(slots) + 1 ELSE active[b]]]
    BY <1>3, <2>2 DEF Announce
  <2> HIDE DEF after
  <2>4. w = [u EXCEPT !.slots = after, !.active = [b \in O \cup {n + 1} |-> b]]
    BY <2>1, <2>3
  <2> QED
    BY <1>4, <2>4
<1>8. ASSUME NEW s \in 1 .. n + 1
      PROVE  /\ s \in O \cup {n + 1} => after[s].state = "in_progress"
             /\ s \notin O \cup {n + 1} /\ after[s].state = "in_progress" => provisional # "none"
             /\ after[s].state = "completed" => ~CutCall(after[s])
  <2>1. CASE s = n + 1
    BY <1>6, <2>1
  <2>2. CASE s # n + 1
    <3>1. s \in 1 .. n
      BY <1>0, <2>2
    <3> HIDE DEF after
    <3> QED
      BY <1>5, <1>6, <2>2, <3>1
  <2> QED
    BY <2>1, <2>2
<1>9. Board(w, n + 1, O \cup {n + 1})
  <2>1. O \cup {n + 1} \in SUBSET (1 .. n + 1) /\ n + 1 \in Nat
    BY <1>0
  <2>2. Len(w.slots) = n + 1 /\ w.slots = after
    BY <1>6, <1>7
  <2> HIDE DEF after
  <2> QED
    BY <1>6, <1>7, <1>8, <2>1, <2>2 DEF Board
<1>10. \A s \in 1 .. n : w.slots[s].kind = v.slots[s].kind /\ w.slots[s].parts = v.slots[s].parts
  <2> HIDE DEF after
  <2> QED
    BY <1>0, <1>2, <1>4, <1>6, <1>7 DEF SayTheSame
<1>11. w.slots[n + 1].kind = kind /\ w.slots[n + 1].parts = <<>>
  <2> HIDE DEF after
  <2> QED
    BY <1>6, <1>7
<1>12. v.slots \in Seq(Slots) /\ Len(v.slots) = n
  BY DEF Board
<1>13. w.slots \in Seq(Slots) /\ Len(w.slots) = n + 1
  BY <1>9 DEF Board
<1> HIDE DEF after
<1> QED
  BY <1>9, <1>10, <1>11, <1>12, <1>13 DEF Extended

\* What an open block says is said by its slot.
LEMMA BoardFeeds ==
  ASSUME NEW v, NEW n \in Nat, NEW O, Board(v, n, O), NEW b \in O, NEW kind, NEW fragments \in Seq(Nat),
         NEW w, w = Assemble(v, Piece(b, kind, fragments))
  PROVE  Board(w, n, O) /\ Lengthened(v.slots, w.slots, b, fragments)
<1>1. PICK slots, active, provisional, reason :
        v = [slots |-> slots, active |-> active, provisional |-> provisional,
             reason |-> reason, final |-> "open"]
  BY DEF Board
<1>2. /\ n \in Nat /\ slots \in Seq(Slots) /\ Len(slots) = n
      /\ O \in SUBSET (1 .. n) /\ active = [c \in O |-> c]
      /\ \A s \in 1 .. n : /\ s \in O => slots[s].state = "in_progress"
                           /\ s \notin O /\ slots[s].state = "in_progress" => provisional # "none"
                           /\ slots[s].state = "completed" => ~CutCall(slots[s])
  BY <1>1 DEF Board
<1>3. active[b] = b /\ b \in 1 .. n
  BY <1>2
<1> DEFINE slot == [slots[b] EXCEPT !.parts = @ \o fragments]
           after == [slots EXCEPT ![b] = slot]
<1>4. w = [slots |-> after, active |-> active, provisional |-> provisional, reason |-> reason, final |-> "open"]
  BY <1>1, <1>3 DEF Assemble, Piece
<1>5. slots[b] \in Slots /\ slots[b].state = "in_progress" /\ DOMAIN slots = 1 .. n
  BY <1>2, <1>3
<1>6. /\ slot \in Slots /\ slot.kind = slots[b].kind /\ slot.state = slots[b].state
      /\ slot.parts = slots[b].parts \o fragments
  <2>1. PICK old \in Slots : old = slots[b]
    BY <1>5
  <2>2. old.parts \in Seq(Nat)
    BY DEF Slots
  <2>3. old.parts \o fragments \in Seq(Nat)
    BY <2>2
  <2>4. /\ [old EXCEPT !.parts = old.parts \o fragments] \in Slots
        /\ [old EXCEPT !.parts = old.parts \o fragments].kind = old.kind
        /\ [old EXCEPT !.parts = old.parts \o fragments].state = old.state
        /\ [old EXCEPT !.parts = old.parts \o fragments].parts = old.parts \o fragments
    BY <2>3 DEF Slots
  <2> QED
    BY <2>1, <2>4
<1> HIDE DEF slot
<1>7. /\ after[b] = slot /\ DOMAIN after = 1 .. n
      /\ \A s \in 1 .. n : s # b => after[s] = slots[s]
  BY <1>3, <1>5
<1>8. after \in Seq(Slots) /\ Len(after) = n
  <2>1. \A s \in 1 .. n : slots[s] \in Slots
    BY <1>2
  <2>2. after \in [1 .. n -> Slots]
    BY <1>5, <1>6, <2>1
  <2> HIDE DEF after
  <2> QED
    BY <1>2, <2>2, SeqFunctions
<1> HIDE DEF after
<1>9. ASSUME NEW s \in 1 .. n
      PROVE  /\ s \in O => after[s].state = "in_progress"
             /\ s \notin O /\ after[s].state = "in_progress" => provisional # "none"
             /\ after[s].state = "completed" => ~CutCall(after[s])
  <2>1. CASE s = b
    BY <1>5, <1>6, <1>7, <2>1
  <2>2. CASE s # b
    BY <1>2, <1>7, <2>2
  <2> QED
    BY <2>1, <2>2
<1>10. Board(w, n, O)
  BY <1>2, <1>4, <1>8, <1>9 DEF Board
<1>11. ASSUME NEW s \in 1 .. n
       PROVE  /\ w.slots[s].kind = v.slots[s].kind
              /\ s # b => w.slots[s].parts = v.slots[s].parts
  <2>1. w.slots = after /\ v.slots = slots
    BY <1>1, <1>4
  <2>2. CASE s = b
    BY <1>6, <1>7, <2>1, <2>2
  <2>3. CASE s # b
    BY <1>7, <2>1, <2>3
  <2> QED
    BY <2>2, <2>3
<1>12. w.slots[b].parts = v.slots[b].parts \o fragments
  <2>1. w.slots = after /\ v.slots = slots
    BY <1>1, <1>4
  <2> QED
    BY <1>6, <1>7, <2>1
<1>13. v.slots \in Seq(Slots) /\ Len(v.slots) = n
  BY DEF Board
<1>14. w.slots \in Seq(Slots) /\ Len(w.slots) = n
  BY <1>10 DEF Board
<1> QED
  BY <1>3, <1>10, <1>11, <1>12, <1>13, <1>14 DEF Lengthened

\* What an upstream answer has said of one kind, and what slots of some kinds say.
PartsSaid(u, k) ==
  FlattenSeq([n \in 1 .. Len(u.order) |->
                IF ItemKind[u.order[n]] = k THEN u.sent[u.order[n]] ELSE <<>>])

\* What the slots of some kinds say, one after the other.
PartsShown(slots, K) ==
  FlattenSeq([s \in 1 .. Len(slots) |-> IF slots[s].kind \in K THEN slots[s].parts ELSE <<>>])

\* An answer: an item that is no call is the last one of its sort as long as it is open.
IsCall(i) == ItemKind[i] \in {"call", "custom"}

\* What was heard upstream: what is sent belongs to an item that was announced, and
\* of messages and thoughts only one is open, the last that was announced.
WellHeard(u) ==
  /\ u = [order |-> u.order, state |-> u.state, sent |-> u.sent, over |-> u.over]
  /\ u.order \in Seq(Items)
  /\ u.state \in [Items -> {"none", "added", "done"}]
  /\ u.sent \in [Items -> Seq(Nat)]
  /\ \A i \in Items : /\ u.state[i] = "none" => u.sent[i] = <<>>
                      /\ u.state[i] # "none" => \E n \in 1 .. Len(u.order) : u.order[n] = i
  /\ \A n \in 1 .. Len(u.order) : u.state[u.order[n]] # "none"
  /\ \A m, n \in 1 .. Len(u.order) :
       /\ u.order[m] = u.order[n] => m = n
       /\ m < n /\ ~IsCall(u.order[m]) /\ u.state[u.order[m]] = "added" => IsCall(u.order[n])

\* A sequence that has one entry more than another.
LEMMA OneMore ==
  ASSUME NEW T, NEW f \in Seq(T), NEW g \in Seq(T), NEW x \in T, Len(g) = Len(f) + 1,
         g[Len(f) + 1] = x, \A n \in 1 .. Len(f) : g[n] = f[n]
  PROVE  g = Append(f, x)
<1> DEFINE h == Append(f, x)
<1>1. h \in Seq(T) /\ Len(h) = Len(f) + 1 /\ h[Len(f) + 1] = x /\ \A n \in 1 .. Len(f) : h[n] = f[n]
  OBVIOUS
<1> HIDE DEF h
<1>2. Len(f) \in Nat
  OBVIOUS
<1>3. \A n \in 1 .. Len(f) + 1 : g[n] = h[n]
  <2> TAKE n \in 1 .. Len(f) + 1
  <2>1. CASE n = Len(f) + 1
    BY <1>1, <2>1
  <2>2. CASE n # Len(f) + 1
    <3>1. n \in 1 .. Len(f)
      BY <1>2, <2>2
    <3> QED
      BY <1>1, <3>1
  <2> QED
    BY <2>1, <2>2
<1>4. g = h
  BY <1>1, <1>3
<1> QED
  BY <1>4 DEF h

\* The parts of the slots are sequences of fragments.
LEMMA ShownParts ==
  ASSUME NEW slots \in Seq(Slots), NEW K
  PROVE  [s \in 1 .. Len(slots) |-> IF slots[s].kind \in K THEN slots[s].parts ELSE <<>>]
           \in Seq(Seq(Nat))
<1> DEFINE f == [s \in 1 .. Len(slots) |-> IF slots[s].kind \in K THEN slots[s].parts ELSE <<>>]
<1>1. \A s \in 1 .. Len(slots) : slots[s].parts \in Seq(Nat)
  <2>1. \A slot \in Slots : slot.parts \in Seq(Nat)
    BY DEF Slots
  <2> QED
    BY <2>1
<1>2. <<>> \in Seq(Nat) /\ Len(slots) \in Nat
  OBVIOUS
<1>3. f \in [1 .. Len(slots) -> Seq(Nat)]
  BY <1>1, <1>2
<1> HIDE DEF f
<1>4. f \in Seq(Seq(Nat))
  BY <1>2, <1>3, SeqFunctions
<1> QED
  BY <1>4 DEF f

\* Slots that say the same show the same.
LEMMA ShownSame ==
  ASSUME NEW p, NEW q, SayTheSame(p, q), NEW K
  PROVE  PartsShown(p, K) = PartsShown(q, K)
BY DEF SayTheSame, PartsShown

\* A slot at the end that says nothing yet.
LEMMA ShownNew ==
  ASSUME NEW p \in Seq(Slots), NEW q \in Seq(Slots), Len(q) = Len(p) + 1,
         \A s \in 1 .. Len(p) : q[s].kind = p[s].kind /\ q[s].parts = p[s].parts,
         q[Len(p) + 1].parts = <<>>, NEW K
  PROVE  PartsShown(q, K) = PartsShown(p, K)
<1> DEFINE n == Len(p)
           f == [s \in 1 .. Len(p) |-> IF p[s].kind \in K THEN p[s].parts ELSE <<>>]
           g == [s \in 1 .. Len(q) |-> IF q[s].kind \in K THEN q[s].parts ELSE <<>>]
<1>1. f \in Seq(Seq(Nat)) /\ g \in Seq(Seq(Nat))
  BY ShownParts
<1>2. n \in Nat /\ Len(f) = n /\ Len(g) = n + 1
  OBVIOUS
<1>3. \A s \in 1 .. n : g[s] = f[s]
  <2> TAKE s \in 1 .. n
  <2>1. s \in 1 .. Len(q)
    BY <1>2
  <2> QED
    BY <2>1
<1>4. g[n + 1] = <<>>
  <2>1. n + 1 \in 1 .. Len(q)
    BY <1>2
  <2> QED
    BY <2>1
<1> HIDE DEF f, g
<1>5. g = Append(f, <<>>)
  <2>1. <<>> \in Seq(Nat)
    OBVIOUS
  <2> HIDE DEF n
  <2>2. Len(g) = Len(f) + 1 /\ g[Len(f) + 1] = <<>> /\ \A s \in 1 .. Len(f) : g[s] = f[s]
    BY <1>2, <1>3, <1>4
  <2>3. ASSUME NEW T, f \in Seq(T), g \in Seq(T), <<>> \in T PROVE g = Append(f, <<>>)
    BY <2>2, <2>3, OneMore
  <2> QED
    BY <1>1, <2>1, <2>3
<1>6. FlattenSeq(g) = FlattenSeq(f) \o <<>>
  <2>1. <<>> \in Seq(Nat)
    OBVIOUS
  <2> QED
    BY <1>1, <1>5, <2>1, FlattenGrows
<1>7. FlattenSeq(f) \in Seq(Nat)
  BY <1>1, FlattenType
<1>8. FlattenSeq(g) = FlattenSeq(f)
  BY <1>6, <1>7
<1> QED
  BY <1>8 DEF PartsShown, f, g

\* The last slot of its kind says more.
LEMMA ShownMore ==
  ASSUME NEW p \in Seq(Slots), NEW q \in Seq(Slots), Len(q) = Len(p), NEW b \in 1 .. Len(p),
         \A s \in 1 .. Len(p) : /\ q[s].kind = p[s].kind
                                /\ s # b => q[s].parts = p[s].parts,
         NEW x \in Seq(Nat), q[b].parts = p[b].parts \o x, NEW K
  PROVE  /\ p[b].kind \notin K => PartsShown(q, K) = PartsShown(p, K)
         /\ p[b].kind \in K /\ b = Len(p) => PartsShown(q, K) = PartsShown(p, K) \o x
<1> DEFINE f == [s \in 1 .. Len(p) |-> IF p[s].kind \in K THEN p[s].parts ELSE <<>>]
           g == [s \in 1 .. Len(q) |-> IF q[s].kind \in K THEN q[s].parts ELSE <<>>]
<1>1. f \in Seq(Seq(Nat)) /\ g \in Seq(Seq(Nat))
  BY ShownParts
<1>2. Len(p) \in Nat /\ Len(f) = Len(p) /\ Len(g) = Len(p)
  OBVIOUS
<1>3. \A s \in 1 .. Len(p) : s # b => g[s] = f[s]
  <2> TAKE s \in 1 .. Len(p)
  <2>1. /\ f[s] = IF p[s].kind \in K THEN p[s].parts ELSE <<>>
        /\ g[s] = IF q[s].kind \in K THEN q[s].parts ELSE <<>>
    OBVIOUS
  <2>2. q[s].kind = p[s].kind /\ (s # b => q[s].parts = p[s].parts)
    OBVIOUS
  <2> HIDE DEF f, g
  <2> QED
    BY <2>1, <2>2
<1>3a. \A s \in 1 .. Len(p) : s < b => s # b
  OBVIOUS
<1>4. CASE p[b].kind \notin K
  <2>1. g[b] = f[b]
    BY <1>4
  <2>2. f = g
    BY <1>3, <2>1
  <2> QED
    BY <1>4, <2>2 DEF PartsShown
<1>5. CASE p[b].kind \in K /\ b = Len(p)
  <2>1. g[b] = f[b] \o x
    BY <1>5
  <2> HIDE DEF f, g
  <2>2. LongerAt(f, g, b, x)
    <3>1. \A s \in 1 .. Len(f) : s < b => g[s] = f[s]
      BY <1>2, <1>3, <1>3a
    <3>2. \A s \in 1 .. Len(f) : ~(s > b)
      BY <1>2, <1>5
    <3> QED
      BY <1>2, <2>1, <3>1, <3>2 DEF LongerAt
  <2>3. FlattenSeq(g) = FlattenSeq(f) \o x
    <3>1. b \in 1 .. Len(f)
      BY <1>2
    <3> QED
      BY <1>1, <2>2, <3>1, FlattenExtends
  <2> QED
    BY <1>5, <2>3 DEF PartsShown, f, g
<1> QED
  BY <1>4, <1>5

\* Slot b says x more, at the end of what its kind says.
ShowsMore(p, q, b, x, K) ==
  /\ p[b].kind \notin K => PartsShown(q, K) = PartsShown(p, K)
  /\ p[b].kind \in K /\ b = Len(p) => PartsShown(q, K) = PartsShown(p, K) \o x

\* Then the slots show x more, if they are of these kinds.
LEMMA ShownLonger ==
  ASSUME NEW p, NEW q, NEW b, NEW x, Lengthened(p, q, b, x), NEW K
  PROVE  ShowsMore(p, q, b, x, K)
<1>1. /\ p[b].kind \notin K => PartsShown(q, K) = PartsShown(p, K)
      /\ p[b].kind \in K /\ b = Len(p) => PartsShown(q, K) = PartsShown(p, K) \o x
  BY ShownMore DEF Lengthened
<1> QED
  BY <1>1 DEF ShowsMore

\* The fragments of the items are sequences of fragments.
LEMMA SaidParts ==
  ASSUME NEW u, WellHeard(u), NEW k
  PROVE  [n \in 1 .. Len(u.order) |-> IF ItemKind[u.order[n]] = k THEN u.sent[u.order[n]] ELSE <<>>]
           \in Seq(Seq(Nat))
<1> DEFINE f == [n \in 1 .. Len(u.order) |->
                   IF ItemKind[u.order[n]] = k THEN u.sent[u.order[n]] ELSE <<>>]
<1>1. u.order \in Seq(Items) /\ u.sent \in [Items -> Seq(Nat)]
  BY DEF WellHeard
<1>2. \A n \in 1 .. Len(u.order) : u.sent[u.order[n]] \in Seq(Nat)
  BY <1>1
<1>3. <<>> \in Seq(Nat) /\ Len(u.order) \in Nat
  BY <1>1
<1>4. f \in [1 .. Len(u.order) -> Seq(Nat)]
  BY <1>2, <1>3
<1> HIDE DEF f
<1>5. f \in Seq(Seq(Nat))
  BY <1>3, <1>4, SeqFunctions
<1> QED
  BY <1>5 DEF f

\* Nothing is said as long as no item of the kind sends anything.
LEMMA SaidSame ==
  ASSUME NEW u, NEW w, WellHeard(u), w.order = u.order, NEW k,
         \A i \in Items : ItemKind[i] = k => w.sent[i] = u.sent[i]
  PROVE  PartsSaid(w, k) = PartsSaid(u, k)
<1>1. u.order \in Seq(Items)
  BY DEF WellHeard
<1>2. \A n \in 1 .. Len(u.order) : u.order[n] \in Items
  BY <1>1
<1> QED
  BY <1>2 DEF PartsSaid

\* A new item has said nothing.
LEMMA SaidAdded ==
  ASSUME NEW u, WellHeard(u), NEW i \in Items, u.state[i] = "none", NEW w,
         w.order = Append(u.order, i), w.sent = u.sent, NEW k
  PROVE  PartsSaid(w, k) = PartsSaid(u, k)
<1> DEFINE n == Len(u.order)
           f == [m \in 1 .. Len(u.order) |->
                   IF ItemKind[u.order[m]] = k THEN u.sent[u.order[m]] ELSE <<>>]
           g == [m \in 1 .. Len(w.order) |->
                   IF ItemKind[w.order[m]] = k THEN w.sent[w.order[m]] ELSE <<>>]
<1>0. u.order \in Seq(Items) /\ u.sent[i] = <<>>
  BY DEF WellHeard
<1>1. f \in Seq(Seq(Nat))
  BY SaidParts
<1>2. /\ n \in Nat /\ Len(w.order) = n + 1 /\ w.order[n + 1] = i
      /\ \A m \in 1 .. n : w.order[m] = u.order[m]
  BY <1>0
<1>3. DOMAIN g = 1 .. n + 1 /\ g[n + 1] = <<>> /\ \A m \in 1 .. n : g[m] = f[m]
  <2>1. n + 1 \in 1 .. n + 1 /\ \A m \in 1 .. n : m \in 1 .. n + 1
    BY <1>2
  <2>2. g[n + 1] = <<>>
    BY <1>0, <1>2, <2>1
  <2>3. \A m \in 1 .. n : g[m] = f[m]
    BY <1>2, <2>1
  <2> QED
    BY <1>2, <2>2, <2>3
<1>4. Len(f) = n
  BY <1>2
<1>5. g \in Seq(Seq(Nat)) /\ Len(g) = n + 1
  <2>1. \A m \in 1 .. n + 1 : g[m] \in Seq(Nat)
    <3>1. <<>> \in Seq(Nat) /\ \A m \in 1 .. n : f[m] \in Seq(Nat)
      BY <1>1, <1>4
    <3>2. \A m \in 1 .. n + 1 : m # n + 1 => m \in 1 .. n
      BY <1>2
    <3> HIDE DEF f, g, n
    <3> QED
      BY <1>3, <3>1, <3>2
  <2>2. g = [m \in 1 .. n + 1 |-> g[m]]
    BY <1>2
  <2> HIDE DEF f, g, n
  <2>3. g \in [1 .. n + 1 -> Seq(Nat)] /\ n + 1 \in Nat
    BY <1>2, <2>1, <2>2
  <2> QED
    BY <2>3, SeqFunctions
<1> HIDE DEF f, g, n
<1>6. g = Append(f, <<>>)
  <2>1. <<>> \in Seq(Nat)
    OBVIOUS
  <2> QED
    BY <1>1, <1>3, <1>4, <1>5, <2>1, OneMore
<1>7. FlattenSeq(g) = FlattenSeq(f) \o <<>>
  <2>1. <<>> \in Seq(Nat)
    OBVIOUS
  <2> QED
    BY <1>1, <1>6, <2>1, FlattenGrows
<1>8. FlattenSeq(f) \in Seq(Nat)
  BY <1>1, FlattenType
<1>9. FlattenSeq(g) = FlattenSeq(f)
  BY <1>7, <1>8
<1> QED
  BY <1>9 DEF PartsSaid, f, g

\* An open item that is no call says more.
LEMMA SaidMore ==
  ASSUME NEW u, WellHeard(u), NEW i \in Items, ~IsCall(i), u.state[i] = "added", NEW x \in Seq(Nat),
         NEW w, WellHeard(w), w.order = u.order,
         \A j \in Items : j # i => w.sent[j] = u.sent[j],
         w.sent[i] = u.sent[i] \o x
  PROVE  PartsSaid(w, ItemKind[i]) = PartsSaid(u, ItemKind[i]) \o x
<1> DEFINE k == ItemKind[i]
           f == [m \in 1 .. Len(u.order) |->
                   IF ItemKind[u.order[m]] = k THEN u.sent[u.order[m]] ELSE <<>>]
           g == [m \in 1 .. Len(w.order) |->
                   IF ItemKind[w.order[m]] = k THEN w.sent[w.order[m]] ELSE <<>>]
<1> HIDE DEF k
<1>1a. f \in Seq(Seq(Nat))
  BY SaidParts
<1>1b. g \in Seq(Seq(Nat))
  BY SaidParts
<1>1. f \in Seq(Seq(Nat)) /\ g \in Seq(Seq(Nat))
  BY <1>1a, <1>1b
<1>2. PICK p \in 1 .. Len(u.order) : u.order[p] = i
  BY DEF WellHeard
<1>3. /\ u.order \in Seq(Items) /\ Len(u.order) \in Nat
      /\ \A m \in 1 .. Len(u.order) : u.order[m] \in Items
      /\ \A m \in 1 .. Len(u.order) : m # p => u.order[m] # i
      /\ \A m \in 1 .. Len(u.order) : p < m => IsCall(u.order[m])
  <2>1. u.order \in Seq(Items) /\ Len(u.order) \in Nat
    BY DEF WellHeard
  <2> QED
    BY <1>2, <2>1 DEF WellHeard
<1>4. Len(f) = Len(u.order) /\ Len(g) = Len(u.order)
  BY <1>3
<1>5. g[p] = f[p] \o x
  BY <1>2 DEF k
<1>6. \A m \in 1 .. Len(u.order) : m # p => g[m] = f[m]
  BY <1>3
<1>7. \A m \in 1 .. Len(u.order) : p < m => f[m] = <<>>
  <2>1. \A j : IsCall(j) => ItemKind[j] # k
    BY DEF IsCall, k
  <2> QED
    BY <1>3, <2>1
<1> HIDE DEF f, g
<1>8. LongerAt(f, g, p, x)
  <2>1. \A m \in 1 .. Len(f) : m < p => g[m] = f[m]
    BY <1>3, <1>4, <1>6
  <2>2. \A m \in 1 .. Len(f) : m > p => f[m] = <<>> /\ g[m] = <<>>
    <3> TAKE m \in 1 .. Len(f)
    <3> HAVE m > p
    <3>1. m \in 1 .. Len(u.order) /\ p < m /\ m # p
      BY <1>3, <1>4
    <3> QED
      BY <1>6, <1>7, <3>1
  <2> QED
    BY <1>4, <1>5, <2>1, <2>2 DEF LongerAt
<1>9. FlattenSeq(g) = FlattenSeq(f) \o x
  <2>1. p \in 1 .. Len(f)
    BY <1>4
  <2> QED
    BY <1>1, <1>8, <2>1, FlattenExtends
<1> QED
  BY <1>9 DEF PartsSaid, f, g, k

\* The events of a translator.
Events ==
  [e : {"message_start", "message_stop"}]
    \cup [e : {"start"}, block : Nat, kind : Kinds]
    \cup [e : {"delta"}, block : Nat, kind : {"text", "thinking", "arguments"}, fragments : Seq(Nat)]
    \cup [e : {"stop"}, blocks : SUBSET Nat]
    \cup [e : {"message_delta"}, reason : {"tool_use", "max_tokens", "end_turn"}]

\* Its fields.
Translator(t) ==
  /\ t = [blocks |-> t.blocks, text |-> t.text, thinking |-> t.thinking, calls |-> t.calls,
          completed |-> t.completed, out |-> t.out]
  /\ t.blocks \in Nat /\ t.text \in Nat /\ t.thinking \in Nat
  /\ t.calls \in [Items -> [block : Nat, fed : BOOLEAN, stopped : BOOLEAN]]
  /\ t.out \in Seq(Events)

\* The blocks a translator has open.
OpenBlocks(t) == ({t.text, t.thinking} \ {0}) \cup {t.calls[i].block : i \in OpenCalls(t)}

\* The slots say what was heard: text and thoughts in their order, every call in its own slot.
Content(t, slots, u) ==
  /\ t.text \in {0, t.blocks} /\ t.thinking \in {0, t.blocks}
  /\ t.text # 0 => slots[t.text].kind = "text"
  /\ t.thinking # 0 => slots[t.thinking].kind = "thinking"
  /\ \A i \in Items : t.calls[i].block # 0 =>
       /\ IsCall(i) /\ t.calls[i].block \in 1 .. t.blocks
       /\ slots[t.calls[i].block].kind = ItemKind[i]
       /\ slots[t.calls[i].block].parts = u.sent[i]
  /\ \A i, j \in Items : t.calls[i].block # 0 /\ t.calls[i].block = t.calls[j].block => i = j
  /\ \A s \in 1 .. t.blocks :
       slots[s].kind \in {"call", "custom"} => \E i \in Items : t.calls[i].block = s
  /\ \A i \in Items : IsCall(i) /\ t.calls[i].block = 0 => u.sent[i] = <<>> /\ u.state[i] # "done"
  /\ \A i \in Items : IsCall(i) /\ u.state[i] # "done" =>
       ~t.calls[i].stopped /\ (t.calls[i].fed <=> u.sent[i] # <<>>)
  /\ PartsShown(slots, {"text"}) = PartsSaid(u, "message")
  /\ PartsShown(slots, {"thinking"}) = PartsSaid(u, "reasoning")

\* Text, thoughts and calls have different blocks.
LEMMA ContentApart ==
  ASSUME NEW t, NEW slots, NEW u, Content(t, slots, u)
  PROVE  /\ t.text # 0 => t.thinking = 0
         /\ \A i \in Items : t.calls[i].block # 0 =>
              t.calls[i].block # t.text /\ t.calls[i].block # t.thinking
         /\ \A i \in Items : t.calls[i].block # 0 => IsCall(i)
<1>1. /\ t.text \in {0, t.blocks} /\ t.thinking \in {0, t.blocks}
      /\ t.text # 0 => slots[t.text].kind = "text"
      /\ t.thinking # 0 => slots[t.thinking].kind = "thinking"
      /\ \A i \in Items : t.calls[i].block # 0 =>
           IsCall(i) /\ slots[t.calls[i].block].kind = ItemKind[i]
  BY DEF Content
<1> QED
  BY <1>1 DEF IsCall

\* t2 has the same blocks and no others open.
Stops(t, t2, u) ==
  /\ t2.blocks = t.blocks
  /\ t2.text \in {0, t.text} /\ t2.thinking \in {0, t.thinking}
  /\ \A i \in Items : /\ t2.calls[i].block = t.calls[i].block
                      /\ t2.calls[i].fed = t.calls[i].fed
                      /\ IsCall(i) /\ u.state[i] # "done" => ~t2.calls[i].stopped

\* Blocks are closed.
LEMMA ContentStops ==
  ASSUME NEW t, NEW p, NEW u, Content(t, p, u), NEW t2, NEW q,
         t.blocks \in Nat, Len(p) = t.blocks, SayTheSame(p, q), Stops(t, t2, u)
  PROVE  Content(t2, q, u)
<1>0. /\ t2.blocks = t.blocks
      /\ t2.text \in {0, t.text} /\ t2.thinking \in {0, t.thinking}
      /\ \A i \in Items : /\ t2.calls[i].block = t.calls[i].block
                          /\ t2.calls[i].fed = t.calls[i].fed
                          /\ IsCall(i) /\ u.state[i] # "done" => ~t2.calls[i].stopped
  BY DEF Stops
<1>1. \A s \in 1 .. t.blocks : p[s].kind = q[s].kind /\ p[s].parts = q[s].parts
  BY DEF SayTheSame
<1>2. \A K : PartsShown(p, K) = PartsShown(q, K)
  BY ShownSame
<1>3. /\ t2.text \in {0, t2.blocks} /\ t2.thinking \in {0, t2.blocks}
      /\ t2.text # 0 => q[t2.text].kind = "text"
      /\ t2.thinking # 0 => q[t2.thinking].kind = "thinking"
  <2>1. t.blocks # 0 => t.blocks \in 1 .. t.blocks
    OBVIOUS
  <2> QED
    BY <1>0, <1>1, <2>1 DEF Content
<1>4. \A i \in Items : t2.calls[i].block # 0 =>
        /\ IsCall(i) /\ t2.calls[i].block \in 1 .. t2.blocks
        /\ q[t2.calls[i].block].kind = ItemKind[i]
        /\ q[t2.calls[i].block].parts = u.sent[i]
  BY <1>0, <1>1 DEF Content
<1>5. \A i, j \in Items : t2.calls[i].block # 0 /\ t2.calls[i].block = t2.calls[j].block => i = j
  BY <1>0 DEF Content
<1>6. \A s \in 1 .. t2.blocks :
        q[s].kind \in {"call", "custom"} => \E i \in Items : t2.calls[i].block = s
  BY <1>0, <1>1 DEF Content
<1>7. \A i \in Items : IsCall(i) /\ t2.calls[i].block = 0 => u.sent[i] = <<>> /\ u.state[i] # "done"
  BY <1>0 DEF Content
<1>8. \A i \in Items : IsCall(i) /\ u.state[i] # "done" =>
        ~t2.calls[i].stopped /\ (t2.calls[i].fed <=> u.sent[i] # <<>>)
  BY <1>0 DEF Content
<1>9. PartsShown(q, {"text"}) = PartsSaid(u, "message") /\ PartsShown(q, {"thinking"}) = PartsSaid(u, "reasoning")
  BY <1>0, <1>2 DEF Content
<1> QED
  BY <1>0, <1>3, <1>4, <1>5, <1>6, <1>7, <1>8, <1>9 DEF Content

\* t2 has a block of a kind that t has not, a call's if it is one.
Begins(t, t2, n, kind, i) ==
  /\ t.blocks = n /\ t2.blocks = n + 1
  /\ t2.text = IF kind = "text" THEN n + 1 ELSE 0
  /\ t2.thinking = IF kind = "thinking" THEN n + 1 ELSE 0
  /\ kind \in {"call", "custom"} =>
       i \in Items /\ kind = ItemKind[i] /\ t.calls[i].block = 0 /\ ~t.calls[i].stopped
  /\ \A j \in Items :
       /\ t2.calls[j].block = IF kind \in {"call", "custom"} /\ j = i THEN n + 1 ELSE t.calls[j].block
       /\ t2.calls[j].fed = t.calls[j].fed /\ t2.calls[j].stopped = t.calls[j].stopped

\* A block is opened, when no text and no thought is open.
LEMMA ContentBegins ==
  ASSUME NEW t, NEW p, NEW u, Content(t, p, u), NEW t2, NEW q, NEW n \in Nat, NEW kind, NEW i,
         Extended(p, q, n, kind), Begins(t, t2, n, kind, i)
  PROVE  Content(t2, q, u)
<1>0. /\ p \in Seq(Slots) /\ Len(p) = n /\ q \in Seq(Slots) /\ Len(q) = n + 1
      /\ \A s \in 1 .. n : q[s].kind = p[s].kind /\ q[s].parts = p[s].parts
      /\ q[n + 1].kind = kind /\ q[n + 1].parts = <<>>
  BY DEF Extended
<1>0a. /\ t.blocks = n /\ t2.blocks = n + 1
       /\ t2.text = IF kind = "text" THEN n + 1 ELSE 0
       /\ t2.thinking = IF kind = "thinking" THEN n + 1 ELSE 0
       /\ kind \in {"call", "custom"} =>
            i \in Items /\ kind = ItemKind[i] /\ t.calls[i].block = 0 /\ ~t.calls[i].stopped
       /\ \A j \in Items :
            /\ t2.calls[j].block = IF kind \in {"call", "custom"} /\ j = i THEN n + 1 ELSE t.calls[j].block
            /\ t2.calls[j].fed = t.calls[j].fed /\ t2.calls[j].stopped = t.calls[j].stopped
  BY DEF Begins
<1>1. \A K : PartsShown(q, K) = PartsShown(p, K)
  BY <1>0, <1>0a, ShownNew
<1>2. \A s \in 1 .. n : s \in 1 .. n + 1 /\ s # n + 1
  OBVIOUS
<1>2a. n + 1 # 0 /\ n + 1 \in 1 .. n + 1 /\ \A s \in 1 .. n + 1 : s # n + 1 => s \in 1 .. n
  OBVIOUS
<1>3. /\ t2.text \in {0, t2.blocks} /\ t2.thinking \in {0, t2.blocks}
      /\ t2.text # 0 => q[t2.text].kind = "text"
      /\ t2.thinking # 0 => q[t2.thinking].kind = "thinking"
  BY <1>0, <1>0a, <1>2a
<1>4. ASSUME NEW j \in Items, t2.calls[j].block # 0
      PROVE  /\ IsCall(j) /\ t2.calls[j].block \in 1 .. t2.blocks
             /\ q[t2.calls[j].block].kind = ItemKind[j]
             /\ q[t2.calls[j].block].parts = u.sent[j]
  <2>1. CASE kind \in {"call", "custom"} /\ j = i
    <3>1. t2.calls[j].block = n + 1 /\ t.calls[j].block = 0 /\ kind = ItemKind[j]
      BY <1>0, <1>0a, <2>1
    <3>2. IsCall(j)
      BY <1>0, <1>0a, <2>1, <3>1 DEF IsCall
    <3>3. u.sent[j] = <<>>
      BY <1>0, <1>0a, <3>1, <3>2 DEF Content
    <3> QED
      BY <1>0, <1>0a, <1>2a, <3>1, <3>2, <3>3
  <2>2. CASE ~(kind \in {"call", "custom"} /\ j = i)
    <3>1. t2.calls[j].block = t.calls[j].block
      BY <1>0, <1>0a, <2>2
    <3>2. /\ IsCall(j) /\ t.calls[j].block \in 1 .. n
          /\ p[t.calls[j].block].kind = ItemKind[j]
          /\ p[t.calls[j].block].parts = u.sent[j]
      BY <1>0, <1>0a, <1>4, <3>1 DEF Content
    <3> QED
      BY <1>0, <1>0a, <1>2, <3>1, <3>2
  <2> QED
    BY <1>0, <1>0a, <2>1, <2>2
<1>5. ASSUME NEW j \in Items, NEW k \in Items, t2.calls[j].block # 0,
             t2.calls[j].block = t2.calls[k].block
      PROVE  j = k
  <2>1. \A m \in Items : t.calls[m].block # 0 => t.calls[m].block # n + 1
    <3>1. \A m \in Items : t.calls[m].block # 0 => t.calls[m].block \in 1 .. n
      BY <1>0, <1>0a DEF Content
    <3> QED
      BY <1>0, <1>0a, <1>2, <3>1
  <2>2. t.calls[j].block # 0 /\ t.calls[j].block = t.calls[k].block => j = k
    BY <1>0, <1>0a DEF Content
  <2> QED
    BY <1>0, <1>0a, <1>2a, <1>5, <2>1, <2>2
<1>6. ASSUME NEW s \in 1 .. t2.blocks, q[s].kind \in {"call", "custom"}
      PROVE  \E j \in Items : t2.calls[j].block = s
  <2>1. CASE s = n + 1
    BY <1>0, <1>0a, <1>6, <2>1
  <2>2. CASE s # n + 1
    <3>1. s \in 1 .. n /\ p[s].kind \in {"call", "custom"}
      BY <1>0, <1>0a, <1>2a, <1>6, <2>2
    <3>2. PICK j \in Items : t.calls[j].block = s
      BY <1>0, <1>0a, <3>1 DEF Content
    <3>3. t.calls[j].block # 0
      BY <1>0, <1>0a, <3>1, <3>2
    <3>4. t2.calls[j].block = s
      BY <1>0, <1>0a, <3>2, <3>3
    <3> QED
      BY <1>0, <1>0a, <3>4
  <2> QED
    BY <1>0, <1>0a, <2>1, <2>2
<1>7. \A j \in Items : IsCall(j) /\ t2.calls[j].block = 0 => u.sent[j] = <<>> /\ u.state[j] # "done"
  BY <1>0, <1>0a, <1>2a DEF Content
<1>8. \A j \in Items : IsCall(j) /\ u.state[j] # "done" =>
        ~t2.calls[j].stopped /\ (t2.calls[j].fed <=> u.sent[j] # <<>>)
  BY <1>0, <1>0a DEF Content
<1>9. PartsShown(q, {"text"}) = PartsSaid(u, "message") /\ PartsShown(q, {"thinking"}) = PartsSaid(u, "reasoning")
  BY <1>0, <1>0a, <1>1 DEF Content
<1> QED
  BY <1>0, <1>0a, <1>3, <1>4, <1>5, <1>6, <1>7, <1>8, <1>9 DEF Content

\* What slot b of p says is the end of what was said of kind k, if it is of that kind.
Follows(p, b, x, u, w, k, K) ==
  /\ p[b].kind \in K => b = Len(p) /\ PartsSaid(w, k) = PartsSaid(u, k) \o x
  /\ p[b].kind \notin K => PartsSaid(w, k) = PartsSaid(u, k)

\* Slots and upstream say the same more.
LEMMA SlotSays ==
  ASSUME NEW p, NEW q, NEW b, NEW x, Lengthened(p, q, b, x), NEW u, NEW w, NEW k, NEW K,
         PartsShown(p, K) = PartsSaid(u, k), Follows(p, b, x, u, w, k, K)
  PROVE  PartsShown(q, K) = PartsSaid(w, k)
<1>1. /\ p[b].kind \notin K => PartsShown(q, K) = PartsShown(p, K)
      /\ p[b].kind \in K /\ b = Len(p) => PartsShown(q, K) = PartsShown(p, K) \o x
  <2>1. ShowsMore(p, q, b, x, K)
    BY ShownLonger
  <2> QED
    BY <2>1 DEF ShowsMore
<1>2. CASE p[b].kind \in K
  <2>1. b = Len(p) /\ PartsSaid(w, k) = PartsSaid(u, k) \o x
    BY <1>2 DEF Follows
  <2>2. PartsShown(q, K) = PartsShown(p, K) \o x
    BY <1>1, <1>2, <2>1
  <2> QED
    BY <2>1, <2>2
<1>3. CASE p[b].kind \notin K
  BY <1>1, <1>3 DEF Follows
<1> QED
  BY <1>2, <1>3

\* The blocks stay, and the item of block b has sent x too.
Hears(t, t2, u, w, b, x) ==
  /\ t2.blocks = t.blocks /\ t2.text = t.text /\ t2.thinking = t.thinking
  /\ \A j \in Items : /\ t2.calls[j].block = t.calls[j].block
                      /\ t2.calls[j].stopped = t.calls[j].stopped
  /\ \A j \in Items : IsCall(j) =>
       /\ w.sent[j] = IF t.calls[j].block = b THEN u.sent[j] \o x ELSE u.sent[j]
       /\ t.calls[j].block = 0 => w.state[j] # "done"
       /\ w.state[j] # "done" =>
            ~t2.calls[j].stopped /\ (t2.calls[j].fed <=> w.sent[j] # <<>>)

\* One slot says more, and so does the upstream.
LEMMA ContentSays ==
  ASSUME NEW t, NEW p, NEW u, Content(t, p, u), NEW t2, NEW q, NEW w, NEW n \in Nat, t.blocks = n,
         Len(p) = n, NEW b \in 1 .. n, NEW x \in Seq(Nat), Lengthened(p, q, b, x),
         PartsShown(q, {"text"}) = PartsSaid(w, "message"), PartsShown(q, {"thinking"}) = PartsSaid(w, "reasoning"),
         Hears(t, t2, u, w, b, x)
  PROVE  Content(t2, q, w)
<1>p. p \in Seq(Slots)
  BY DEF Lengthened
<1>q. q \in Seq(Slots)
  BY DEF Lengthened
<1>l. Len(q) = n
  BY DEF Lengthened
<1>s. \A s \in 1 .. n : /\ q[s].kind = p[s].kind
                        /\ s # b => q[s].parts = p[s].parts
  BY DEF Lengthened
<1>b. q[b].parts = p[b].parts \o x
  BY DEF Lengthened
<1>0a. /\ t2.blocks = n /\ t2.text = t.text /\ t2.thinking = t.thinking
       /\ \A j \in Items : t2.calls[j].block = t.calls[j].block
       /\ \A j \in Items : IsCall(j) =>
            /\ w.sent[j] = IF t.calls[j].block = b THEN u.sent[j] \o x ELSE u.sent[j]
            /\ t.calls[j].block = 0 => w.state[j] # "done"
            /\ w.state[j] # "done" =>
                 ~t2.calls[j].stopped /\ (t2.calls[j].fed <=> w.sent[j] # <<>>)
  BY DEF Hears
<1>2. /\ t.text # 0 => t.text \in 1 .. n
      /\ t.thinking # 0 => t.thinking \in 1 .. n
  <2>1. t.text \in {0, n} /\ t.thinking \in {0, n}
    BY <1>p, <1>q, <1>l, <1>s, <1>b, <1>0a DEF Content
  <2> QED
    BY <1>p, <1>q, <1>l, <1>s, <1>b, <1>0a, <2>1
<1>3. /\ t2.text \in {0, t2.blocks} /\ t2.thinking \in {0, t2.blocks}
      /\ t2.text # 0 => q[t2.text].kind = "text"
      /\ t2.thinking # 0 => q[t2.thinking].kind = "thinking"
  BY <1>p, <1>q, <1>l, <1>s, <1>b, <1>0a, <1>2 DEF Content
<1>4. ASSUME NEW j \in Items, t2.calls[j].block # 0
      PROVE  /\ IsCall(j) /\ t2.calls[j].block \in 1 .. t2.blocks
             /\ q[t2.calls[j].block].kind = ItemKind[j]
             /\ q[t2.calls[j].block].parts = w.sent[j]
  <2>1. t2.calls[j].block = t.calls[j].block
    BY <1>p, <1>q, <1>l, <1>s, <1>b, <1>0a
  <2>2. /\ IsCall(j) /\ t.calls[j].block \in 1 .. n
        /\ p[t.calls[j].block].kind = ItemKind[j]
        /\ p[t.calls[j].block].parts = u.sent[j]
    BY <1>p, <1>q, <1>l, <1>s, <1>b, <1>0a, <1>4, <2>1 DEF Content
  <2>3. CASE t.calls[j].block = b
    BY <1>p, <1>q, <1>l, <1>s, <1>b, <1>0a, <2>1, <2>2, <2>3
  <2>4. CASE t.calls[j].block # b
    BY <1>p, <1>q, <1>l, <1>s, <1>b, <1>0a, <2>1, <2>2, <2>4
  <2> QED
    BY <1>p, <1>q, <1>l, <1>s, <1>b, <1>0a, <2>3, <2>4
<1>5. \A i, j \in Items : t2.calls[i].block # 0 /\ t2.calls[i].block = t2.calls[j].block => i = j
  BY <1>p, <1>q, <1>l, <1>s, <1>b, <1>0a DEF Content
<1>6. ASSUME NEW s \in 1 .. n, q[s].kind \in {"call", "custom"}
      PROVE  \E i \in Items : t2.calls[i].block = s
  <2>1. p[s].kind \in {"call", "custom"}
    BY <1>p, <1>q, <1>l, <1>s, <1>b, <1>0a, <1>6
  <2>2. PICK i \in Items : t.calls[i].block = s
    BY <1>p, <1>q, <1>l, <1>s, <1>b, <1>0a, <2>1 DEF Content
  <2> QED
    BY <1>p, <1>q, <1>l, <1>s, <1>b, <1>0a, <2>2
<1>7. \A i \in Items : IsCall(i) /\ t2.calls[i].block = 0 => w.sent[i] = <<>> /\ w.state[i] # "done"
  <2> SUFFICES ASSUME NEW i \in Items, IsCall(i), t2.calls[i].block = 0
               PROVE  w.sent[i] = <<>> /\ w.state[i] # "done"
    BY <1>p, <1>q, <1>l, <1>s, <1>b, <1>0a
  <2>1. t.calls[i].block = 0 /\ 0 # b
    BY <1>p, <1>q, <1>l, <1>s, <1>b, <1>0a
  <2>2. w.sent[i] = u.sent[i] /\ w.state[i] # "done"
    BY <1>p, <1>q, <1>l, <1>s, <1>b, <1>0a, <2>1
  <2> QED
    BY <1>p, <1>q, <1>l, <1>s, <1>b, <1>0a, <2>1, <2>2 DEF Content
<1>8. \A i \in Items : IsCall(i) /\ w.state[i] # "done" =>
        ~t2.calls[i].stopped /\ (t2.calls[i].fed <=> w.sent[i] # <<>>)
  BY <1>p, <1>q, <1>l, <1>s, <1>b, <1>0a
<1> QED
  BY <1>p, <1>q, <1>l, <1>s, <1>b, <1>0a, <1>3, <1>4, <1>5, <1>6, <1>7, <1>8 DEF Content

\* The upstream goes on without anything that is passed on.
LEMMA ContentHears ==
  ASSUME NEW t, NEW p, NEW u, Content(t, p, u), NEW w,
         PartsSaid(w, "message") = PartsSaid(u, "message"), PartsSaid(w, "reasoning") = PartsSaid(u, "reasoning"),
         \A j \in Items : IsCall(j) =>
           /\ w.sent[j] = u.sent[j]
           /\ t.calls[j].block = 0 => w.state[j] # "done"
           /\ w.state[j] # "done" => u.state[j] # "done"
  PROVE  Content(t, p, w)
BY DEF Content

\* The assembler base once it has been told what t has to tell, and t beside it.
Told(base, t) == AssembleAll(base, t.out)

\* A translator and the assembler that is told all that it tells go with what was heard.
Paired(base, t, u) ==
  /\ Translator(t)
  /\ Board(Told(base, t), t.blocks, OpenBlocks(t))
  /\ Content(t, Told(base, t).slots, u)

\* t2 has one event more to tell.
Tells(t, t2, event) == t2.out = t.out \o <<event>>

\* One event more is assembled after the others.
LEMMA TellsOne ==
  ASSUME NEW base, NEW t, Translator(t), NEW event \in Events, NEW t2, Tells(t, t2, event)
  PROVE  Told(base, t2) = Assemble(Told(base, t), event)
<1>1. t.out \in Seq(Events)
  BY DEF Translator
<1>2. AssembleAll(base, t.out \o <<event>>) = Assemble(AssembleAll(base, t.out), event)
  BY <1>1, AssembleNext
<1> QED
  BY <1>2 DEF Told, Tells

\* What the translator tells are events.
LEMMA EventsAre ==
  /\ \A B \in SUBSET Nat : BlockStops(B) \in Events
  /\ \A b \in Nat : BlockStop(b) \in Events
  /\ \A b \in Nat, kind \in Kinds : BlockBegin(b, kind) \in Events
  /\ \A b \in Nat, kind \in {"text", "thinking", "arguments"}, x \in Seq(Nat) : Piece(b, kind, x) \in Events
  /\ \A reason \in {"tool_use", "max_tokens", "end_turn"} : [e |-> "message_delta", reason |-> reason] \in Events
  /\ [e |-> "message_stop"] \in Events /\ [e |-> "message_start"] \in Events
BY DEF Events, BlockStops, BlockStop, BlockBegin, Piece

\* Blocks stop.
LEMMA PairedStops ==
  ASSUME NEW base, NEW t, NEW u, Paired(base, t, u), NEW t2, Translator(t2), NEW B \in SUBSET Nat,
         Tells(t, t2, BlockStops(B)), OpenBlocks(t2) = OpenBlocks(t) \ B, Stops(t, t2, u)
  PROVE  Paired(base, t2, u)
<1> DEFINE v == Told(base, t)
           w == Told(base, t2)
<1>1. Translator(t) /\ Board(v, t.blocks, OpenBlocks(t)) /\ Content(t, v.slots, u)
  BY DEF Paired
<1>2. w = Assemble(v, BlockStops(B))
  <2>1. BlockStops(B) \in Events
    BY EventsAre
  <2> QED
    BY <1>1, <2>1, TellsOne
<1> HIDE DEF v, w
<1>3. w = CompleteBlocks(v, B)
  <2>1. v.final = "open"
    BY <1>1 DEF Board
  <2> QED
    BY <1>2, <2>1 DEF Assemble, BlockStops
<1>5. t.blocks \in Nat /\ Len(v.slots) = t.blocks
  BY <1>1 DEF Board
<1>4. Board(w, t.blocks, OpenBlocks(t2)) /\ SayTheSame(v.slots, w.slots)
  <2>1. /\ Board(CompleteBlocks(v, B), t.blocks, OpenBlocks(t) \ B)
        /\ SayTheSame(v.slots, CompleteBlocks(v, B).slots)
    BY <1>1, <1>5, BoardStops
  <2> QED
    BY <1>3, <2>1
<1>6. Content(t2, w.slots, u)
  BY <1>1, <1>4, <1>5, ContentStops
<1>7. t2.blocks = t.blocks
  BY DEF Stops
<1> QED
  BY <1>4, <1>6, <1>7 DEF Paired, w

\* A block begins when no text and no thought is open.
Quiets(t, t2, n, kind, i) ==
  /\ n \in Nat /\ kind \in {"text", "thinking", "call", "custom"}
  /\ t.text = 0 /\ t.thinking = 0 /\ Begins(t, t2, n, kind, i)

\* Then it is open, with those that are open already.
LEMMA OpenBegins ==
  ASSUME NEW t, NEW t2, NEW n, NEW i, NEW kind, Quiets(t, t2, n, kind, i), NEW m, m = n + 1
  PROVE  OpenBlocks(t2) = OpenBlocks(t) \cup {m}
<1>0. /\ n \in Nat /\ kind \in {"text", "thinking", "call", "custom"}
      /\ t.text = 0 /\ t.thinking = 0 /\ Begins(t, t2, n, kind, i)
  BY DEF Quiets
<1>1. n + 1 # 0
  BY <1>0
<1>2. CASE kind \in {"text", "thinking"}
  <2>1. {t2.text, t2.thinking} \ {0} = {n + 1} /\ {t.text, t.thinking} \ {0} = {}
    BY <1>0, <1>1, <1>2 DEF Begins
  <2>2. \A j \in Items : t2.calls[j].block = t.calls[j].block /\ t2.calls[j].stopped = t.calls[j].stopped
    BY <1>0, <1>2 DEF Begins
  <2>3. OpenCalls(t2) = OpenCalls(t)
    BY <2>2 DEF OpenCalls
  <2>4. {t2.calls[j].block : j \in OpenCalls(t2)} = {t.calls[j].block : j \in OpenCalls(t)}
    BY <2>2, <2>3 DEF OpenCalls
  <2> QED
    BY <1>0, <2>1, <2>4 DEF OpenBlocks
<1>3. CASE kind \in {"call", "custom"}
  <2>1. {t2.text, t2.thinking} \ {0} = {} /\ {t.text, t.thinking} \ {0} = {}
    BY <1>0, <1>3 DEF Begins
  <2>2. /\ i \in Items /\ t.calls[i].block = 0 /\ ~t.calls[i].stopped
        /\ t2.calls[i].block = n + 1 /\ ~t2.calls[i].stopped
        /\ \A j \in Items : j # i => /\ t2.calls[j].block = t.calls[j].block
                                    /\ t2.calls[j].stopped = t.calls[j].stopped
    BY <1>0, <1>3 DEF Begins
  <2>3. OpenCalls(t2) = OpenCalls(t) \cup {i}
    BY <1>1, <2>2 DEF OpenCalls
  <2>4. i \notin OpenCalls(t) /\ OpenCalls(t) \in SUBSET Items
    BY <2>2 DEF OpenCalls
  <2>5. \A j \in OpenCalls(t) : t2.calls[j].block = t.calls[j].block
    BY <2>2, <2>4
  <2>6. {t2.calls[j].block : j \in OpenCalls(t2)} = {t.calls[j].block : j \in OpenCalls(t)} \cup {n + 1}
    BY <2>2, <2>3, <2>5
  <2> QED
    BY <1>0, <2>1, <2>6 DEF OpenBlocks
<1> QED
  BY <1>0, <1>2, <1>3

\* A block begins.
LEMMA PairedBegins ==
  ASSUME NEW base, NEW t, NEW u, Paired(base, t, u), NEW t2, Translator(t2), NEW i,
         NEW kind \in {"text", "thinking", "call", "custom"}, t.text = 0, t.thinking = 0,
         Tells(t, t2, BlockBegin(t.blocks + 1, kind)), Begins(t, t2, t.blocks, kind, i)
  PROVE  Paired(base, t2, u)
<1> DEFINE v == Told(base, t)
           w == Told(base, t2)
           n == t.blocks
<1>1. Translator(t) /\ Board(v, n, OpenBlocks(t)) /\ Content(t, v.slots, u)
  BY DEF Paired
<1>2. n \in Nat
  BY <1>1 DEF Translator
<1>2a. kind \in Kinds /\ n + 1 \in Nat
  BY <1>2 DEF Kinds
<1>3. w = Assemble(v, BlockBegin(n + 1, kind))
  <2>1. BlockBegin(n + 1, kind) \in Events
    BY <1>2a, EventsAre
  <2> QED
    BY <1>1, <2>1, TellsOne
<1>0. t2.blocks = n + 1 /\ Begins(t, t2, n, kind, i)
  BY DEF Begins
<1> HIDE DEF v, w, n
<1>4. Board(w, n + 1, OpenBlocks(t) \cup {n + 1}) /\ Extended(v.slots, w.slots, n, kind)
  BY <1>1, <1>2, <1>2a, <1>3, BoardStarts
<1>5. OpenBlocks(t2) = OpenBlocks(t) \cup {n + 1}
  <2> DEFINE next == n + 1
  <2>1. Quiets(t, t2, n, kind, i)
    BY <1>0, <1>2 DEF Quiets
  <2>2. next = n + 1
    OBVIOUS
  <2> HIDE DEF next
  <2>3. OpenBlocks(t2) = OpenBlocks(t) \cup {next}
    BY <2>1, <2>2, OpenBegins
  <2> QED
    BY <2>2, <2>3
<1>6. Content(t2, w.slots, u)
  BY <1>0, <1>1, <1>2, <1>4, ContentBegins
<1> QED
  BY <1>0, <1>4, <1>5, <1>6 DEF Paired, w

\* A block that is opened and closed at once.
LEMMA PairedSeals ==
  ASSUME NEW base, NEW t, NEW u, Paired(base, t, u), NEW t1, Translator(t1), NEW t2, Translator(t2),
         t.text = 0, t.thinking = 0, NEW i, Begins(t, t1, t.blocks, "redacted", i),
         Tells(t, t1, BlockBegin(t.blocks + 1, "redacted")),
         Tells(t1, t2, BlockStop(t.blocks + 1)),
         t2.blocks = t1.blocks, t2.text = 0, t2.thinking = 0, t2.calls = t.calls
  PROVE  Paired(base, t2, u)
<1> DEFINE n == t.blocks
           v == Told(base, t)
           v1 == Told(base, t1)
           w == Told(base, t2)
<1>1. Translator(t) /\ Board(v, n, OpenBlocks(t)) /\ Content(t, v.slots, u)
  BY DEF Paired
<1>2. n \in Nat
  BY <1>1 DEF Translator
<1>2a. "redacted" \in Kinds /\ n + 1 \in Nat
  BY <1>2 DEF Kinds
<1>3. BlockBegin(n + 1, "redacted") \in Events /\ BlockStop(n + 1) \in Events
  BY <1>2a, EventsAre
<1>3a. v1 = Assemble(v, BlockBegin(n + 1, "redacted"))
  BY <1>1, <1>3, TellsOne
<1>3c. w = Assemble(v1, BlockStop(n + 1))
  BY <1>3, TellsOne
<1>0. t1.blocks = n + 1 /\ Begins(t, t1, n, "redacted", i) /\ t2.blocks = n + 1
  BY DEF Begins
<1> HIDE DEF v, w, v1, n
<1>4. Board(v1, n + 1, OpenBlocks(t) \cup {n + 1}) /\ Extended(v.slots, v1.slots, n, "redacted")
  BY <1>1, <1>2, <1>2a, <1>3a, BoardStarts
<1>5. v1.final = "open" /\ Len(v1.slots) = n + 1
  BY <1>4 DEF Board
<1>5a. OpenBlocks(t) \in SUBSET (1 .. n)
  BY <1>1 DEF Board
<1>6. w = CompleteBlocks(v1, {n + 1})
  BY <1>3c, <1>5 DEF Assemble, BlockStops, BlockStop
<1>7. Board(w, n + 1, (OpenBlocks(t) \cup {n + 1}) \ {n + 1}) /\ SayTheSame(v1.slots, w.slots)
  BY <1>2, <1>4, <1>6, BoardStops
<1>8. (OpenBlocks(t) \cup {n + 1}) \ {n + 1} = OpenBlocks(t)
  BY <1>2, <1>5a
<1>9. OpenBlocks(t2) = OpenBlocks(t)
  BY DEF OpenBlocks, OpenCalls
<1>10. Extended(v.slots, w.slots, n, "redacted")
  <2>1. w.slots \in Seq(Slots) /\ Len(w.slots) = n + 1
    BY <1>7 DEF Board
  <2>2. \A s \in 1 .. n + 1 : v1.slots[s].kind = w.slots[s].kind /\ v1.slots[s].parts = w.slots[s].parts
    BY <1>5, <1>7 DEF SayTheSame
  <2>3. n + 1 \in 1 .. n + 1 /\ \A s \in 1 .. n : s \in 1 .. n + 1
    BY <1>2
  <2> QED
    BY <1>4, <2>1, <2>2, <2>3 DEF Extended
<1>11. Begins(t, t2, n, "redacted", i)
  <2>1. t.blocks = n
    BY DEF n
  <2> QED
    BY <1>0, <2>1 DEF Begins
<1>13. Content(t2, w.slots, u)
  BY <1>1, <1>2, <1>10, <1>11, ContentBegins
<1>14. Board(w, t2.blocks, OpenBlocks(t2))
  BY <1>0, <1>7, <1>8, <1>9
<1> QED
  BY <1>13, <1>14 DEF Paired, w

\* One of the two sorts of words has become longer, or none.
SaysAlso(u, w, b, t, x) ==
  /\ b = t.text => PartsSaid(w, "message") = PartsSaid(u, "message") \o x
  /\ b # t.text => PartsSaid(w, "message") = PartsSaid(u, "message")
  /\ b = t.thinking => PartsSaid(w, "reasoning") = PartsSaid(u, "reasoning") \o x
  /\ b # t.thinking => PartsSaid(w, "reasoning") = PartsSaid(u, "reasoning")

\* An open block says more.
LEMMA PairedSays ==
  ASSUME NEW base, NEW t, NEW u, Paired(base, t, u), NEW w, NEW t2, Translator(t2),
         NEW b \in OpenBlocks(t), NEW kind \in {"text", "thinking", "arguments"}, NEW x \in Seq(Nat),
         Tells(t, t2, Piece(b, kind, x)), SaysAlso(u, w, b, t, x), Hears(t, t2, u, w, b, x)
  PROVE  Paired(base, t2, w)
<1> DEFINE v == Told(base, t)
           v2 == Told(base, t2)
           n == t.blocks
           p == v.slots
           q == v2.slots
<1>1. Translator(t) /\ Board(v, n, OpenBlocks(t)) /\ Content(t, p, u)
  BY DEF Paired
<1>2. n \in Nat /\ OpenBlocks(t) \in SUBSET (1 .. n) /\ Len(p) = n
  BY <1>1 DEF Board
<1>8. b \in 1 .. n /\ b # 0
  BY <1>2
<1>3. v2 = Assemble(v, Piece(b, kind, x))
  <2>1. Piece(b, kind, x) \in Events
    <3>1. b \in Nat
      BY <1>2
    <3> QED
      BY <3>1, EventsAre
  <2> QED
    BY <1>1, <2>1, TellsOne
<1> HIDE DEF v, v2
<1>4. Board(v2, n, OpenBlocks(t)) /\ Lengthened(p, q, b, x)
  BY <1>1, <1>2, <1>3, BoardFeeds
<1>6. OpenBlocks(t2) = OpenBlocks(t)
  <2>1. OpenCalls(t2) = OpenCalls(t) /\ OpenCalls(t) \in SUBSET Items
    BY DEF OpenCalls, Hears
  <2>2. {t2.calls[j].block : j \in OpenCalls(t2)} = {t.calls[j].block : j \in OpenCalls(t)}
    <3>1. \A j \in OpenCalls(t) : t2.calls[j].block = t.calls[j].block
      BY <2>1 DEF Hears
    <3> QED
      BY <2>1, <3>1
  <2>3. t2.text = t.text /\ t2.thinking = t.thinking
    BY DEF Hears
  <2> QED
    BY <2>2, <2>3 DEF OpenBlocks
<1>7. /\ p[b].kind = "text" => b = t.text /\ b = n
      /\ p[b].kind # "text" => b # t.text
      /\ p[b].kind = "thinking" => b = t.thinking /\ b = n
      /\ p[b].kind # "thinking" => b # t.thinking
  <2>2. /\ t.text # 0 => p[t.text].kind = "text" /\ t.text = n
        /\ t.thinking # 0 => p[t.thinking].kind = "thinking" /\ t.thinking = n
    BY <1>1 DEF Content
  <2>3. b = t.text \/ b = t.thinking \/ \E i \in Items : b = t.calls[i].block
    BY DEF OpenBlocks, OpenCalls
  <2>4. ASSUME NEW i \in Items, b = t.calls[i].block PROVE p[b].kind \in {"call", "custom"}
    BY <1>1, <1>8, <2>4 DEF Content, IsCall
  <2> QED
    BY <1>8, <2>2, <2>3, <2>4
<1> HIDE DEF p, q, n
<1>10. PartsShown(q, {"text"}) = PartsSaid(w, "message")
  <2>1. PartsShown(p, {"text"}) = PartsSaid(u, "message")
    BY <1>1 DEF Content
  <2>2. p[b].kind \in {"text"} => b = Len(p) /\ PartsSaid(w, "message") = PartsSaid(u, "message") \o x
    BY <1>2, <1>7 DEF SaysAlso
  <2>3. p[b].kind \notin {"text"} => PartsSaid(w, "message") = PartsSaid(u, "message")
    BY <1>7 DEF SaysAlso
  <2> DEFINE K == {"text"}
  <2>4. PartsShown(p, K) = PartsSaid(u, "message") /\ Follows(p, b, x, u, w, "message", K)
    BY <2>1, <2>2, <2>3 DEF Follows
  <2> HIDE DEF K
  <2>5. PartsShown(q, K) = PartsSaid(w, "message")
    BY <1>4, <2>4, SlotSays
  <2> QED
    BY <2>5 DEF K
<1>11. PartsShown(q, {"thinking"}) = PartsSaid(w, "reasoning")
  <2>1. PartsShown(p, {"thinking"}) = PartsSaid(u, "reasoning")
    BY <1>1 DEF Content
  <2>2. p[b].kind \in {"thinking"} => b = Len(p) /\ PartsSaid(w, "reasoning") = PartsSaid(u, "reasoning") \o x
    BY <1>2, <1>7 DEF SaysAlso
  <2>3. p[b].kind \notin {"thinking"} => PartsSaid(w, "reasoning") = PartsSaid(u, "reasoning")
    BY <1>7 DEF SaysAlso
  <2> DEFINE K == {"thinking"}
  <2>4. PartsShown(p, K) = PartsSaid(u, "reasoning") /\ Follows(p, b, x, u, w, "reasoning", K)
    BY <2>1, <2>2, <2>3 DEF Follows
  <2> HIDE DEF K
  <2>5. PartsShown(q, K) = PartsSaid(w, "reasoning")
    BY <1>4, <2>4, SlotSays
  <2> QED
    BY <2>5 DEF K
<1>0. t.blocks = n /\ t2.blocks = n
  BY DEF n, Hears
<1>12. Content(t2, q, w)
  BY <1>0, <1>1, <1>2, <1>4, <1>8, <1>10, <1>11, ContentSays
<1>13. Board(v2, t2.blocks, OpenBlocks(t2))
  BY <1>0, <1>4, <1>6
<1> QED
  BY <1>12, <1>13 DEF Paired, q, v2

\* What a translator is, field by field.
Calls == [block : Nat, fed : BOOLEAN, stopped : BOOLEAN]
Literally(t, blocks, text, thinking, calls, out) ==
  t = [blocks |-> blocks, text |-> text, thinking |-> thinking, calls |-> calls,
       completed |-> t.completed, out |-> out]

\* A translator with one event more.
Goes(t, t2, event, blocks, text, thinking, calls) ==
  Literally(t2, blocks, text, thinking, calls, t.out \o <<event>>)

\* Fields a translator may have.
Sensible(blocks, text, thinking, calls) ==
  blocks \in Nat /\ text \in Nat /\ thinking \in Nat /\ calls \in [Items -> Calls]

\* A translator that has told one event more, whatever blocks it has now.
LEMMA Telling ==
  ASSUME NEW t, Translator(t), NEW event \in Events, NEW t2, NEW blocks, NEW text, NEW thinking, NEW calls,
         Sensible(blocks, text, thinking, calls),
         Goes(t, t2, event, blocks, text, thinking, calls)
  PROVE  /\ Translator(t2) /\ Tells(t, t2, event)
         /\ t2.blocks = blocks /\ t2.text = text /\ t2.thinking = thinking /\ t2.calls = calls
<1> DEFINE out == t.out \o <<event>>
<1>1. out \in Seq(Events)
  BY DEF Translator
<1>2. Tells(t, t2, event)
  BY DEF Tells, Literally, Goes
<1>3. Literally(t2, blocks, text, thinking, calls, out)
  BY DEF Goes
<1> HIDE DEF out
<1>4. /\ t2.blocks = blocks /\ t2.text = text /\ t2.thinking = thinking /\ t2.calls = calls
      /\ t2.out = out
  BY <1>3 DEF Literally
<1>5. t2 = [blocks |-> t2.blocks, text |-> t2.text, thinking |-> t2.thinking, calls |-> t2.calls,
            completed |-> t2.completed, out |-> t2.out]
  BY <1>3, <1>4 DEF Literally
<1> QED
  BY <1>1, <1>2, <1>4, <1>5 DEF Translator, Calls, Sensible

\* A translator is what its fields say.
LEMMA Translators ==
  ASSUME NEW t, Translator(t)
  PROVE  /\ t.blocks \in Nat /\ t.text \in Nat /\ t.thinking \in Nat
         /\ t.calls \in [Items -> Calls] /\ t.out \in Seq(Events)
         /\ Literally(t, t.blocks, t.text, t.thinking, t.calls, t.out)
BY DEF Translator, Calls, Literally

\* What is said in one block stops, and nothing else changes.
LEMMA Closes ==
  ASSUME NEW base, NEW t, NEW u, Paired(base, t, u), NEW t2, NEW b \in Nat \ {0}, NEW text, NEW thinking,
         \/ b = t.text /\ text = 0 /\ thinking = t.thinking
         \/ b = t.thinking /\ thinking = 0 /\ text = t.text,
         Goes(t, t2, BlockStop(b), t.blocks, text, thinking, t.calls)
  PROVE  /\ Paired(base, t2, u)
         /\ t2.blocks = t.blocks /\ t2.text = text /\ t2.thinking = thinking /\ t2.calls = t.calls
<1>1. Translator(t) /\ Content(t, Told(base, t).slots, u)
  BY DEF Paired
<1>2. /\ t.blocks \in Nat /\ t.text \in Nat /\ t.thinking \in Nat /\ t.calls \in [Items -> Calls]
  BY <1>1, Translators
<1>3. Sensible(t.blocks, text, thinking, t.calls)
  BY <1>2 DEF Sensible
<1>4. BlockStop(b) \in Events
  BY EventsAre
<1>5. /\ Translator(t2) /\ Tells(t, t2, BlockStop(b))
      /\ t2.blocks = t.blocks /\ t2.text = text /\ t2.thinking = thinking /\ t2.calls = t.calls
  BY <1>1, <1>2, <1>3, <1>4, Telling
<1>6. Tells(t, t2, BlockStops({b})) /\ {b} \in SUBSET Nat
  BY <1>5 DEF BlockStop
<1>7. OpenBlocks(t2) = OpenBlocks(t) \ {b}
  <2>1. /\ t.text # 0 => t.thinking = 0
        /\ \A i \in Items : t.calls[i].block # 0 => t.calls[i].block # t.text /\ t.calls[i].block # t.thinking
    BY <1>1, ContentApart
  <2>2. OpenCalls(t2) = OpenCalls(t)
    BY <1>5 DEF OpenCalls
  <2>3. \A i \in OpenCalls(t) : t.calls[i].block # b
    BY <2>1 DEF OpenCalls
  <2>4. {t2.text, t2.thinking} \ {0} = ({t.text, t.thinking} \ {0}) \ {b}
    BY <1>5, <2>1
  <2> QED
    BY <1>5, <2>2, <2>3, <2>4 DEF OpenBlocks
<1>8. Stops(t, t2, u)
  <2>1. \A i \in Items : IsCall(i) /\ u.state[i] # "done" => ~t.calls[i].stopped
    BY <1>1 DEF Content
  <2> QED
    BY <1>5, <2>1 DEF Stops
<1>9. Paired(base, t2, u)
  BY <1>5, <1>6, <1>7, <1>8, PairedStops
<1> QED
  BY <1>5, <1>9

\* Telling adds an event and changes no field.
LEMMA TellGoes ==
  ASSUME NEW t, NEW x, NEW event, NEW blocks, NEW text, NEW thinking, NEW calls,
         Literally(x, blocks, text, thinking, calls, t.out)
  PROVE  Goes(t, Tell(x, <<event>>), event, blocks, text, thinking, calls)
<1> DEFINE more == t.out \o <<event>>
           y == Tell(x, <<event>>)
<1>1. x.out = t.out
  BY DEF Literally
<1>2. y = [x EXCEPT !.out = more]
  BY <1>1 DEF Tell
<1> HIDE DEF more, y
<1>3. PICK completed : x = [blocks |-> blocks, text |-> text, thinking |-> thinking, calls |-> calls,
                            completed |-> completed, out |-> t.out]
  BY DEF Literally
<1>4. y = [blocks |-> blocks, text |-> text, thinking |-> thinking, calls |-> calls,
           completed |-> completed, out |-> more]
  BY <1>2, <1>3
<1>5. Literally(y, blocks, text, thinking, calls, more)
  BY <1>4 DEF Literally
<1> QED
  BY <1>5 DEF Goes, more, y

\* The block of thoughts closes.
LEMMA ThinkingCloses ==
  ASSUME NEW base, NEW t, NEW u, Paired(base, t, u), NEW c, c = CloseThinking(t)
  PROVE  /\ Paired(base, c, u)
         /\ c.blocks = t.blocks /\ c.text = t.text /\ c.thinking = 0 /\ c.calls = t.calls
<1>1. CASE t.thinking = 0
  BY <1>1 DEF CloseThinking
<1>2. CASE t.thinking # 0
  <2>1. Translator(t)
    BY DEF Paired
  <2>2. t.thinking \in Nat \ {0}
    BY <1>2, <2>1, Translators
  <2>3. Literally([t EXCEPT !.thinking = 0], t.blocks, t.text, 0, t.calls, t.out)
    BY <2>1, Translators DEF Literally
  <2>4. c = Tell([t EXCEPT !.thinking = 0], <<BlockStop(t.thinking)>>)
    BY <1>2 DEF CloseThinking
  <2>5. Goes(t, c, BlockStop(t.thinking), t.blocks, t.text, 0, t.calls)
    BY <2>3, <2>4, TellGoes
  <2> QED
    BY <2>2, <2>5, Closes
<1> QED
  BY <1>1, <1>2

\* The block of text closes.
LEMMA TextCloses ==
  ASSUME NEW base, NEW t, NEW u, Paired(base, t, u), NEW c, c = CloseText(t)
  PROVE  /\ Paired(base, c, u)
         /\ c.blocks = t.blocks /\ c.text = 0 /\ c.thinking = t.thinking /\ c.calls = t.calls
<1>1. CASE t.text = 0
  BY <1>1 DEF CloseText
<1>2. CASE t.text # 0
  <2>1. Translator(t)
    BY DEF Paired
  <2>2. t.text \in Nat \ {0}
    BY <1>2, <2>1, Translators
  <2>3. Literally([t EXCEPT !.text = 0], t.blocks, 0, t.thinking, t.calls, t.out)
    BY <2>1, Translators DEF Literally
  <2>4. c = Tell([t EXCEPT !.text = 0], <<BlockStop(t.text)>>)
    BY <1>2 DEF CloseText
  <2>5. Goes(t, c, BlockStop(t.text), t.blocks, 0, t.thinking, t.calls)
    BY <2>3, <2>4, TellGoes
  <2> QED
    BY <2>2, <2>5, Closes
<1> QED
  BY <1>1, <1>2

\* Both close.
LEMMA ContentCloses ==
  ASSUME NEW base, NEW t, NEW u, Paired(base, t, u), NEW c, c = CloseContentBlocks(t)
  PROVE  /\ Paired(base, c, u)
         /\ c.blocks = t.blocks /\ c.text = 0 /\ c.thinking = 0 /\ c.calls = t.calls
<1> DEFINE d == CloseThinking(t)
<1>1. /\ Paired(base, d, u)
      /\ d.blocks = t.blocks /\ d.text = t.text /\ d.thinking = 0 /\ d.calls = t.calls
  BY ThinkingCloses
<1>2. c = CloseText(d)
  BY DEF CloseContentBlocks
<1> HIDE DEF d
<1>3. /\ Paired(base, c, u)
      /\ c.blocks = d.blocks /\ c.text = 0 /\ c.thinking = d.thinking /\ c.calls = d.calls
  BY <1>1, <1>2, TextCloses
<1> QED
  BY <1>1, <1>3

\* What a block that opens makes of the blocks, when no text and no thought is open.
Opens(t, i, kind, blocks, text, thinking, calls) ==
  /\ blocks = t.blocks + 1 /\ kind \in {"text", "thinking", "call", "custom"}
  /\ t.text = 0 /\ t.thinking = 0 /\ calls \in [Items -> Calls]
  /\ text = IF kind = "text" THEN t.blocks + 1 ELSE 0
  /\ thinking = IF kind = "thinking" THEN t.blocks + 1 ELSE 0
  /\ kind \in {"call", "custom"} =>
       i \in Items /\ kind = ItemKind[i] /\ t.calls[i].block = 0 /\ ~t.calls[i].stopped
  /\ \A j \in Items :
       /\ calls[j].block =
            IF kind \in {"call", "custom"} /\ j = i THEN t.blocks + 1 ELSE t.calls[j].block
       /\ calls[j].fed = t.calls[j].fed /\ calls[j].stopped = t.calls[j].stopped

\* A block opens, for text, thoughts or a call.
LEMMA BlockBegins ==
  ASSUME NEW base, NEW t, NEW u, Paired(base, t, u), NEW t2, NEW i,
         NEW kind, NEW blocks, NEW text, NEW thinking, NEW calls,
         Goes(t, t2, BlockBegin(blocks, kind), blocks, text, thinking, calls),
         Opens(t, i, kind, blocks, text, thinking, calls)
  PROVE  /\ Paired(base, t2, u)
         /\ t2.blocks = blocks /\ t2.text = text /\ t2.thinking = thinking /\ t2.calls = calls
<1>1. Translator(t)
  BY DEF Paired
<1>2. t.blocks \in Nat
  BY <1>1, Translators
<1>0. blocks = t.blocks + 1 /\ kind \in {"text", "thinking", "call", "custom"}
  BY DEF Opens
<1>3. Sensible(blocks, text, thinking, calls)
  BY <1>2 DEF Sensible, Opens
<1>4. kind \in Kinds /\ blocks \in Nat
  BY <1>0, <1>2 DEF Kinds
<1>5. BlockBegin(blocks, kind) \in Events
  BY <1>4, EventsAre
<1>6. /\ Translator(t2) /\ Tells(t, t2, BlockBegin(blocks, kind))
      /\ t2.blocks = blocks /\ t2.text = text /\ t2.thinking = thinking /\ t2.calls = calls
  BY <1>1, <1>3, <1>5, Telling
<1>7. Begins(t, t2, t.blocks, kind, i)
  BY <1>0, <1>6 DEF Begins, Opens
<1>8. t.text = 0 /\ t.thinking = 0 /\ Tells(t, t2, BlockBegin(t.blocks + 1, kind))
  BY <1>0, <1>6 DEF Opens
<1>9. Paired(base, t2, u)
  BY <1>0, <1>6, <1>7, <1>8, PairedBegins
<1> QED
  BY <1>6, <1>9

\* w has said x more than u of one kind of words and the same of the other, and no call changes.
Adds(u, w, k, x) ==
  /\ x \in Seq(Nat)
  /\ PartsSaid(w, k) = PartsSaid(u, k) \o x
  /\ \A m \in {"message", "reasoning"} \ {k} : PartsSaid(w, m) = PartsSaid(u, m)
  /\ \A j \in Items : IsCall(j) => w.sent[j] = u.sent[j] /\ w.state[j] = u.state[j]

\* Text or thoughts have b as their open block.
Speaks(t, b, k, kind) ==
  /\ b \in Nat \ {0}
  /\ \/ k = "message" /\ kind = "text" /\ b = t.text
     \/ k = "reasoning" /\ kind = "thinking" /\ b = t.thinking

\* The open block b of text or thoughts says x.
LEMMA BlockSays ==
  ASSUME NEW base, NEW t, NEW u, Paired(base, t, u), NEW w, NEW t2, NEW b, NEW k, NEW kind,
         NEW x, Adds(u, w, k, x), Speaks(t, b, k, kind),
         Goes(t, t2, Piece(b, kind, x), t.blocks, t.text, t.thinking, t.calls)
  PROVE  /\ Paired(base, t2, w)
         /\ t2.blocks = t.blocks /\ t2.text = t.text /\ t2.thinking = t.thinking /\ t2.calls = t.calls
<1>1. Translator(t) /\ Content(t, Told(base, t).slots, u)
  BY DEF Paired
<1>2. Sensible(t.blocks, t.text, t.thinking, t.calls)
  BY <1>1, Translators DEF Sensible
<1>00. x \in Seq(Nat)
  BY DEF Adds
<1>0. /\ b \in Nat /\ b # 0
      /\ \/ k = "message" /\ kind = "text" /\ b = t.text
         \/ k = "reasoning" /\ kind = "thinking" /\ b = t.thinking
  BY DEF Speaks
<1>3. kind \in {"text", "thinking", "arguments"}
  BY <1>0
<1>4. Piece(b, kind, x) \in Events
  BY <1>0, <1>00, <1>3, EventsAre
<1>5. /\ Translator(t2) /\ Tells(t, t2, Piece(b, kind, x))
      /\ t2.blocks = t.blocks /\ t2.text = t.text /\ t2.thinking = t.thinking /\ t2.calls = t.calls
  BY <1>1, <1>2, <1>4, Telling
<1>6. /\ t.text # 0 => t.thinking = 0
      /\ \A i \in Items : t.calls[i].block # 0 => t.calls[i].block # t.text /\ t.calls[i].block # t.thinking
  BY <1>1, ContentApart
<1>7. SaysAlso(u, w, b, t, x)
  <2>1. CASE k = "message"
    <3>1. b = t.text /\ b # t.thinking
      BY <1>0, <1>6, <2>1
    <3>2. PartsSaid(w, "message") = PartsSaid(u, "message") \o x /\ PartsSaid(w, "reasoning") = PartsSaid(u, "reasoning")
      BY <2>1 DEF Adds
    <3> QED
      BY <3>1, <3>2 DEF SaysAlso
  <2>2. CASE k = "reasoning"
    <3>1. b = t.thinking /\ b # t.text
      BY <1>0, <1>6, <2>2
    <3>2. PartsSaid(w, "reasoning") = PartsSaid(u, "reasoning") \o x /\ PartsSaid(w, "message") = PartsSaid(u, "message")
      BY <2>2 DEF Adds
    <3> QED
      BY <3>1, <3>2 DEF SaysAlso
  <2> QED
    BY <1>0, <2>1, <2>2
<1>8. Hears(t, t2, u, w, b, x)
  <2>1. \A j \in Items : IsCall(j) =>
          /\ t.calls[j].block = 0 => u.state[j] # "done"
          /\ u.state[j] # "done" => ~t.calls[j].stopped /\ (t.calls[j].fed <=> u.sent[j] # <<>>)
    BY <1>1 DEF Content
  <2>2. \A j \in Items : t.calls[j].block # b
    BY <1>0, <1>6
  <2>3. \A j \in Items : IsCall(j) => w.sent[j] = u.sent[j] /\ w.state[j] = u.state[j]
    BY DEF Adds
  <2> QED
    BY <1>5, <2>1, <2>2, <2>3 DEF Hears
<1>9. b \in OpenBlocks(t)
  BY <1>0 DEF OpenBlocks
<1>10. Paired(base, t2, w)
  BY <1>00, <1>3, <1>5, <1>7, <1>8, <1>9, PairedSays
<1> QED
  BY <1>5, <1>10

\* A translator with other calls.
WithCalls(t, calls) == [t EXCEPT !.calls = calls]

\* The events of a block that opens, and what it makes of the fields.
LEMMA Beginning ==
  ASSUME NEW c, Translator(c), NEW kind
  PROVE  LET n == c.blocks + 1
             r == [c EXCEPT !.blocks = n]
             event == BlockBegin(n, kind)
         IN  /\ Literally([r EXCEPT !.text = n], n, n, c.thinking, c.calls, c.out)
             /\ Literally([r EXCEPT !.thinking = n], n, c.text, n, c.calls, c.out)
             /\ \A calls : Literally(WithCalls(r, calls), n, c.text, c.thinking, calls, c.out)
             /\ [Begin(c, kind) EXCEPT !.text = n] = Tell([r EXCEPT !.text = n], <<event>>)
             /\ [Begin(c, kind) EXCEPT !.thinking = n] = Tell([r EXCEPT !.thinking = n], <<event>>)
             /\ \A calls : WithCalls(Begin(c, kind), calls) = Tell(WithCalls(r, calls), <<event>>)
             /\ Literally(r, n, c.text, c.thinking, c.calls, c.out) /\ Begin(c, kind) = Tell(r, <<event>>)
<1> DEFINE n == c.blocks + 1
           r == [c EXCEPT !.blocks = n]
           event == BlockBegin(n, kind)
           d == Begin(c, kind)
<1>1. PICK blocks, text, thinking, calls, completed, out :
        c = [blocks |-> blocks, text |-> text, thinking |-> thinking, calls |-> calls,
             completed |-> completed, out |-> out]
  BY DEF Translator
<1>2. d = Tell(r, <<event>>)
  BY DEF Begin
<1> DEFINE more == out \o <<event>>
<1> HIDE DEF n, event, d
<1>3. r = [blocks |-> n, text |-> text, thinking |-> thinking, calls |-> calls,
           completed |-> completed, out |-> out]
  BY <1>1
<1> HIDE DEF r
<1>4. d = [r EXCEPT !.out = more]
  BY <1>2, <1>3 DEF Tell
<1>5. /\ Tell([r EXCEPT !.text = n], <<event>>) = [[r EXCEPT !.text = n] EXCEPT !.out = more]
      /\ Tell([r EXCEPT !.thinking = n], <<event>>) = [[r EXCEPT !.thinking = n] EXCEPT !.out = more]
      /\ \A f : Tell([r EXCEPT !.calls = f], <<event>>) = [[r EXCEPT !.calls = f] EXCEPT !.out = more]
  <2>1. /\ [r EXCEPT !.text = n].out = out /\ [r EXCEPT !.thinking = n].out = out
        /\ \A f : [r EXCEPT !.calls = f].out = out
    BY <1>3
  <2> QED
    BY <2>1 DEF Tell
<1> HIDE DEF more
<1>6. d = [blocks |-> n, text |-> text, thinking |-> thinking, calls |-> calls,
           completed |-> completed, out |-> more]
  BY <1>3, <1>4
<1>7. /\ Literally([r EXCEPT !.text = n], n, n, c.thinking, c.calls, c.out)
      /\ Literally([r EXCEPT !.thinking = n], n, c.text, n, c.calls, c.out)
      /\ \A f : Literally([r EXCEPT !.calls = f], n, c.text, c.thinking, f, c.out)
      /\ Literally(r, n, c.text, c.thinking, c.calls, c.out)
  BY <1>1, <1>3 DEF Literally
<1>8. [d EXCEPT !.text = n] = Tell([r EXCEPT !.text = n], <<event>>)
  <2> DEFINE x == [blocks |-> n, text |-> n, thinking |-> thinking, calls |-> calls,
              completed |-> completed, out |-> out]
             y == [blocks |-> n, text |-> n, thinking |-> thinking, calls |-> calls,
              completed |-> completed, out |-> more]
  <2>1. [r EXCEPT !.text = n] = x
    BY <1>3
  <2>2. [d EXCEPT !.text = n] = y
    BY <1>6
  <2>3. [x EXCEPT !.out = more] = y
    OBVIOUS
  <2> HIDE DEF x, y
  <2> QED
    BY <1>5, <2>1, <2>2, <2>3
<1>10. [d EXCEPT !.thinking = n] = Tell([r EXCEPT !.thinking = n], <<event>>)
  <2> DEFINE x == [blocks |-> n, text |-> text, thinking |-> n, calls |-> calls,
              completed |-> completed, out |-> out]
             y == [blocks |-> n, text |-> text, thinking |-> n, calls |-> calls,
              completed |-> completed, out |-> more]
  <2>1. [r EXCEPT !.thinking = n] = x
    BY <1>3
  <2>2. [d EXCEPT !.thinking = n] = y
    BY <1>6
  <2>3. [x EXCEPT !.out = more] = y
    OBVIOUS
  <2> HIDE DEF x, y
  <2> QED
    BY <1>5, <2>1, <2>2, <2>3
<1>9. \A f : [d EXCEPT !.calls = f] = Tell([r EXCEPT !.calls = f], <<event>>)
  <2> TAKE f
  <2> DEFINE x == [blocks |-> n, text |-> text, thinking |-> thinking, calls |-> f,
              completed |-> completed, out |-> out]
             y == [blocks |-> n, text |-> text, thinking |-> thinking, calls |-> f,
              completed |-> completed, out |-> more]
  <2>1. [r EXCEPT !.calls = f] = x
    BY <1>3
  <2>2. [d EXCEPT !.calls = f] = y
    BY <1>6
  <2>3. [x EXCEPT !.out = more] = y
    OBVIOUS
  <2> HIDE DEF x, y
  <2> QED
    BY <1>5, <2>1, <2>2, <2>3
<1> QED
  BY <1>2, <1>7, <1>8, <1>9, <1>10 DEF n, r, event, d, WithCalls

\* A text fragment is told: other blocks of content are closed, and one of text is open.
LEMMA TextGoesOn ==
  ASSUME NEW base, NEW t, NEW u, Paired(base, t, u), NEW w, NEW x,
         Adds(u, w, "message", x), NEW t2, t2 = TextDelta(t, x)
  PROVE  /\ Paired(base, t2, w)
         /\ t2.calls = t.calls /\ t2.thinking = 0 /\ t2.blocks # 0
<1> DEFINE c == CloseThinking(t)
           s == IF c.text # 0 THEN c ELSE [Begin(c, "text") EXCEPT !.text = c.blocks + 1]
<1>1. Paired(base, c, u) /\ c.thinking = 0 /\ c.calls = t.calls
  BY ThinkingCloses
<1>2. t2 = Tell(s, <<Piece(s.text, "text", x)>>)
  BY DEF TextDelta
<1> HIDE DEF c
<1>3. Translator(c)
  BY <1>1 DEF Paired
<1>4. /\ c.blocks \in Nat /\ c.text \in Nat /\ c.calls \in [Items -> Calls]
      /\ c.text # 0 => c.blocks # 0
  <2>1. c.text \in {0, c.blocks}
    BY <1>1 DEF Paired, Content
  <2> QED
    BY <1>3, <2>1, Translators
<1>5. Paired(base, s, u) /\ s.thinking = 0 /\ s.calls = c.calls /\ s.text \in Nat \ {0} /\ s.blocks # 0
  <2>1. CASE c.text # 0
    BY <1>1, <1>4, <2>1
  <2>2. CASE c.text = 0
    <3> DEFINE n == c.blocks + 1
               event == BlockBegin(n, "text")
               r == [[c EXCEPT !.blocks = n] EXCEPT !.text = n]
    <3>1. Literally(r, n, n, 0, c.calls, c.out) /\ s = Tell(r, <<event>>)
      BY <1>1, <1>3, <2>2, Beginning
    <3> HIDE DEF s, event, n, r
    <3>3. Goes(c, s, event, n, n, 0, c.calls)
      BY <3>1, TellGoes
    <3>4. Opens(c, 0, "text", n, n, 0, c.calls)
      BY <1>1, <1>4, <2>2 DEF Opens, n
    <3>5. /\ Paired(base, s, u)
          /\ s.blocks = n /\ s.text = n /\ s.thinking = 0 /\ s.calls = c.calls
      <4>1. n = c.blocks + 1 /\ Goes(c, s, BlockBegin(n, "text"), n, n, 0, c.calls)
        BY <3>3 DEF n, event
      <4> QED
        BY <1>1, <3>4, <4>1, BlockBegins
    <3>6. n \in Nat \ {0}
      BY <1>4 DEF n
    <3> QED
      BY <3>5, <3>6
  <2> HIDE DEF s
  <2> QED
    BY <2>1, <2>2
<1> HIDE DEF s
<1>6. Translator(s)
  BY <1>5 DEF Paired
<1>7. Goes(s, t2, Piece(s.text, "text", x), s.blocks, s.text, s.thinking, s.calls)
  BY <1>2, <1>6, Translators, TellGoes
<1>8. /\ Paired(base, t2, w)
      /\ t2.blocks = s.blocks /\ t2.text = s.text /\ t2.thinking = s.thinking /\ t2.calls = s.calls
  <2>1. Speaks(s, s.text, "message", "text")
    BY <1>5 DEF Speaks
  <2> QED
    BY <1>5, <1>7, <2>1, BlockSays
<1> QED
  BY <1>1, <1>5, <1>8

\* A fragment of thoughts is told.
LEMMA ThoughtGoesOn ==
  ASSUME NEW base, NEW t, NEW u, Paired(base, t, u), NEW w, NEW x,
         Adds(u, w, "reasoning", x), NEW t2, t2 = ReasoningDelta(t, x)
  PROVE  /\ Paired(base, t2, w)
         /\ t2.calls = t.calls /\ t2.text = 0 /\ t2.blocks # 0
<1> DEFINE c == CloseText(t)
           s == IF c.thinking # 0 THEN c ELSE [Begin(c, "thinking") EXCEPT !.thinking = c.blocks + 1]
<1>1. Paired(base, c, u) /\ c.text = 0 /\ c.calls = t.calls
  BY TextCloses
<1>2. t2 = Tell(s, <<Piece(s.thinking, "thinking", x)>>)
  BY DEF ReasoningDelta
<1> HIDE DEF c
<1>3. Translator(c)
  BY <1>1 DEF Paired
<1>4. /\ c.blocks \in Nat /\ c.thinking \in Nat /\ c.calls \in [Items -> Calls]
      /\ c.thinking # 0 => c.blocks # 0
  <2>1. c.thinking \in {0, c.blocks}
    BY <1>1 DEF Paired, Content
  <2> QED
    BY <1>3, <2>1, Translators
<1>5. Paired(base, s, u) /\ s.text = 0 /\ s.calls = c.calls /\ s.thinking \in Nat \ {0} /\ s.blocks # 0
  <2>1. CASE c.thinking # 0
    BY <1>1, <1>4, <2>1
  <2>2. CASE c.thinking = 0
    <3> DEFINE n == c.blocks + 1
               event == BlockBegin(n, "thinking")
               r == [[c EXCEPT !.blocks = n] EXCEPT !.thinking = n]
    <3>1. Literally(r, n, 0, n, c.calls, c.out) /\ s = Tell(r, <<event>>)
      BY <1>1, <1>3, <2>2, Beginning
    <3> HIDE DEF s, event, n, r
    <3>3. Goes(c, s, event, n, 0, n, c.calls)
      BY <3>1, TellGoes
    <3>4. Opens(c, 0, "thinking", n, 0, n, c.calls)
      BY <1>1, <1>4, <2>2 DEF Opens, n
    <3>5. /\ Paired(base, s, u)
          /\ s.blocks = n /\ s.thinking = n /\ s.text = 0 /\ s.calls = c.calls
      <4>1. n = c.blocks + 1 /\ Goes(c, s, BlockBegin(n, "thinking"), n, 0, n, c.calls)
        BY <3>3 DEF n, event
      <4> QED
        BY <1>1, <3>4, <4>1, BlockBegins
    <3>6. n \in Nat \ {0}
      BY <1>4 DEF n
    <3> QED
      BY <3>5, <3>6
  <2> HIDE DEF s
  <2> QED
    BY <2>1, <2>2
<1> HIDE DEF s
<1>6. Translator(s)
  BY <1>5 DEF Paired
<1>7. Goes(s, t2, Piece(s.thinking, "thinking", x), s.blocks, s.text, s.thinking, s.calls)
  BY <1>2, <1>6, Translators, TellGoes
<1>8. /\ Paired(base, t2, w)
      /\ t2.blocks = s.blocks /\ t2.thinking = s.thinking /\ t2.text = s.text /\ t2.calls = s.calls
  <2>1. Speaks(s, s.thinking, "reasoning", "thinking")
    BY <1>5 DEF Speaks
  <2> QED
    BY <1>5, <1>7, <2>1, BlockSays
<1> QED
  BY <1>1, <1>5, <1>8

\* A call has a block of its own.
LEMMA ToolStarts ==
  ASSUME NEW base, NEW t, NEW u, Paired(base, t, u), t.text = 0, t.thinking = 0,
         NEW i \in Items, IsCall(i), NEW s, s = EnsureToolStarted(t, i)
  PROVE  /\ Paired(base, s, u)
         /\ s.text = 0 /\ s.thinking = 0 /\ s.calls[i].block # 0
         /\ \A j \in Items : j # i => s.calls[j] = t.calls[j]
<1>1. Translator(t) /\ Content(t, Told(base, t).slots, u)
  BY DEF Paired
<1>2. t.blocks \in Nat /\ t.calls \in [Items -> Calls]
  BY <1>1, Translators
<1>3. CASE t.calls[i].block # 0
  BY <1>3 DEF EnsureToolStarted
<1>4. CASE t.calls[i].block = 0
  <2> DEFINE n == t.blocks + 1
             kind == ItemKind[i]
             calls == [t.calls EXCEPT ![i].block = n]
             r == WithCalls([t EXCEPT !.blocks = n], calls)
  <2>1. /\ Literally(r, n, t.text, t.thinking, calls, t.out)
        /\ WithCalls(Begin(t, kind), calls) = Tell(r, <<BlockBegin(n, kind)>>)
        /\ Literally([t EXCEPT !.blocks = n], n, t.text, t.thinking, t.calls, t.out)
        /\ Begin(t, kind) = Tell([t EXCEPT !.blocks = n], <<BlockBegin(n, kind)>>)
    <3> HIDE DEF calls, kind
    <3> QED
      BY <1>1, Beginning
  <2>2. s = WithCalls(Begin(t, kind), calls)
    <3>1. Begin(t, kind).calls = t.calls
      <4> DEFINE x == [t EXCEPT !.blocks = n]
                 more == x.out \o <<BlockBegin(n, kind)>>
      <4>1. Literally(x, n, t.text, t.thinking, t.calls, t.out)
        BY <2>1
      <4>2. Begin(t, kind) = [x EXCEPT !.out = more]
        BY <2>1 DEF Tell
      <4> HIDE DEF x, more
      <4> QED
        BY <4>1, <4>2 DEF Literally
    <3>2. s = [Begin(t, kind) EXCEPT !.calls[i].block = n]
      BY <1>4 DEF EnsureToolStarted
    <3> QED
      BY <3>1, <3>2 DEF WithCalls
  <2>3. Goes(t, s, BlockBegin(n, kind), n, 0, 0, calls)
    BY <2>1, <2>2, TellGoes
  <2>4. Opens(t, i, kind, n, 0, 0, calls)
    <3>1. ~t.calls[i].stopped
      <4>1. u.state[i] # "done"
        BY <1>1, <1>4 DEF Content
      <4> QED
        BY <1>1, <4>1 DEF Content
    <3>2. calls \in [Items -> Calls]
      BY <1>2 DEF Calls
    <3>3. \A j \in Items :
            /\ calls[j].block = IF j = i THEN n ELSE t.calls[j].block
            /\ calls[j].fed = t.calls[j].fed /\ calls[j].stopped = t.calls[j].stopped
      BY <1>2 DEF Calls
    <3>4. kind \in {"call", "custom"} /\ kind # "text" /\ kind # "thinking" /\ kind = ItemKind[i]
      BY DEF IsCall
    <3>5. n = t.blocks + 1
      OBVIOUS
    <3> HIDE DEF kind, calls, n
    <3> QED
      BY <1>4, <3>1, <3>2, <3>3, <3>4, <3>5 DEF Opens
  <2>5. \A j \in Items : j # i => calls[j] = t.calls[j]
    BY <1>2
  <2>6. calls[i].block = n /\ n # 0
    BY <1>2 DEF Calls
  <2> HIDE DEF n, kind, calls, r
  <2>7. /\ Paired(base, s, u)
        /\ s.blocks = n /\ s.text = 0 /\ s.thinking = 0 /\ s.calls = calls
    BY <2>3, <2>4, BlockBegins
  <2> QED
    BY <2>5, <2>6, <2>7
<1> QED
  BY <1>3, <1>4

\* w has sent x more of the open call i than u, and nothing else.
CallAdds(u, w, i, x) ==
  /\ i \in Items /\ IsCall(i) /\ u.state[i] # "done" /\ x \in Seq(Nat)
  /\ w.sent[i] = u.sent[i] \o x
  /\ \A j \in Items : j # i /\ IsCall(j) => w.sent[j] = u.sent[j] /\ w.state[j] = u.state[j]
  /\ PartsSaid(w, "message") = PartsSaid(u, "message") /\ PartsSaid(w, "reasoning") = PartsSaid(u, "reasoning")

\* A call has been fed, and nothing else has.
CallFeeds(t, calls, w, i) ==
  /\ t.calls[i].block # 0 /\ calls \in [Items -> Calls]
  /\ \A j \in Items : /\ calls[j].block = t.calls[j].block /\ calls[j].stopped = t.calls[j].stopped
                      /\ j # i => calls[j].fed = t.calls[j].fed
  /\ w.state[i] # "done" => (calls[i].fed <=> w.sent[i] # <<>>)

\* The block of a call says x.
LEMMA CallSays ==
  ASSUME NEW base, NEW t, NEW u, Paired(base, t, u), NEW w, NEW i, NEW x, CallAdds(u, w, i, x),
         NEW calls, CallFeeds(t, calls, w, i), NEW b, b = t.calls[i].block, NEW t2,
         Goes(t, t2, Piece(b, "arguments", x), t.blocks, t.text, t.thinking, calls)
  PROVE  /\ Paired(base, t2, w)
         /\ t2.blocks = t.blocks /\ t2.text = t.text /\ t2.thinking = t.thinking /\ t2.calls = calls
<1>1. Translator(t) /\ Content(t, Told(base, t).slots, u)
  BY DEF Paired
<1>2. /\ i \in Items /\ IsCall(i) /\ u.state[i] # "done"
      /\ \A j \in Items : j # i /\ IsCall(j) => w.sent[j] = u.sent[j] /\ w.state[j] = u.state[j]
  BY DEF CallAdds
<1>2x. x \in Seq(Nat)
  BY DEF CallAdds
<1>2s. w.sent[i] = u.sent[i] \o x
  BY DEF CallAdds
<1>3. /\ t.calls[i].block # 0 /\ calls \in [Items -> Calls]
      /\ \A j \in Items : /\ calls[j].block = t.calls[j].block /\ calls[j].stopped = t.calls[j].stopped
                          /\ j # i => calls[j].fed = t.calls[j].fed
      /\ w.state[i] # "done" => (calls[i].fed <=> w.sent[i] # <<>>)
  BY DEF CallFeeds
<1>4. Sensible(t.blocks, t.text, t.thinking, calls)
  BY <1>1, <1>3, Translators DEF Sensible
<1>5. b \in Nat /\ b # 0
  <2>1. t.calls \in [Items -> Calls]
    BY <1>1, Translators
  <2> QED
    BY <1>2, <1>3, <2>1 DEF Calls
<1>6. Piece(b, "arguments", x) \in Events
  BY <1>2x, <1>5, EventsAre
<1>7. /\ Translator(t2) /\ Tells(t, t2, Piece(b, "arguments", x))
      /\ t2.blocks = t.blocks /\ t2.text = t.text /\ t2.thinking = t.thinking /\ t2.calls = calls
  BY <1>1, <1>4, <1>6, Telling
<1>8. b # t.text /\ b # t.thinking
  BY <1>1, <1>2, <1>3, ContentApart
<1>9. SaysAlso(u, w, b, t, x)
  BY <1>8 DEF SaysAlso, CallAdds
<1>10. \A j \in Items : IsCall(j) =>
         /\ t.calls[j].block = 0 => u.state[j] # "done"
         /\ u.state[j] # "done" => ~t.calls[j].stopped /\ (t.calls[j].fed <=> u.sent[j] # <<>>)
  BY <1>1 DEF Content
<1>11. \A j \in Items : t.calls[j].block = b <=> j = i
  <2>1. \A j, k \in Items : t.calls[j].block # 0 /\ t.calls[j].block = t.calls[k].block => j = k
    BY <1>1 DEF Content
  <2> QED
    BY <1>2, <1>3, <2>1
<1>12. ~t.calls[i].stopped
  BY <1>2, <1>10
<1>13. Hears(t, t2, u, w, b, x)
  <2>1. /\ t2.blocks = t.blocks /\ t2.text = t.text /\ t2.thinking = t.thinking
        /\ \A j \in Items : /\ t2.calls[j].block = t.calls[j].block
                            /\ t2.calls[j].stopped = t.calls[j].stopped
    BY <1>3, <1>7
  <2>2. \A j \in Items : IsCall(j) => w.sent[j] = IF t.calls[j].block = b THEN u.sent[j] \o x ELSE u.sent[j]
    BY <1>2, <1>2s, <1>11
  <2>3. \A j \in Items : IsCall(j) => (t.calls[j].block = 0 => w.state[j] # "done")
    BY <1>2, <1>3, <1>10
  <2>4. \A j \in Items : IsCall(j) /\ w.state[j] # "done" =>
          ~t2.calls[j].stopped /\ (t2.calls[j].fed <=> w.sent[j] # <<>>)
    <3> TAKE j \in Items
    <3>1. CASE j = i
      BY <1>3, <1>7, <1>12, <3>1
    <3>2. CASE j # i
      BY <1>2, <1>3, <1>7, <1>10, <3>2
    <3> QED
      BY <3>1, <3>2
  <2> QED
    BY <2>1, <2>2, <2>3, <2>4 DEF Hears
<1>14. b \in OpenBlocks(t)
  BY <1>2, <1>3, <1>12 DEF OpenBlocks, OpenCalls
<1>15. Paired(base, t2, w)
  BY <1>2x, <1>7, <1>9, <1>13, <1>14, PairedSays
<1> QED
  BY <1>7, <1>15

\* The block of a call that has ended is closed.
LEMMA CallStops ==
  ASSUME NEW base, NEW t, NEW u, Paired(base, t, u), NEW i \in Items, IsCall(i), u.state[i] = "done",
         t.calls[i].block # 0, ~t.calls[i].stopped, NEW t2,
         t2 = Tell([t EXCEPT !.calls[i].stopped = TRUE], <<BlockStop(t.calls[i].block)>>)
  PROVE  Paired(base, t2, u)
<1> DEFINE calls == [t.calls EXCEPT ![i].stopped = TRUE]
           b == t.calls[i].block
<1>1. Translator(t) /\ Content(t, Told(base, t).slots, u)
  BY DEF Paired
<1>2. t.calls \in [Items -> Calls]
  BY <1>1, Translators
<1>3. /\ b \in Nat /\ calls \in [Items -> Calls]
      /\ calls[i].stopped /\ \A j \in Items : j # i => calls[j] = t.calls[j]
      /\ \A j \in Items : calls[j].block = t.calls[j].block /\ calls[j].fed = t.calls[j].fed
  BY <1>2 DEF Calls
<1>4. Literally([t EXCEPT !.calls[i].stopped = TRUE], t.blocks, t.text, t.thinking, calls, t.out)
  <2>1. [t EXCEPT !.calls[i].stopped = TRUE] = [t EXCEPT !.calls = calls]
    BY <1>1, Translators DEF Literally
  <2> HIDE DEF calls
  <2>2. Literally([t EXCEPT !.calls = calls], t.blocks, t.text, t.thinking, calls, t.out)
    BY <1>1, Translators DEF Literally
  <2> QED
    BY <2>1, <2>2
<1>5. Goes(t, t2, BlockStop(b), t.blocks, t.text, t.thinking, calls)
  <2> HIDE DEF calls
  <2> QED
    BY <1>4, TellGoes
<1> HIDE DEF calls, b
<1>6. Sensible(t.blocks, t.text, t.thinking, calls)
  BY <1>1, <1>3, Translators DEF Sensible
<1>7. BlockStop(b) \in Events
  BY <1>3, EventsAre
<1>8. /\ Translator(t2) /\ Tells(t, t2, BlockStop(b))
      /\ t2.blocks = t.blocks /\ t2.text = t.text /\ t2.thinking = t.thinking /\ t2.calls = calls
  BY <1>1, <1>5, <1>6, <1>7, Telling
<1>9. Tells(t, t2, BlockStops({b})) /\ {b} \in SUBSET Nat
  BY <1>3, <1>8 DEF BlockStop
<1>10. OpenBlocks(t2) = OpenBlocks(t) \ {b}
  <2>1. \A j, k \in Items : t.calls[j].block # 0 /\ t.calls[j].block = t.calls[k].block => j = k
    BY <1>1 DEF Content
  <2>2. b # t.text /\ b # t.thinking /\ b # 0
    BY <1>1, ContentApart DEF b
  <2>3. OpenCalls(t2) = OpenCalls(t) \ {i}
    BY <1>3, <1>8 DEF OpenCalls
  <2>4. \A j \in OpenCalls(t) : t.calls[j].block = b <=> j = i
    BY <2>1, <2>2 DEF OpenCalls, b
  <2>5. {t2.calls[j].block : j \in OpenCalls(t2)} = {t.calls[j].block : j \in OpenCalls(t)} \ {b}
    <3>1. OpenCalls(t) \in SUBSET Items
      BY DEF OpenCalls
    <3>2. \A j \in OpenCalls(t) : t2.calls[j].block = t.calls[j].block
      BY <1>3, <1>8, <3>1
    <3>3. {t2.calls[j].block : j \in OpenCalls(t) \ {i}} = {t.calls[j].block : j \in OpenCalls(t) \ {i}}
      BY <3>2
    <3>4. {t.calls[j].block : j \in OpenCalls(t) \ {i}} = {t.calls[j].block : j \in OpenCalls(t)} \ {b}
      BY <2>4
    <3> QED
      BY <2>3, <3>3, <3>4
  <2>6. t2.text = t.text /\ t2.thinking = t.thinking
    BY <1>8
  <2> QED
    BY <2>2, <2>5, <2>6 DEF OpenBlocks
<1>11. Stops(t, t2, u)
  <2>1. \A j \in Items : IsCall(j) /\ u.state[j] # "done" => ~t.calls[j].stopped
    BY <1>1 DEF Content
  <2>2. \A j \in Items : IsCall(j) /\ u.state[j] # "done" => ~t2.calls[j].stopped
    BY <1>3, <1>8, <2>1
  <2> QED
    BY <1>3, <1>8, <2>2 DEF Stops
<1> QED
  BY <1>8, <1>9, <1>10, <1>11, PairedStops

\* A fragment of arguments is told.
LEMMA ToolGoesOn ==
  ASSUME NEW base, NEW t, NEW u, Paired(base, t, u), NEW w, NEW i, NEW x, CallAdds(u, w, i, x),
         w.sent[i] # <<>>, NEW t2, t2 = ToolDelta(t, i, x)
  PROVE  Paired(base, t2, w)
<1> DEFINE c == CloseContentBlocks(t)
           s == EnsureToolStarted(c, i)
           calls == [s.calls EXCEPT ![i].fed = TRUE]
           b == s.calls[i].block
<1>0. i \in Items /\ IsCall(i)
  BY DEF CallAdds
<1>1. Paired(base, c, u) /\ c.text = 0 /\ c.thinking = 0
  BY ContentCloses
<1>2. t2 = Tell([s EXCEPT !.calls[i].fed = TRUE], <<Piece(b, "arguments", x)>>)
  BY DEF ToolDelta
<1> HIDE DEF c
<1>3. Paired(base, s, u) /\ s.calls[i].block # 0
  BY <1>0, <1>1, ToolStarts
<1> HIDE DEF s
<1>4. Translator(s)
  BY <1>3 DEF Paired
<1>5. Literally([s EXCEPT !.calls[i].fed = TRUE], s.blocks, s.text, s.thinking, calls, s.out)
  <2>1. [s EXCEPT !.calls[i].fed = TRUE] = [s EXCEPT !.calls = calls]
    BY <1>4, Translators DEF Literally
  <2> HIDE DEF calls
  <2>2. Literally([s EXCEPT !.calls = calls], s.blocks, s.text, s.thinking, calls, s.out)
    BY <1>4, Translators DEF Literally
  <2> QED
    BY <2>1, <2>2
<1>6. Goes(s, t2, Piece(b, "arguments", x), s.blocks, s.text, s.thinking, calls)
  <2> HIDE DEF calls, b
  <2> QED
    BY <1>2, <1>5, TellGoes
<1>7. CallFeeds(s, calls, w, i)
  <2>1. s.calls \in [Items -> Calls]
    BY <1>4, Translators
  <2>2. /\ calls \in [Items -> Calls] /\ (calls[i].fed <=> TRUE)
        /\ \A j \in Items : /\ calls[j].block = s.calls[j].block /\ calls[j].stopped = s.calls[j].stopped
                            /\ j # i => calls[j].fed = s.calls[j].fed
    BY <1>0, <2>1 DEF Calls
  <2> HIDE DEF calls
  <2> QED
    BY <1>3, <2>2 DEF CallFeeds
<1> HIDE DEF calls
<1>8. b = s.calls[i].block
  OBVIOUS
<1> HIDE DEF b
<1> QED
  BY <1>3, <1>6, <1>7, <1>8, CallSays

\* The open call i ends with all of its arguments, which were sent before or not at all.
CallFinishes(u, w, i, arguments) ==
  /\ i \in Items /\ IsCall(i) /\ u.state[i] # "done" /\ w.state[i] = "done"
  /\ arguments \in Seq(Nat)
  /\ arguments = u.sent[i] \/ u.sent[i] = <<>>
  /\ w.sent[i] = arguments
  /\ \A j \in Items : j # i /\ IsCall(j) => w.sent[j] = u.sent[j] /\ w.state[j] = u.state[j]
  /\ PartsSaid(w, "message") = PartsSaid(u, "message") /\ PartsSaid(w, "reasoning") = PartsSaid(u, "reasoning")

\* A call ends: its arguments are told if they were not before, and its block stops.
LEMMA CallIsDone ==
  ASSUME NEW base, NEW t, NEW u, Paired(base, t, u), NEW w, NEW i, NEW arguments,
         CallFinishes(u, w, i, arguments), arguments \in Seq(Nat), NEW t2, t2 = CallDone(t, i, arguments)
  PROVE  Paired(base, t2, w)
<1> DEFINE c == CloseContentBlocks(t)
           s == EnsureToolStarted(c, i)
           b == s.calls[i].block
           f == IF s.calls[i].fed \/ arguments = <<>> THEN s
                ELSE Tell(s, <<Piece(b, "arguments", arguments)>>)
<1>0. /\ i \in Items /\ IsCall(i) /\ u.state[i] # "done" /\ w.state[i] = "done"
      /\ arguments = u.sent[i] \/ u.sent[i] = <<>>
      /\ w.sent[i] = arguments
      /\ \A j \in Items : j # i /\ IsCall(j) => w.sent[j] = u.sent[j] /\ w.state[j] = u.state[j]
      /\ PartsSaid(w, "message") = PartsSaid(u, "message") /\ PartsSaid(w, "reasoning") = PartsSaid(u, "reasoning")
  BY DEF CallFinishes
<1>1. Paired(base, c, u) /\ c.text = 0 /\ c.thinking = 0
  BY ContentCloses
<1>2. t2 = IF f.calls[i].stopped THEN f
           ELSE Tell([f EXCEPT !.calls[i].stopped = TRUE], <<BlockStop(f.calls[i].block)>>)
  BY DEF CallDone
<1> HIDE DEF c
<1>3. Paired(base, s, u) /\ s.calls[i].block # 0
  BY <1>0, <1>1, ToolStarts
<1> HIDE DEF s
<1>4. Translator(s) /\ Content(s, Told(base, s).slots, u)
  BY <1>3 DEF Paired
<1>5. ~s.calls[i].stopped /\ (s.calls[i].fed <=> u.sent[i] # <<>>)
  BY <1>0, <1>4 DEF Content
<1>6. Paired(base, f, w) /\ f.calls = s.calls
  <2>1. CASE s.calls[i].fed \/ arguments = <<>>
    <3>1. f = s /\ w.sent[i] = u.sent[i]
      BY <1>0, <1>5, <2>1
    <3>2. \A j \in Items : IsCall(j) =>
            /\ w.sent[j] = u.sent[j]
            /\ s.calls[j].block = 0 => w.state[j] # "done"
            /\ w.state[j] # "done" => u.state[j] # "done"
      <4>1. \A j \in Items : IsCall(j) => (s.calls[j].block = 0 => u.state[j] # "done")
        BY <1>4 DEF Content
      <4> QED
        BY <1>0, <1>3, <3>1, <4>1
    <3>3. Content(s, Told(base, s).slots, w)
      BY <1>0, <1>4, <3>2, ContentHears
    <3> QED
      BY <1>3, <3>1, <3>3 DEF Paired
  <2>2. CASE ~(s.calls[i].fed \/ arguments = <<>>)
    <3>1. f = Tell(s, <<Piece(b, "arguments", arguments)>>)
      BY <2>2
    <3>2. Goes(s, f, Piece(b, "arguments", arguments), s.blocks, s.text, s.thinking, s.calls)
      <4> HIDE DEF f, b
      <4> QED
        BY <1>4, <3>1, Translators, TellGoes
    <3>3. CallAdds(u, w, i, arguments)
      <4>1. u.sent[i] = <<>>
        BY <1>5, <2>2
      <4>2. w.sent[i] = u.sent[i] \o arguments
        BY <1>0, <4>1
      <4> QED
        BY <1>0, <4>2 DEF CallAdds
    <3>4. CallFeeds(s, s.calls, w, i)
      <4>1. s.calls \in [Items -> Calls]
        BY <1>4, Translators
      <4> QED
        BY <1>0, <1>3, <4>1 DEF CallFeeds
    <3>5. b = s.calls[i].block
      OBVIOUS
    <3> HIDE DEF f, b
    <3> QED
      BY <1>3, <3>2, <3>3, <3>4, <3>5, CallSays
  <2> QED
    BY <2>1, <2>2
<1> HIDE DEF f
<1>7. t2 = Tell([f EXCEPT !.calls[i].stopped = TRUE], <<BlockStop(f.calls[i].block)>>)
  BY <1>2, <1>5, <1>6
<1>8. f.calls[i].block # 0 /\ ~f.calls[i].stopped
  BY <1>3, <1>5, <1>6
<1> QED
  BY <1>0, <1>6, <1>7, <1>8, CallStops

\* Redacted thoughts come in one piece.
LEMMA SealedIsDone ==
  ASSUME NEW base, NEW t, NEW u, Paired(base, t, u), NEW t2, t2 = SealedDone(t)
  PROVE  Paired(base, t2, u)
<1> DEFINE c == CloseContentBlocks(t)
           s == Begin(c, "redacted")
           n == c.blocks + 1
<1>1. Paired(base, c, u) /\ c.text = 0 /\ c.thinking = 0
  BY ContentCloses
<1>2. t2 = Tell(s, <<BlockStop(s.blocks)>>)
  BY DEF SealedDone
<1> HIDE DEF c
<1>3. Translator(c)
  BY <1>1 DEF Paired
<1>4. Goes(c, s, BlockBegin(n, "redacted"), n, 0, 0, c.calls)
  <2> DEFINE r == [c EXCEPT !.blocks = n]
  <2>1. Literally(r, n, c.text, c.thinking, c.calls, c.out) /\ s = Tell(r, <<BlockBegin(n, "redacted")>>)
    BY <1>3, Beginning
  <2> HIDE DEF r, n, s
  <2> QED
    BY <1>1, <2>1, TellGoes
<1>5. n \in Nat /\ n # 0 /\ c.calls \in [Items -> Calls]
  BY <1>3, Translators
<1>6. n = c.blocks + 1 /\ "redacted" \in Kinds
  BY DEF Kinds
<1> HIDE DEF n, s
<1>7. BlockBegin(n, "redacted") \in Events /\ BlockStop(n) \in Events
  BY <1>5, <1>6, EventsAre
<1>8. Sensible(n, 0, 0, c.calls)
  BY <1>5 DEF Sensible
<1>9. /\ Translator(s) /\ Tells(c, s, BlockBegin(n, "redacted"))
      /\ s.blocks = n /\ s.text = 0 /\ s.thinking = 0 /\ s.calls = c.calls
  BY <1>3, <1>4, <1>7, <1>8, Telling
<1>10. Goes(s, t2, BlockStop(n), n, 0, 0, c.calls)
  <2>1. Literally(s, n, 0, 0, c.calls, s.out) /\ t2 = Tell(s, <<BlockStop(n)>>)
    BY <1>2, <1>9, Translators
  <2> QED
    BY <2>1, TellGoes
<1>11. /\ Translator(t2) /\ Tells(s, t2, BlockStop(n))
       /\ t2.blocks = n /\ t2.text = 0 /\ t2.thinking = 0 /\ t2.calls = c.calls
  BY <1>7, <1>8, <1>9, <1>10, Telling
<1>12. Begins(c, s, c.blocks, "redacted", 0)
  BY <1>1, <1>6, <1>9 DEF Begins
<1>13. Tells(c, s, BlockBegin(c.blocks + 1, "redacted")) /\ Tells(s, t2, BlockStop(c.blocks + 1))
  BY <1>6, <1>9, <1>11
<1> QED
  BY <1>1, <1>9, <1>11, <1>12, <1>13, PairedSeals

\* The events of the end of an answer change no slot, but complete them.
LEMMA BoardReason ==
  ASSUME NEW v, NEW n \in Nat, NEW O, Board(v, n, O), NEW event, event.e = "message_delta",
         NEW w, w = Assemble(v, event)
  PROVE  Board(w, n, O) /\ w.slots = v.slots
<1>1. PICK slots, active, provisional, old :
        v = [slots |-> slots, active |-> active, provisional |-> provisional,
             reason |-> old, final |-> "open"]
  BY DEF Board
<1>2. w = [slots |-> slots, active |-> active, provisional |-> provisional,
           reason |-> event.reason, final |-> "open"]
  BY <1>1 DEF Assemble
<1>3. w.slots = v.slots /\ w.active = v.active /\ w.provisional = v.provisional
  BY <1>1, <1>2
<1>4. w = [slots |-> w.slots, active |-> w.active, provisional |-> w.provisional,
           reason |-> w.reason, final |-> "open"]
  BY <1>2
<1>5. /\ n \in Nat /\ v.slots \in Seq(Slots) /\ Len(v.slots) = n
      /\ O \in SUBSET (1 .. n) /\ v.active = [b \in O |-> b]
      /\ \A s \in 1 .. n : /\ s \in O => v.slots[s].state = "in_progress"
                           /\ s \notin O /\ v.slots[s].state = "in_progress" => v.provisional # "none"
                           /\ v.slots[s].state = "completed" => ~CutCall(v.slots[s])
  BY DEF Board
<1>6. /\ n \in Nat /\ w.slots \in Seq(Slots) /\ Len(w.slots) = n
      /\ O \in SUBSET (1 .. n) /\ w.active = [b \in O |-> b]
      /\ \A s \in 1 .. n : /\ s \in O => w.slots[s].state = "in_progress"
                           /\ s \notin O /\ w.slots[s].state = "in_progress" => w.provisional # "none"
                           /\ w.slots[s].state = "completed" => ~CutCall(w.slots[s])
  BY <1>3, <1>5
<1> QED
  BY <1>3, <1>4, <1>6 DEF Board

\* An answer that is over and did not fail shows all that was heard, every item whole.
Over(v, t, u) ==
  /\ v.final \in {"failed", "incomplete", "completed"}
  /\ v.final # "failed" =>
       /\ Content(t, v.slots, u) /\ v.slots \in Seq(Slots) /\ t.blocks \in Nat /\ Len(v.slots) = t.blocks
       /\ \A s \in 1 .. t.blocks : v.slots[s].state = "completed" /\ ~CutCall(v.slots[s])

\* A response finishes: unless it fails, every slot is complete.
LEMMA BoardFinishes ==
  ASSUME NEW v, NEW n \in Nat, Board(v, n, {}), NEW w, w = Assemble(v, [e |-> "message_stop"])
  PROVE  /\ w.final \in {"failed", "incomplete", "completed"} /\ SayTheSame(v.slots, w.slots)
         /\ w.slots \in Seq(Slots) /\ Len(w.slots) = n
         /\ w.final # "failed" =>
              \A s \in 1 .. n : w.slots[s].state = "completed" /\ ~CutCall(w.slots[s])
<1> DEFINE f == CompleteBlocks(v, {})
<1>1. DOMAIN v.active = {} /\ v.final = "open"
  BY DEF Board
<1>2. Board(f, n, {}) /\ SayTheSame(v.slots, f.slots)
  <2>1. {} \ {} = {}
    OBVIOUS
  <2> QED
    BY <2>1, BoardStops
<1>3. w = [f EXCEPT !.final = IF f.provisional # "none" THEN "failed"
                              ELSE IF f.reason = "max_tokens" THEN "incomplete" ELSE "completed"]
  <2>1. FlushActive(v) = f
    BY <1>1 DEF FlushActive
  <2> HIDE DEF f
  <2>2. w = FinishResponse(v)
    BY <1>1 DEF Assemble
  <2> QED
    BY <2>1, <2>2 DEF FinishResponse
<1> HIDE DEF f
<1>4. PICK slots, active, provisional, reason :
        f = [slots |-> slots, active |-> active, provisional |-> provisional,
             reason |-> reason, final |-> "open"]
  BY <1>2 DEF Board
<1>5. /\ w.slots = f.slots /\ w.final \in {"failed", "incomplete", "completed"}
      /\ w.final # "failed" => f.provisional = "none"
  BY <1>3, <1>4
<1>6. /\ f.slots \in Seq(Slots) /\ Len(f.slots) = n
      /\ \A s \in 1 .. n : /\ f.slots[s].state = "in_progress" => f.provisional # "none"
                           /\ f.slots[s].state = "completed" => ~CutCall(f.slots[s])
  BY <1>2 DEF Board
<1>7. \A s \in 1 .. n : f.slots[s].state \in {"in_progress", "completed"}
  <2>1. \A s \in 1 .. n : f.slots[s] \in Slots
    BY <1>6
  <2> QED
    BY <2>1 DEF Slots
<1> QED
  BY <1>2, <1>5, <1>6, <1>7

\* All that is open is closed, whether or not the calls are known to be stopped.
LEMMA BoardCloses ==
  ASSUME NEW base, NEW t, NEW u, Paired(base, t, u), NEW t2, NEW B, B = OpenBlocks(t),
         Goes(t, t2, BlockStops(B), t.blocks, t.text, t.thinking, t.calls)
  PROVE  /\ Translator(t2) /\ Board(Told(base, t2), t.blocks, {}) /\ Content(t2, Told(base, t2).slots, u)
         /\ t2.blocks = t.blocks /\ t2.text = t.text /\ t2.thinking = t.thinking /\ t2.calls = t.calls
<1> DEFINE v == Told(base, t)
           w == Told(base, t2)
<1>1. Translator(t) /\ Board(v, t.blocks, OpenBlocks(t)) /\ Content(t, v.slots, u)
  BY DEF Paired
<1>2. t.blocks \in Nat /\ B \in SUBSET Nat /\ Len(v.slots) = t.blocks /\ v.final = "open"
  BY <1>1 DEF Board
<1>3. BlockStops(B) \in Events
  BY <1>2, EventsAre
<1>4. Sensible(t.blocks, t.text, t.thinking, t.calls)
  BY <1>1, Translators DEF Sensible
<1>5. /\ Translator(t2) /\ Tells(t, t2, BlockStops(B))
      /\ t2.blocks = t.blocks /\ t2.text = t.text /\ t2.thinking = t.thinking /\ t2.calls = t.calls
  BY <1>1, <1>3, <1>4, Telling
<1>6. w = Assemble(v, BlockStops(B))
  BY <1>1, <1>3, <1>5, TellsOne
<1> HIDE DEF v, w
<1>7. w = CompleteBlocks(v, B)
  BY <1>2, <1>6 DEF Assemble, BlockStops
<1>8. Board(w, t.blocks, {}) /\ SayTheSame(v.slots, w.slots)
  <2>1. Board(CompleteBlocks(v, B), t.blocks, OpenBlocks(t) \ B) /\ SayTheSame(v.slots, CompleteBlocks(v, B).slots)
    BY <1>1, <1>2, BoardStops
  <2>2. OpenBlocks(t) \ B = {}
    OBVIOUS
  <2> QED
    BY <1>7, <2>1, <2>2
<1>9. Stops(t, t2, u)
  <2>1. \A i \in Items : IsCall(i) /\ u.state[i] # "done" => ~t.calls[i].stopped
    BY <1>1 DEF Content
  <2> QED
    BY <1>5, <2>1 DEF Stops
<1>10. Content(t2, w.slots, u)
  BY <1>1, <1>2, <1>8, <1>9, ContentStops
<1> QED
  BY <1>5, <1>8, <1>10 DEF w

\* The open calls stop.
LEMMA OpenCallsStop ==
  ASSUME NEW base, NEW t, NEW u, Paired(base, t, u), t.text = 0, t.thinking = 0,
         NEW t2, t2 = StopOpenCalls(t)
  PROVE  /\ Translator(t2) /\ Board(Told(base, t2), t.blocks, {}) /\ Content(t2, Told(base, t2).slots, u)
         /\ t2.blocks = t.blocks /\ t2.text = t.text /\ t2.thinking = t.thinking /\ t2.calls = t.calls
<1> DEFINE B == {t.calls[i].block : i \in OpenCalls(t)}
<1>1. Translator(t)
  BY DEF Paired
<1>2. B = OpenBlocks(t)
  <2> HIDE DEF B
  <2>1. {t.text, t.thinking} \ {0} = {}
    OBVIOUS
  <2> QED
    BY <2>1 DEF OpenBlocks, B
<1>3. t2 = Tell(t, <<BlockStops(B)>>)
  BY DEF StopOpenCalls
<1> HIDE DEF B
<1>4. Goes(t, t2, BlockStops(B), t.blocks, t.text, t.thinking, t.calls)
  BY <1>1, <1>3, Translators, TellGoes
<1> QED
  BY <1>2, <1>4, BoardCloses

\* What is shown is a sequence of fragments.
LEMMA ShownType ==
  ASSUME NEW slots \in Seq(Slots), NEW K
  PROVE  PartsShown(slots, K) \in Seq(Nat)
BY ShownParts, FlattenType DEF PartsShown

\* Two entries are appended one after the other.
LEMMA OneThenOther ==
  ASSUME NEW T, NEW s \in Seq(T), NEW a \in T, NEW b \in T
  PROVE  s \o <<a, b>> = (s \o <<a>>) \o <<b>>
<1> DEFINE n == Len(s)
           x == s \o <<a, b>>
           r == s \o <<a>>
           y == r \o <<b>>
<1>1. n \in Nat
  OBVIOUS
<1>2. /\ x \in Seq(T) /\ Len(x) = n + 2 /\ \A k \in 1 .. n : x[k] = s[k]
      /\ x[n + 1] = a /\ x[n + 2] = b
  OBVIOUS
<1>3. r \in Seq(T) /\ Len(r) = n + 1 /\ r[n + 1] = a /\ \A k \in 1 .. n : r[k] = s[k]
  OBVIOUS
<1> HIDE DEF r
<1>4. y \in Seq(T) /\ Len(y) = n + 2 /\ y[n + 2] = b /\ \A k \in 1 .. n + 1 : y[k] = r[k]
  BY <1>1, <1>3
<1> HIDE DEF n, x, y
<1>5. \A k \in 1 .. n + 2 : x[k] = y[k]
  <2> TAKE k \in 1 .. n + 2
  <2>1. k \in 1 .. n \/ k = n + 1 \/ k = n + 2
    BY <1>1
  <2> QED
    BY <1>1, <1>2, <1>3, <1>4, <2>1
<1>6. x = y
  BY <1>2, <1>4, <1>5
<1> QED
  BY <1>6 DEF x, y, r

\* An answer ends.
LEMMA AnswerIsDone ==
  ASSUME NEW base, NEW t, NEW u, Paired(base, t, u), NEW reason \in {"max_tokens", "end_turn"},
         NEW t2, t2 = AnswerDone(t, reason)
  PROVE  Translator(t2) /\ Over(Told(base, t2), t2, u) /\ t2.calls = t.calls
<1> DEFINE c == CloseContentBlocks(t)
           closed == StopOpenCalls(c)
           padded == IF closed.blocks # 0 THEN closed ELSE CloseText(TextDelta(closed, <<>>))
<1>1. Paired(base, c, u) /\ c.text = 0 /\ c.thinking = 0 /\ c.calls = t.calls
  BY ContentCloses
<1> HIDE DEF c
<1>2. /\ Translator(closed) /\ Board(Told(base, closed), c.blocks, {})
      /\ Content(closed, Told(base, closed).slots, u)
      /\ closed.blocks = c.blocks /\ closed.text = c.text /\ closed.thinking = c.thinking
      /\ closed.calls = c.calls
  BY <1>1, OpenCallsStop
<1> HIDE DEF closed
<1>3. /\ Translator(padded) /\ Board(Told(base, padded), padded.blocks, {})
      /\ Content(padded, Told(base, padded).slots, u) /\ padded.calls = t.calls
  <2>1. CASE closed.blocks # 0
    BY <1>1, <1>2, <2>1
  <2>2. CASE closed.blocks = 0
    <3> DEFINE said == TextDelta(closed, <<>>)
    <3>1. OpenBlocks(closed) = {}
      <4>1. OpenBlocks(c) \in SUBSET (1 .. 0)
        BY <1>1, <1>2, <2>2 DEF Paired, Board
      <4>2. OpenCalls(closed) = OpenCalls(c)
        BY <1>2 DEF OpenCalls
      <4>3. OpenBlocks(closed) = OpenBlocks(c)
        BY <1>2, <4>2 DEF OpenBlocks
      <4>4. 1 .. 0 = {}
        OBVIOUS
      <4> QED
        BY <4>1, <4>3, <4>4
    <3>2. Paired(base, closed, u)
      BY <1>2, <3>1 DEF Paired
    <3>3. Adds(u, u, "message", <<>>)
      <4>1. PartsSaid(u, "message") \o <<>> = PartsSaid(u, "message")
        <5>1. PartsShown(Told(base, closed).slots, {"text"}) = PartsSaid(u, "message")
          BY <1>2 DEF Content
        <5>2. Told(base, closed).slots \in Seq(Slots)
          BY <1>2 DEF Board
        <5>3. PartsSaid(u, "message") \in Seq(Nat)
          BY <5>1, <5>2, ShownType
        <5> QED
          BY <5>3
      <4>2. <<>> \in Seq(Nat)
        OBVIOUS
      <4> QED
        BY <4>1, <4>2 DEF Adds
    <3>4. Paired(base, said, u) /\ said.calls = closed.calls /\ said.thinking = 0
      BY <3>2, <3>3, TextGoesOn
    <3>5. padded = CloseText(said)
      BY <2>2
    <3> HIDE DEF said, padded
    <3>6. Paired(base, padded, u) /\ padded.text = 0 /\ padded.thinking = 0 /\ padded.calls = closed.calls
      BY <3>4, <3>5, TextCloses
    <3>7. OpenBlocks(padded) = {}
      <4>1. OpenCalls(padded) = OpenCalls(closed)
        BY <3>6 DEF OpenCalls
      <4>2. \A i \in OpenCalls(closed) : FALSE
        <5>1. \A i \in OpenCalls(closed) : closed.calls[i].block \in OpenBlocks(closed)
          BY DEF OpenBlocks
        <5> QED
          BY <3>1, <5>1
      <4> QED
        BY <3>6, <4>1, <4>2 DEF OpenBlocks
    <3> QED
      BY <1>1, <1>2, <3>6, <3>7 DEF Paired
  <2> HIDE DEF padded
  <2> QED
    BY <2>1, <2>2
<1> DEFINE tools == \E i \in Items : c.calls[i].block # 0
           why == IF \E i \in Items : t.calls[i].block # 0 THEN "tool_use" ELSE reason
           first == [e |-> "message_delta", reason |-> why]
           last == [e |-> "message_stop"]
           v == Told(base, padded)
           x == Assemble(v, first)
           w == Assemble(x, last)
<1>4. t2 = Tell([padded EXCEPT !.completed = TRUE], <<first, last>>)
  BY DEF AnswerDone, c, closed
<1> HIDE DEF padded
<1>5. padded.out \in Seq(Events) /\ padded.blocks \in Nat
  BY <1>3, Translators
<1>6. first \in Events /\ last \in Events
  <2>1. why \in {"tool_use", "max_tokens", "end_turn"}
    OBVIOUS
  <2> HIDE DEF why
  <2> QED
    BY <2>1, EventsAre
<1>6a. first.e = "message_delta" /\ last.e = "message_stop"
  OBVIOUS
<1> HIDE DEF why, first
<1> HIDE DEF last
<1>7. Translator(t2) /\ t2.out = padded.out \o <<first, last>>
      /\ t2.blocks = padded.blocks /\ t2.text = padded.text /\ t2.thinking = padded.thinking
      /\ t2.calls = padded.calls
  <2> DEFINE more == padded.out \o <<first, last>>
  <2>1. more \in Seq(Events)
    BY <1>5, <1>6
  <2>2. PICK blocks, text, thinking, calls, completed, out :
          padded = [blocks |-> blocks, text |-> text, thinking |-> thinking, calls |-> calls,
                    completed |-> completed, out |-> out]
    BY <1>3 DEF Translator
  <2>3. [padded EXCEPT !.completed = TRUE].out = padded.out
    BY <2>2
  <2>4. t2 = [[padded EXCEPT !.completed = TRUE] EXCEPT !.out = more]
    BY <1>4, <2>3 DEF Tell
  <2> HIDE DEF more
  <2>5. t2 = [blocks |-> blocks, text |-> text, thinking |-> thinking, calls |-> calls,
              completed |-> TRUE, out |-> more]
    BY <2>2, <2>4
  <2>6. /\ t2.blocks = padded.blocks /\ t2.text = padded.text /\ t2.thinking = padded.thinking
        /\ t2.calls = padded.calls /\ t2.out = more
    BY <2>2, <2>5
  <2>7. t2 = [blocks |-> t2.blocks, text |-> t2.text, thinking |-> t2.thinking, calls |-> t2.calls,
              completed |-> t2.completed, out |-> t2.out]
    BY <2>5
  <2>8. /\ padded.blocks \in Nat /\ padded.text \in Nat /\ padded.thinking \in Nat
        /\ padded.calls \in [Items -> [block : Nat, fed : BOOLEAN, stopped : BOOLEAN]]
    BY <1>3 DEF Translator
  <2>9. Translator(t2)
    BY <2>1, <2>6, <2>7, <2>8 DEF Translator
  <2> QED
    BY <2>6, <2>9 DEF more
<1>8. Told(base, t2) = w
  <2> DEFINE s == padded.out \o <<first>>
  <2>1. t2.out = s \o <<last>> /\ s \in Seq(Events)
    <3>1. s \in Seq(Events) /\ t2.out = padded.out \o <<first, last>>
      BY <1>5, <1>6, <1>7
    <3>2. padded.out \o <<first, last>> = s \o <<last>>
      BY <1>5, <1>6, OneThenOther
    <3> QED
      BY <3>1, <3>2
  <2>2. AssembleAll(base, s) = x
    BY <1>5, <1>6, AssembleNext DEF Told
  <2> HIDE DEF s, x
  <2>3. AssembleAll(base, s \o <<last>>) = Assemble(AssembleAll(base, s), last)
    BY <1>6, <2>1, AssembleNext
  <2> QED
    BY <2>1, <2>2, <2>3 DEF Told
<1>9. Board(x, padded.blocks, {}) /\ x.slots = v.slots
  <2> HIDE DEF v
  <2>1. Board(v, padded.blocks, {})
    BY <1>3 DEF v
  <2> QED
    BY <1>5, <1>6a, <2>1, BoardReason
<1> HIDE DEF x
<1>10. /\ w.final \in {"failed", "incomplete", "completed"} /\ SayTheSame(x.slots, w.slots)
       /\ w.slots \in Seq(Slots) /\ Len(w.slots) = padded.blocks
       /\ w.final # "failed" =>
            \A s \in 1 .. padded.blocks : w.slots[s].state = "completed" /\ ~CutCall(w.slots[s])
  BY <1>5, <1>9, BoardFinishes DEF last
<1> HIDE DEF w
<1>11. Content(t2, w.slots, u)
  <2>1. Content(padded, x.slots, u) /\ Len(x.slots) = padded.blocks
    BY <1>3, <1>9 DEF Board
  <2>2. Stops(padded, t2, u)
    <3>1. \A i \in Items : IsCall(i) /\ u.state[i] # "done" => ~padded.calls[i].stopped
      BY <2>1 DEF Content
    <3> QED
      BY <1>7, <3>1 DEF Stops
  <2> QED
    BY <1>5, <1>10, <2>1, <2>2, ContentStops
<1>12. Over(w, t2, u)
  BY <1>5, <1>7, <1>10, <1>11 DEF Over
<1> QED
  BY <1>3, <1>7, <1>8, <1>12

\* The parts of what was heard, one by one.
LEMMA HeardParts ==
  ASSUME NEW u, WellHeard(u)
  PROVE  /\ u.order \in Seq(Items) /\ u.state \in [Items -> {"none", "added", "done"}]
         /\ u.sent \in [Items -> Seq(Nat)]
         /\ u = [order |-> u.order, state |-> u.state, sent |-> u.sent, over |-> u.over]
BY DEF WellHeard

\* Nothing has been heard at first.
LEMMA HeardNothing == WellHeard(NothingSent)
<1> DEFINE none == [i \in Items |-> "none"]
           silent == [i \in Items |-> <<>>]
<1>1. none \in [Items -> {"none", "added", "done"}] /\ silent \in [Items -> Seq(Nat)]
  OBVIOUS
<1>2. \A i \in Items : none[i] = "none" /\ silent[i] = <<>>
  OBVIOUS
<1>3. <<>> \in Seq(Items) /\ Len(<<>>) = 0 /\ \A n \in 1 .. 0 : FALSE
  OBVIOUS
<1> HIDE DEF none, silent
<1>4. NothingSent = [order |-> <<>>, state |-> none, sent |-> silent, over |-> "no"]
  BY DEF NothingSent, none, silent
<1>5. NothingSent.order = <<>> /\ NothingSent.state = none /\ NothingSent.sent = silent /\ NothingSent.over = "no"
  BY <1>4
<1> QED
  BY <1>1, <1>2, <1>3, <1>4, <1>5 DEF WellHeard

\* An item is announced.
Announced(u, w, i) ==
  /\ w.order = Append(u.order, i) /\ w.sent = u.sent /\ w.over = u.over
  /\ w.state = [u.state EXCEPT ![i] = "added"]
  /\ w = [order |-> w.order, state |-> w.state, sent |-> w.sent, over |-> w.over]

\* Then what was heard is as it should be, and the item is open.
LEMMA HeardAdded ==
  ASSUME NEW u, WellHeard(u), NEW i \in Items, u.state[i] = "none",
         IsCall(i) \/ \A j \in Items : u.state[j] # "added",
         NEW w, Announced(u, w, i)
  PROVE  /\ WellHeard(w)
         /\ w.state[i] = "added" /\ \A j \in Items : j # i => w.state[j] = u.state[j]
<1> DEFINE order == Append(u.order, i)
           state == [u.state EXCEPT ![i] = "added"]
           n == Len(u.order)
<1>1. /\ u.order \in Seq(Items) /\ u.state \in [Items -> {"none", "added", "done"}]
      /\ u.sent \in [Items -> Seq(Nat)]
      /\ u = [order |-> u.order, state |-> u.state, sent |-> u.sent, over |-> u.over]
  BY HeardParts
<1>2. /\ order \in Seq(Items) /\ Len(order) = n + 1 /\ order[n + 1] = i /\ n \in Nat
      /\ \A m \in 1 .. n : order[m] = u.order[m]
  BY <1>1
<1>3. /\ state \in [Items -> {"none", "added", "done"}] /\ state[i] = "added"
      /\ \A j \in Items : j # i => state[j] = u.state[j]
  BY <1>1
<1>6. /\ w.order = order /\ w.state = state /\ w.sent = u.sent
      /\ w = [order |-> w.order, state |-> w.state, sent |-> w.sent, over |-> w.over]
  BY DEF Announced
<1>5. \A m \in 1 .. n : u.order[m] \in Items /\ u.order[m] # i
  <2>1. \A m \in 1 .. n : u.order[m] \in Items /\ u.state[u.order[m]] # "none"
    BY <1>1 DEF WellHeard
  <2> QED
    BY <2>1
<1> HIDE DEF order, state, n
<1>7. \A j \in Items : /\ state[j] = "none" => u.sent[j] = <<>>
                       /\ state[j] # "none" => \E m \in 1 .. n + 1 : order[m] = j
  <2>1. \A j \in Items : /\ u.state[j] = "none" => u.sent[j] = <<>>
                         /\ u.state[j] # "none" => \E m \in 1 .. n : u.order[m] = j
    BY DEF WellHeard, n
  <2>2. n + 1 \in 1 .. n + 1 /\ \A m \in 1 .. n : m \in 1 .. n + 1
    BY <1>2
  <2> QED
    BY <1>2, <1>3, <2>1, <2>2
<1>8. \A m \in 1 .. n + 1 : m = n + 1 \/ m \in 1 .. n
  BY <1>2
<1>8a. /\ \A m \in 1 .. n : order[m] = u.order[m] /\ state[order[m]] = u.state[u.order[m]]
       /\ state[order[n + 1]] = "added"
  BY <1>2, <1>3, <1>5
<1>9. \A m \in 1 .. n + 1 : state[order[m]] # "none"
  <2>1. \A m \in 1 .. n : u.state[u.order[m]] # "none"
    BY DEF WellHeard, n
  <2> QED
    BY <1>8, <1>8a, <2>1
<1>10. \A m, k \in 1 .. n + 1 :
         /\ order[m] = order[k] => m = k
         /\ m < k /\ ~IsCall(order[m]) /\ state[order[m]] = "added" => IsCall(order[k])
  <2>1. \A m, k \in 1 .. n :
          /\ u.order[m] = u.order[k] => m = k
          /\ m < k /\ ~IsCall(u.order[m]) /\ u.state[u.order[m]] = "added" => IsCall(u.order[k])
    BY DEF WellHeard, n
  <2> TAKE m, k \in 1 .. n + 1
  <2>2. CASE m \in 1 .. n /\ k \in 1 .. n
    BY <1>8a, <2>1, <2>2
  <2>3. CASE m = n + 1 /\ k \in 1 .. n
    BY <1>2, <1>5, <2>3
  <2>4. CASE m \in 1 .. n /\ k = n + 1
    BY <1>2, <1>3, <1>5, <2>4
  <2>5. CASE m = n + 1 /\ k = n + 1
    BY <1>2, <2>5
  <2> QED
    BY <1>8, <2>2, <2>3, <2>4, <2>5
<1>11. Len(w.order) = n + 1
  BY <1>2, <1>6
<1>12. /\ w.order \in Seq(Items) /\ w.state \in [Items -> {"none", "added", "done"}]
       /\ w.sent \in [Items -> Seq(Nat)]
  BY <1>1, <1>2, <1>3, <1>6
<1>13. /\ \A j \in Items : /\ w.state[j] = "none" => w.sent[j] = <<>>
                           /\ w.state[j] # "none" => \E m \in 1 .. Len(w.order) : w.order[m] = j
       /\ \A m \in 1 .. Len(w.order) : w.state[w.order[m]] # "none"
       /\ \A m, k \in 1 .. Len(w.order) :
            /\ w.order[m] = w.order[k] => m = k
            /\ m < k /\ ~IsCall(w.order[m]) /\ w.state[w.order[m]] = "added" => IsCall(w.order[k])
  BY <1>6, <1>7, <1>9, <1>10, <1>11
<1>14. WellHeard(w)
  BY <1>6, <1>12, <1>13 DEF WellHeard
<1> QED
  BY <1>3, <1>6, <1>14

\* An open item sends something, or is done.
Sends(u, w, i, sent, mark) ==
  /\ WellHeard(u) /\ i \in Items /\ u.state[i] = "added" /\ sent \in Seq(Nat) /\ mark \in {"added", "done"}
  /\ w.order = u.order /\ w.over = u.over
  /\ w.state = [u.state EXCEPT ![i] = mark] /\ w.sent = [u.sent EXCEPT ![i] = sent]
  /\ w = [order |-> w.order, state |-> w.state, sent |-> w.sent, over |-> w.over]

\* Then what was heard is as it should be.
LEMMA HeardSends ==
  ASSUME NEW u, NEW i, NEW sent, NEW mark, NEW w, Sends(u, w, i, sent, mark)
  PROVE  /\ WellHeard(w) /\ w.sent[i] = sent /\ w.state[i] = mark
         /\ \A j \in Items : j # i => w.sent[j] = u.sent[j] /\ w.state[j] = u.state[j]
<1>0. /\ WellHeard(u) /\ i \in Items /\ u.state[i] = "added" /\ sent \in Seq(Nat) /\ mark \in {"added", "done"}
      /\ w.order = u.order /\ w.over = u.over
      /\ w.state = [u.state EXCEPT ![i] = mark] /\ w.sent = [u.sent EXCEPT ![i] = sent]
      /\ w = [order |-> w.order, state |-> w.state, sent |-> w.sent, over |-> w.over]
  BY DEF Sends
<1>1. /\ u.order \in Seq(Items) /\ u.state \in [Items -> {"none", "added", "done"}]
      /\ u.sent \in [Items -> Seq(Nat)]
  BY <1>0, HeardParts
<1>2. /\ w.state \in [Items -> {"none", "added", "done"}] /\ w.state[i] = mark
      /\ w.sent \in [Items -> Seq(Nat)] /\ w.sent[i] = sent
      /\ \A j \in Items : j # i => w.sent[j] = u.sent[j] /\ w.state[j] = u.state[j]
  BY <1>0, <1>1
<1>3. /\ \A j \in Items : /\ u.state[j] = "none" => u.sent[j] = <<>>
                          /\ u.state[j] # "none" => \E n \in 1 .. Len(u.order) : u.order[n] = j
      /\ \A n \in 1 .. Len(u.order) : u.order[n] \in Items /\ u.state[u.order[n]] # "none"
      /\ \A m, n \in 1 .. Len(u.order) :
           /\ u.order[m] = u.order[n] => m = n
           /\ m < n /\ ~IsCall(u.order[m]) /\ u.state[u.order[m]] = "added" => IsCall(u.order[n])
  BY <1>0, <1>1 DEF WellHeard
<1>4. \A j \in Items : /\ w.state[j] = "none" => u.state[j] = "none" /\ j # i
                       /\ w.state[j] # "none" => u.state[j] # "none"
                       /\ w.state[j] = "added" => u.state[j] = "added"
  BY <1>0, <1>2
<1>5. /\ \A j \in Items : /\ w.state[j] = "none" => w.sent[j] = <<>>
                          /\ w.state[j] # "none" => \E n \in 1 .. Len(w.order) : w.order[n] = j
      /\ \A n \in 1 .. Len(w.order) : w.state[w.order[n]] # "none"
      /\ \A m, n \in 1 .. Len(w.order) :
           /\ w.order[m] = w.order[n] => m = n
           /\ m < n /\ ~IsCall(w.order[m]) /\ w.state[w.order[m]] = "added" => IsCall(w.order[n])
  <2>1. \A j \in Items : /\ w.state[j] = "none" => w.sent[j] = <<>>
                         /\ w.state[j] # "none" => \E n \in 1 .. Len(w.order) : w.order[n] = j
    BY <1>0, <1>2, <1>3, <1>4
  <2>2. \A n \in 1 .. Len(w.order) : w.state[w.order[n]] # "none"
    BY <1>0, <1>3, <1>4
  <2>3. \A m, n \in 1 .. Len(w.order) :
          /\ w.order[m] = w.order[n] => m = n
          /\ m < n /\ ~IsCall(w.order[m]) /\ w.state[w.order[m]] = "added" => IsCall(w.order[n])
    BY <1>0, <1>3, <1>4
  <2> QED
    BY <2>1, <2>2, <2>3
<1>6. WellHeard(w)
  BY <1>0, <1>1, <1>2, <1>5 DEF WellHeard
<1> QED
  BY <1>2, <1>6

\* What the client of an answer has once it has all that the server holds back.
Shows == AssembleAll(assembler, held)

\* As long as an answer is open, what the client has, once it has what is held back, goes with the
\* blocks of the translator and with what was heard; when it is over, it is all that was heard.
TranslationInvariant ==
  /\ answer \in {"opening", "open", "completed", "incomplete", "failed", "refused"}
  /\ released \in BOOLEAN
  /\ ~released => assembler = NewAssembler
  /\ answer \in {"opening", "refused"} => ~released
  /\ answer = "open" /\ upstream = NothingSent => ~released
  /\ released => held = <<>>
  /\ held \in Seq(Events)
  /\ answer = "open" => WellHeard(upstream) /\ Translator(translator) /\ translator.out = <<>>
  /\ answer = "open" /\ upstream.over = "no" => Paired(Shows, translator, upstream)
  /\ answer = "open" /\ upstream.over # "no" => Over(Shows, translator, upstream)
  /\ answer \in {"completed", "incomplete"} =>
       assembler.final = answer /\ Over(assembler, translator, upstream)
  /\ answer = "failed" => assembler.final = "failed"

\* A new assembler has nothing.
LEMMA NewIsEmpty ==
  /\ NewAssembler.slots = <<>> /\ NewAssembler.final = "open"
  /\ Board(NewAssembler, 0, {})
<1>1. /\ NewAssembler.slots = <<>> /\ NewAssembler.active = <<>> /\ NewAssembler.final = "open"
      /\ NewAssembler = [slots |-> NewAssembler.slots, active |-> NewAssembler.active,
                         provisional |-> NewAssembler.provisional, reason |-> NewAssembler.reason,
                         final |-> "open"]
  BY DEF NewAssembler
<1>2. <<>> \in Seq(Slots) /\ Len(<<>>) = 0 /\ {} \in SUBSET (1 .. 0) /\ \A s \in 1 .. 0 : FALSE
  OBVIOUS
<1>3. <<>> = [b \in {} |-> b]
  OBVIOUS
<1> QED
  BY <1>1, <1>2, <1>3 DEF Board

\* An item is in progress if and only if a block feeds it.
LEMMA BoardIsFinished ==
  ASSUME NEW v, NEW n, NEW O, Board(v, n, O), v.provisional = "none"
  PROVE  \A s \in DOMAIN v.slots :
           (v.slots[s].state = "in_progress") <=> \E b \in DOMAIN v.active : v.active[b] = s
<1>1. /\ v.slots \in Seq(Slots) /\ Len(v.slots) = n
      /\ v.active = [b \in O |-> b]
      /\ \A s \in 1 .. n : /\ s \in O => v.slots[s].state = "in_progress"
                           /\ s \notin O /\ v.slots[s].state = "in_progress" => v.provisional # "none"
  BY DEF Board
<1>2. DOMAIN v.slots = 1 .. n
  BY <1>1
<1>3. \A s \in 1 .. n : v.slots[s].state = "in_progress" <=> s \in O
  BY <1>1
<1>4. \A s : s \in O <=> \E b \in DOMAIN v.active : v.active[b] = s
  BY <1>1
<1> QED
  BY <1>2, <1>3, <1>4

\* As many slots of calls as calls that have a block.
LEMMA AsManyCalls ==
  ASSUME NEW slots, NEW t, NEW u, Content(t, slots, u), t.blocks \in Nat, Len(slots) = t.blocks
  PROVE  Cardinality({s \in 1 .. Len(slots) : slots[s].kind \in {"call", "custom"}})
           = Cardinality({i \in Items : t.calls[i].block # 0})
<1> DEFINE S == {s \in 1 .. t.blocks : slots[s].kind \in {"call", "custom"}}
           C == {i \in Items : t.calls[i].block # 0}
           f == [s \in S |-> CHOOSE i \in C : t.calls[i].block = s]
<1>1. ASSUME NEW s \in S PROVE \E i \in C : t.calls[i].block = s
  <2>1. s \in 1 .. t.blocks /\ slots[s].kind \in {"call", "custom"}
    OBVIOUS
  <2>2. PICK i \in Items : t.calls[i].block = s
    BY <2>1 DEF Content
  <2> QED
    BY <2>1, <2>2
<1>2. ASSUME NEW i \in C PROVE t.calls[i].block \in S
  <2>1. IsCall(i) /\ t.calls[i].block \in 1 .. t.blocks /\ slots[t.calls[i].block].kind = ItemKind[i]
    BY DEF Content
  <2> QED
    BY <2>1 DEF IsCall
<1>3. \A i, j \in C : t.calls[i].block = t.calls[j].block => i = j
  BY DEF Content
<1>4. IsFiniteSet(S) /\ Len(slots) = t.blocks
  <2>1. IsFiniteSet(1 .. t.blocks)
    BY FS_Interval
  <2>2. S \in SUBSET (1 .. t.blocks)
    OBVIOUS
  <2> QED
    BY <2>1, <2>2, FS_Subset
<1> HIDE DEF S, C
<1>5. \A s \in S : f[s] \in C /\ t.calls[f[s]].block = s
  BY <1>1
<1> HIDE DEF f
<1>6. f \in [S -> C]
  BY <1>5 DEF f
<1>7. f \in Injection(S, C)
  BY <1>5, <1>6 DEF Injection, IsInjective
<1>8. f \in Surjection(S, C)
  <2>1. ASSUME NEW i \in C PROVE \E s \in S : f[s] = i
    BY <1>2, <1>3, <1>5
  <2> QED
    BY <1>6, <2>1 DEF Surjection
<1>9. ExistsBijection(S, C)
  BY <1>7, <1>8 DEF ExistsBijection, Bijection
<1>10. Cardinality(C) = Cardinality(S)
  BY <1>4, <1>9, FS_Bijection
<1> QED
  BY <1>4, <1>10 DEF S, C

\* The invariant says that the translation is sound.
LEMMA OverIsFaithful ==
  ASSUME Over(assembler, translator, upstream), assembler.final # "failed"
  PROVE  /\ ShownIn({"text"}) = SentBy("message")
         /\ ShownIn({"thinking"}) = SentBy("reasoning")
         /\ \A i \in Items : ItemKind[i] \in {"call", "custom"} /\ upstream.state[i] = "done" =>
              \E s \in CallSlots : /\ assembler.slots[s].kind = ItemKind[i]
                                   /\ assembler.slots[s].parts = upstream.sent[i]
         /\ Cardinality(CallSlots) = Cardinality({i \in Items : translator.calls[i].block # 0})
         /\ \A s \in DOMAIN assembler.slots :
              /\ assembler.slots[s].state = "completed"
              /\ assembler.slots[s].kind = "call" => Whole(assembler.slots[s].parts)
<1>1. /\ Content(translator, assembler.slots, upstream) /\ assembler.slots \in Seq(Slots)
      /\ translator.blocks \in Nat /\ Len(assembler.slots) = translator.blocks
      /\ \A s \in 1 .. translator.blocks :
           assembler.slots[s].state = "completed" /\ ~CutCall(assembler.slots[s])
  BY DEF Over
<1>2. ShownIn({"text"}) = SentBy("message") /\ ShownIn({"thinking"}) = SentBy("reasoning")
  <2>1. \A K : ShownIn(K) = PartsShown(assembler.slots, K)
    BY DEF ShownIn, PartsShown
  <2>2. \A k : SentBy(k) = PartsSaid(upstream, k)
    BY DEF SentBy, PartsSaid
  <2> QED
    BY <1>1, <2>1, <2>2 DEF Content
<1>3. ASSUME NEW i \in Items, ItemKind[i] \in {"call", "custom"}, upstream.state[i] = "done"
      PROVE  \E s \in CallSlots : /\ assembler.slots[s].kind = ItemKind[i]
                                  /\ assembler.slots[s].parts = upstream.sent[i]
  <2>1. translator.calls[i].block # 0
    BY <1>1, <1>3 DEF Content, IsCall
  <2>2. /\ translator.calls[i].block \in 1 .. translator.blocks
        /\ assembler.slots[translator.calls[i].block].kind = ItemKind[i]
        /\ assembler.slots[translator.calls[i].block].parts = upstream.sent[i]
    BY <1>1, <2>1 DEF Content
  <2>3. translator.calls[i].block \in CallSlots
    BY <1>1, <1>3, <2>2 DEF CallSlots
  <2> QED
    BY <2>2, <2>3
<1>4. Cardinality(CallSlots) = Cardinality({i \in Items : translator.calls[i].block # 0})
  BY <1>1, AsManyCalls DEF CallSlots
<1>5. \A s \in DOMAIN assembler.slots :
        /\ assembler.slots[s].state = "completed"
        /\ assembler.slots[s].kind = "call" => Whole(assembler.slots[s].parts)
  <2>1. DOMAIN assembler.slots = 1 .. translator.blocks
    BY <1>1
  <2> QED
    BY <1>1, <2>1 DEF CutCall
<1> QED
  BY <1>2, <1>3, <1>4, <1>5

\* So the invariant implies what the runs check.
LEMMA TranslationFollows == TranslationInvariant => TranslationIsSound
<1> SUFFICES ASSUME TranslationInvariant PROVE TranslationIsSound
  OBVIOUS
<1>1. TranslationIsFaithful
  BY OverIsFaithful DEF TranslationInvariant, TranslationIsFaithful
<1>2. CASE answer \in {"completed", "incomplete"}
  <2>1. Over(assembler, translator, upstream) /\ assembler.final = answer
    BY <1>2 DEF TranslationInvariant
  <2> QED
    BY <1>1, <1>2, <2>1, OverIsFaithful DEF ItemsAreFinished, TranslationIsSound
<1>3. CASE answer = "failed"
  BY <1>1, <1>3 DEF TranslationInvariant, ItemsAreFinished, TranslationIsSound
<1>4. CASE ~released
  <2>1. assembler.slots = <<>>
    BY <1>4, NewIsEmpty DEF TranslationInvariant
  <2>2. DOMAIN assembler.slots = {}
    BY <2>1
  <2> QED
    BY <1>1, <2>2 DEF ItemsAreFinished, TranslationIsSound
<1>5. CASE released /\ answer = "open"
  <2>1. Shows = assembler
    <3>1. held = <<>>
      BY <1>5 DEF TranslationInvariant
    <3> QED
      BY <3>1, AssembleNone DEF Shows
  <2>2. CASE upstream.over = "no"
    <3>1. Paired(assembler, translator, upstream) /\ translator.out = <<>>
      BY <1>5, <2>1, <2>2 DEF TranslationInvariant
    <3>2. Board(assembler, translator.blocks, OpenBlocks(translator))
      <4>1. Told(assembler, translator) = assembler
        BY <3>1, AssembleNone DEF Told
      <4> QED
        BY <3>1, <4>1 DEF Paired
    <3>3. assembler.final = "open"
      BY <3>2 DEF Board
    <3>4. ItemsAreFinished
      BY <3>2, <3>3, BoardIsFinished DEF ItemsAreFinished
    <3> QED
      BY <1>1, <3>4 DEF TranslationIsSound
  <2>3. CASE upstream.over # "no"
    <3>1. Over(assembler, translator, upstream)
      BY <1>5, <2>1, <2>3 DEF TranslationInvariant
    <3>2. assembler.final # "open"
      BY <3>1 DEF Over
    <3>3. ItemsAreFinished
      BY <3>1, <3>2, OverIsFaithful DEF ItemsAreFinished
    <3> QED
      BY <1>1, <3>3 DEF TranslationIsSound
  <2> QED
    BY <2>2, <2>3
<1> QED
  BY <1>2, <1>3, <1>4, <1>5 DEF TranslationInvariant

\* The events of a step are gone once they are pushed.
LEMMA Quietly ==
  ASSUME NEW t, Translator(t), NEW c, c = [t EXCEPT !.out = <<>>]
  PROVE  /\ Translator(c) /\ c.out = <<>>
         /\ c.blocks = t.blocks /\ c.text = t.text /\ c.thinking = t.thinking /\ c.calls = t.calls
<1>1. PICK blocks, text, thinking, calls, completed, out :
        t = [blocks |-> blocks, text |-> text, thinking |-> thinking, calls |-> calls,
             completed |-> completed, out |-> out]
  BY DEF Translator
<1>2. c = [blocks |-> blocks, text |-> text, thinking |-> thinking, calls |-> calls,
           completed |-> completed, out |-> <<>>]
  BY <1>1
<1>3. /\ c.blocks = t.blocks /\ c.text = t.text /\ c.thinking = t.thinking /\ c.calls = t.calls
      /\ c.completed = completed /\ c.out = <<>>
  BY <1>1, <1>2
<1>4. c = [blocks |-> c.blocks, text |-> c.text, thinking |-> c.thinking, calls |-> c.calls,
           completed |-> c.completed, out |-> c.out]
  BY <1>2
<1>5. /\ t.blocks \in Nat /\ t.text \in Nat /\ t.thinking \in Nat
      /\ t.calls \in [Items -> [block : Nat, fed : BOOLEAN, stopped : BOOLEAN]]
  BY DEF Translator
<1>6. <<>> \in Seq(Events)
  OBVIOUS
<1> QED
  BY <1>3, <1>4, <1>5, <1>6 DEF Translator

\* What was told to the assembler need not be told again.
LEMMA QuietlyPaired ==
  ASSUME NEW base, NEW t, NEW u, Paired(base, t, u), NEW c, c = [t EXCEPT !.out = <<>>],
         NEW v, v = Told(base, t)
  PROVE  Paired(v, c, u)
<1>1. Translator(t) /\ Board(v, t.blocks, OpenBlocks(t)) /\ Content(t, v.slots, u)
  BY DEF Paired
<1>2. /\ Translator(c) /\ c.out = <<>>
      /\ c.blocks = t.blocks /\ c.text = t.text /\ c.thinking = t.thinking /\ c.calls = t.calls
  BY <1>1, Quietly
<1>3. Told(v, c) = v
  BY <1>2, AssembleNone DEF Told
<1>4. OpenBlocks(c) = OpenBlocks(t)
  BY <1>2 DEF OpenBlocks, OpenCalls
<1>5. Content(c, v.slots, u)
  <2>1. t.blocks \in Nat /\ Len(v.slots) = t.blocks
    BY <1>1 DEF Board
  <2>2. SayTheSame(v.slots, v.slots)
    BY DEF SayTheSame
  <2>3. Stops(t, c, u)
    <3>1. \A i \in Items : IsCall(i) /\ u.state[i] # "done" => ~t.calls[i].stopped
      BY <1>1 DEF Content
    <3> QED
      BY <1>2, <3>1 DEF Stops
  <2> QED
    BY <1>1, <2>1, <2>2, <2>3, ContentStops
<1> QED
  BY <1>1, <1>2, <1>3, <1>4, <1>5 DEF Paired

\* Nor is the end.
LEMMA QuietlyOver ==
  ASSUME NEW v, NEW t, NEW u, Translator(t), Over(v, t, u), NEW c, c = [t EXCEPT !.out = <<>>]
  PROVE  Over(v, c, u)
<1>1. c.blocks = t.blocks /\ c.text = t.text /\ c.thinking = t.thinking /\ c.calls = t.calls
  BY Quietly
<1>2. ASSUME v.final # "failed" PROVE Content(c, v.slots, u)
  <2>1. Content(t, v.slots, u) /\ t.blocks \in Nat /\ Len(v.slots) = t.blocks
    BY <1>2 DEF Over
  <2>2. SayTheSame(v.slots, v.slots)
    BY DEF SayTheSame
  <2>3. Stops(t, c, u)
    <3>1. \A i \in Items : IsCall(i) /\ u.state[i] # "done" => ~t.calls[i].stopped
      BY <2>1 DEF Content
    <3> QED
      BY <1>1, <3>1 DEF Stops
  <2> QED
    BY <2>1, <2>2, <2>3, ContentStops
<1> QED
  BY <1>1, <1>2 DEF Over

\* What is pushed is shown, at once or later.
LEMMA Pushed ==
  ASSUME TranslationInvariant, NEW t, Translator(t), Push(t)
  PROVE  /\ Shows' = Told(Shows, t) /\ translator' = [t EXCEPT !.out = <<>>]
         /\ released' \in BOOLEAN /\ held' \in Seq(Events) /\ (released' => held' = <<>>)
         /\ ~released' => assembler' = NewAssembler
<1>1. t.out \in Seq(Events)
  BY DEF Translator
<1>2. held \in Seq(Events) /\ released \in BOOLEAN /\ (~released => assembler = NewAssembler)
  BY DEF TranslationInvariant
<1>3. AssembleAll(assembler, held \o t.out) = Told(Shows, t)
  BY <1>1, <1>2, AssembleMore DEF Told, Shows
<1>4. translator' = [t EXCEPT !.out = <<>>]
  BY DEF Push
<1>5. CASE /\ ~released
           /\ held' = held \o t.out
           /\ UNCHANGED <<released, assembler>>
  <2>1. held' \in Seq(Events)
    BY <1>1, <1>2, <1>5
  <2>2. Shows' = AssembleAll(assembler, held \o t.out)
    BY <1>5 DEF Shows
  <2> QED
    BY <1>2, <1>3, <1>4, <1>5, <2>1, <2>2
<1>6. CASE /\ released' = TRUE
           /\ held' = <<>>
           /\ assembler' = AssembleAll(assembler, held \o t.out)
  <2>1. <<>> \in Seq(Events)
    OBVIOUS
  <2>2. Shows' = AssembleAll(AssembleAll(assembler, held \o t.out), <<>>)
    BY <1>6 DEF Shows
  <2>3. Shows' = Told(Shows, t)
    BY <1>3, <2>2, AssembleNone
  <2> QED
    BY <1>4, <1>6, <2>1, <2>3
<1> QED
  BY <1>5, <1>6 DEF Push

\* An answer goes on.
Continues(t, w) ==
  /\ answer = "open" /\ answer' = answer /\ upstream' = w /\ Push(t)
  /\ WellHeard(w) /\ w # NothingSent

\* An answer that goes on keeps the invariant.
LEMMA AnswerGoesOn ==
  ASSUME TranslationInvariant, NEW t, NEW w, Continues(t, w), w.over = "no", Paired(Shows, t, w)
  PROVE  TranslationInvariant'
<1>1. Translator(t)
  BY DEF Paired
<1>2. answer = "open" /\ answer' = answer /\ upstream' = w /\ Push(t) /\ WellHeard(w) /\ w # NothingSent
  BY DEF Continues
<1>3. /\ Shows' = Told(Shows, t) /\ translator' = [t EXCEPT !.out = <<>>]
      /\ released' \in BOOLEAN /\ held' \in Seq(Events) /\ (released' => held' = <<>>)
      /\ ~released' => assembler' = NewAssembler
  BY <1>1, <1>2, Pushed
<1>4. Paired(Shows', translator', upstream')
  <2> DEFINE base == Shows
             v == Shows'
             c == translator'
  <2>1. v = Told(base, t) /\ c = [t EXCEPT !.out = <<>>] /\ Paired(base, t, w)
    BY <1>3
  <2> HIDE DEF base, v, c
  <2>2. Paired(v, c, w)
    BY <2>1, QuietlyPaired
  <2> QED
    BY <1>2, <2>2 DEF v, c
<1>5. Translator(translator') /\ translator'.out = <<>>
  BY <1>1, <1>3, Quietly
<1>6. WellHeard(upstream') /\ upstream' # NothingSent /\ upstream'.over = "no" /\ answer' = "open"
  BY <1>2
<1> QED
  BY <1>3, <1>4, <1>5, <1>6 DEF TranslationInvariant

\* So does one that is over upstream.
LEMMA AnswerGoesOver ==
  ASSUME TranslationInvariant, NEW t, NEW w, Continues(t, w), w.over # "no", Translator(t),
         Over(Told(Shows, t), t, w)
  PROVE  TranslationInvariant'
<1>2. answer = "open" /\ answer' = answer /\ upstream' = w /\ Push(t) /\ WellHeard(w) /\ w # NothingSent
  BY DEF Continues
<1>3. /\ Shows' = Told(Shows, t) /\ translator' = [t EXCEPT !.out = <<>>]
      /\ released' \in BOOLEAN /\ held' \in Seq(Events) /\ (released' => held' = <<>>)
      /\ ~released' => assembler' = NewAssembler
  BY <1>2, Pushed
<1>4. Over(Shows', translator', upstream')
  <2> DEFINE v == Shows'
             c == translator'
  <2>1. Over(v, t, w) /\ c = [t EXCEPT !.out = <<>>]
    BY <1>3
  <2> HIDE DEF v, c
  <2>2. Over(v, c, w)
    BY <2>1, QuietlyOver
  <2> QED
    BY <1>2, <2>2 DEF v, c
<1>5. Translator(translator') /\ translator'.out = <<>>
  BY <1>3, Quietly
<1>6. WellHeard(upstream') /\ upstream' # NothingSent /\ upstream'.over # "no" /\ answer' = "open"
  BY <1>2
<1> QED
  BY <1>3, <1>4, <1>5, <1>6 DEF TranslationInvariant

\* The invariant holds at first.
LEMMA TranslationStarts == TranslationInit => TranslationInvariant
<1> SUFFICES ASSUME TranslationInit PROVE TranslationInvariant
  OBVIOUS
<1>1. <<>> \in Seq(Events)
  OBVIOUS
<1> QED
  BY <1>1 DEF TranslationInit, TranslationInvariant

\* A new attempt has nothing of the last one.
LEMMA OpenUpstreamKeeps ==
  ASSUME TranslationInvariant, OpenUpstream PROVE TranslationInvariant'
<1> DEFINE c == [Fresh EXCEPT !.out = <<>>]
           event == [e |-> "message_start"]
<1>1. /\ answer = "opening" /\ answer' = "open" /\ upstream' = NothingSent /\ translator' = c
      /\ held' = Fresh.out /\ released' = released /\ assembler' = assembler
  BY DEF OpenUpstream
<1>2. /\ c = [blocks |-> 0, text |-> 0, thinking |-> 0, calls |-> [i \in Items |-> NoCall],
              completed |-> FALSE, out |-> <<>>]
      /\ held' = <<event>>
  <2> DEFINE f == Fresh
  <2>1. f = [blocks |-> 0, text |-> 0, thinking |-> 0, calls |-> [i \in Items |-> NoCall],
              completed |-> FALSE, out |-> <<event>>]
    BY DEF Fresh
  <2>2. c = [f EXCEPT !.out = <<>>] /\ held' = f.out
    BY <1>1
  <2> HIDE DEF f, c, event
  <2> QED
    BY <2>1, <2>2
<1> HIDE DEF c
<1>3. assembler = NewAssembler /\ ~released
  BY <1>1 DEF TranslationInvariant
<1>4. event \in Events
  BY EventsAre
<1>4a. held' \in Seq(Events)
  <2> HIDE DEF event
  <2> QED
    BY <1>2, <1>4
<1>5. Shows' = NewAssembler
  <2>1. Assemble(NewAssembler, event) = NewAssembler
    BY NewIsEmpty DEF Assemble
  <2> HIDE DEF event
  <2> QED
    BY <1>1, <1>2, <1>3, <2>1, AssembleOne DEF Shows
<1>6. /\ c.blocks = 0 /\ c.text = 0 /\ c.thinking = 0 /\ c.calls = [i \in Items |-> NoCall] /\ c.out = <<>>
  BY <1>2
<1>7. Translator(c)
  <2>1. [i \in Items |-> NoCall] \in [Items -> [block : Nat, fed : BOOLEAN, stopped : BOOLEAN]]
    BY DEF NoCall
  <2>2. <<>> \in Seq(Events)
    OBVIOUS
  <2>3. c = [blocks |-> c.blocks, text |-> c.text, thinking |-> c.thinking, calls |-> c.calls,
             completed |-> c.completed, out |-> c.out]
    BY <1>2
  <2> QED
    BY <1>6, <2>1, <2>2, <2>3 DEF Translator
<1>8. \A i \in Items : c.calls[i].block = 0 /\ ~c.calls[i].fed /\ ~c.calls[i].stopped
  BY <1>6 DEF NoCall
<1>9. OpenBlocks(c) = {}
  BY <1>6, <1>8 DEF OpenBlocks, OpenCalls
<1>10. Told(NewAssembler, c) = NewAssembler
  BY <1>6, AssembleNone DEF Told
<1>11. Content(c, NewAssembler.slots, NothingSent)
  <2>1. /\ NothingSent.order = <<>> /\ \A i \in Items : NothingSent.sent[i] = <<>> /\ NothingSent.state[i] = "none"
    BY DEF NothingSent
  <2>2. \A K, k : PartsShown(NewAssembler.slots, K) = PartsSaid(NothingSent, k)
    <3> TAKE K, k
    <3> DEFINE p == NewAssembler.slots
               q == NothingSent.order
               f == [s \in 1 .. Len(p) |-> IF p[s].kind \in K THEN p[s].parts ELSE <<>>]
               g == [n \in 1 .. Len(q) |-> IF ItemKind[q[n]] = k THEN NothingSent.sent[q[n]] ELSE <<>>]
    <3>1. Len(p) = 0 /\ Len(q) = 0
      BY <2>1, NewIsEmpty
    <3> HIDE DEF p, q
    <3>2. f = g
      BY <3>1
    <3> HIDE DEF f, g
    <3>3. FlattenSeq(f) = FlattenSeq(g)
      BY <3>2
    <3> QED
      BY <3>3 DEF PartsShown, PartsSaid, f, g, p, q
  <2> QED
    BY <1>6, <1>8, <2>1, <2>2 DEF Content
<1>12. Paired(NewAssembler, c, NothingSent)
  BY <1>6, <1>7, <1>9, <1>10, <1>11, NewIsEmpty DEF Paired
<1>13. NothingSent.over = "no"
  BY DEF NothingSent
<1> QED
  BY <1>1, <1>3, <1>4a, <1>5, <1>6, <1>7, <1>12, <1>13, HeardNothing DEF TranslationInvariant

\* Access that is renewed.
LEMMA UnauthorizedKeeps ==
  ASSUME TranslationInvariant, Unauthorized PROVE TranslationInvariant'
<1>1. /\ answer = "open" /\ upstream = NothingSent /\ held' = <<>>
      /\ answer' \in {"opening", "refused"}
      /\ UNCHANGED <<upstream, translator, released, assembler>>
  BY DEF Unauthorized
<1>2. ~released /\ <<>> \in Seq(Events)
  BY <1>1 DEF TranslationInvariant
<1> QED
  BY <1>1, <1>2 DEF TranslationInvariant

\* An item that is announced.
LEMMA ItemAddedKeeps ==
  ASSUME TranslationInvariant, NEW i \in Items, ItemAdded(i) PROVE TranslationInvariant'
<1> DEFINE u == upstream
           w == upstream'
           alone == \A j \in Items : u.state[j] # "added"
<1>0. u.state[i] = "none" /\ (IsCall(i) \/ alone)
  BY DEF ItemAdded, IsCall
<1>1. /\ answer = "open" /\ u.over = "no"
      /\ w = [u EXCEPT !.state[i] = "added", !.order = Append(@, i)]
      /\ UNCHANGED <<translator, held, released, assembler, answer>>
  BY DEF ItemAdded, Receiving, IsCall
<1>2. WellHeard(u) /\ Paired(Shows, translator, u)
  BY <1>1 DEF TranslationInvariant
<1> HIDE DEF w
<1>3. Announced(u, w, i) /\ w.over = u.over
  <2>1. u = [order |-> u.order, state |-> u.state, sent |-> u.sent, over |-> u.over]
    BY <1>2, HeardParts
  <2> HIDE DEF u
  <2>2. PICK o, s, r, v : u = [order |-> o, state |-> s, sent |-> r, over |-> v]
    BY <2>1
  <2> DEFINE order == Append(o, i)
             state == [s EXCEPT ![i] = "added"]
  <2>3. w = [[u EXCEPT !.state = state] EXCEPT !.order = order]
    BY <1>1, <2>2
  <2>4. order = Append(u.order, i) /\ state = [u.state EXCEPT ![i] = "added"]
    BY <2>2
  <2> HIDE DEF order, state
  <2>5. w = [order |-> order, state |-> state, sent |-> r, over |-> v]
    BY <2>2, <2>3
  <2>6. w.order = order /\ w.state = state /\ w.sent = u.sent /\ w.over = u.over
    BY <2>2, <2>5
  <2> QED
    BY <2>4, <2>5, <2>6 DEF Announced
<1> HIDE DEF u
<1>4. WellHeard(w) /\ w.state[i] = "added" /\ \A j \in Items : j # i => w.state[j] = u.state[j]
  <2> HIDE DEF alone
  <2>1. CASE IsCall(i)
    BY <1>0, <1>2, <1>3, <2>1, HeardAdded
  <2>2. CASE alone
    <3>1. \A j \in Items : u.state[j] # "added"
      BY <2>2 DEF alone
    <3> QED
      BY <1>0, <1>2, <1>3, <3>1, HeardAdded
  <2> QED
    BY <1>0, <2>1, <2>2
<1>5. w.sent = u.sent /\ w.order = Append(u.order, i)
  BY <1>3 DEF Announced
<1>6. \A k : PartsSaid(w, k) = PartsSaid(u, k)
  <2> HIDE DEF alone
  <2>1. WellHeard(u) /\ u.state[i] = "none"
    BY <1>0, <1>2
  <2> TAKE k
  <2> QED
    BY <1>5, <2>1, SaidAdded
<1>7. Shows' = Shows
  BY <1>1 DEF Shows
<1>8. Content(translator, Told(Shows, translator).slots, w)
  <2> DEFINE p == Told(Shows, translator).slots
  <2>1. Content(translator, p, u)
    BY <1>2 DEF Paired
  <2>2. \A j \in Items : IsCall(j) =>
          /\ w.sent[j] = u.sent[j]
          /\ translator.calls[j].block = 0 => w.state[j] # "done"
          /\ w.state[j] # "done" => u.state[j] # "done"
    <3>1. \A j \in Items : IsCall(j) => (translator.calls[j].block = 0 => u.state[j] # "done")
      BY <2>1 DEF Content
    <3> DEFINE calls == translator.calls
    <3>2. u.state[i] = "none" /\ w.sent = u.sent
      BY <1>0, <1>5
    <3>3. \A j \in Items : j # i => w.state[j] = u.state[j]
      BY <1>4
    <3>4. w.state[i] = "added"
      BY <1>4
    <3> HIDE DEF alone, p, calls
    <3> QED
      BY <3>1, <3>2, <3>3, <3>4
  <2> HIDE DEF p
  <2>3. Content(translator, p, w)
    BY <1>6, <2>1, <2>2, ContentHears
  <2> QED
    BY <2>3 DEF p
<1>9. Paired(Shows, translator, w)
  BY <1>2, <1>8 DEF Paired
<1>10. w # NothingSent
  <2>1. NothingSent.state[i] = "none"
    BY DEF NothingSent
  <2> QED
    BY <1>4, <2>1
<1>11. Paired(Shows', translator', upstream') /\ WellHeard(upstream') /\ upstream'.over = "no" /\ upstream' # NothingSent
  BY <1>1, <1>3, <1>4, <1>7, <1>9, <1>10 DEF u, w
<1> QED
  BY <1>1, <1>11 DEF TranslationInvariant

\* What was heard of an open item grows by a fragment.
GrowsBy(u, w, i, x) ==
  /\ WellHeard(w) /\ w.order = u.order /\ w.over = u.over /\ w.state = u.state
  /\ x \in Seq(Nat) /\ w.sent[i] = u.sent[i] \o x /\ w.sent[i] # <<>>
  /\ \A j \in Items : j # i => w.sent[j] = u.sent[j]

\* A fragment is appended.
LEMMA OneFragment ==
  ASSUME NEW s \in Seq(Nat), NEW n \in Nat
  PROVE  /\ Append(s, n) = s \o <<n>> /\ Append(s, n) \in Seq(Nat) /\ Append(s, n) # <<>>
         /\ <<n>> \in Seq(Nat)
OBVIOUS

\* A fragment of an item is heard.
Hearing(u, w, i, n) == w = [u EXCEPT !.sent[i] = Append(@, n)]

\* So what was heard of the item grows.
LEMMA DeltaHears ==
  ASSUME NEW u, WellHeard(u), NEW i \in Items, u.state[i] = "added", NEW n \in Nat,
         NEW w, Hearing(u, w, i, n)
  PROVE  GrowsBy(u, w, i, <<n>>)
<1>1. /\ u.order \in Seq(Items) /\ u.state \in [Items -> {"none", "added", "done"}]
      /\ u.sent \in [Items -> Seq(Nat)]
      /\ u = [order |-> u.order, state |-> u.state, sent |-> u.sent, over |-> u.over]
  BY HeardParts
<1>2. PICK o, s, r, v : u = [order |-> o, state |-> s, sent |-> r, over |-> v]
  BY <1>1
<1> DEFINE said == Append(u.sent[i], n)
           sent == [r EXCEPT ![i] = said]
<1>3. u.order = o /\ u.state = s /\ u.sent = r /\ u.over = v
  BY <1>2
<1>4. w = [u EXCEPT !.sent = sent]
  BY <1>2, <1>3 DEF Hearing
<1>5. said = u.sent[i] \o <<n>> /\ said \in Seq(Nat) /\ said # <<>> /\ <<n>> \in Seq(Nat)
  BY <1>1, OneFragment
<1> HIDE DEF said
<1>6. sent = [u.sent EXCEPT ![i] = said]
  BY <1>3
<1>7. s = [u.state EXCEPT ![i] = "added"]
  BY <1>1, <1>3
<1> HIDE DEF sent
<1>8. w = [order |-> o, state |-> s, sent |-> sent, over |-> v]
  BY <1>2, <1>4
<1>9. w.order = o /\ w.state = s /\ w.sent = sent /\ w.over = v
  BY <1>8
<1>10. /\ w.order = u.order /\ w.over = u.over
       /\ w.state = [u.state EXCEPT ![i] = "added"] /\ w.sent = [u.sent EXCEPT ![i] = said]
       /\ w = [order |-> w.order, state |-> w.state, sent |-> w.sent, over |-> w.over]
  BY <1>3, <1>6, <1>7, <1>8, <1>9
<1>11. /\ WellHeard(w) /\ w.sent[i] = said
       /\ \A j \in Items : j # i => w.sent[j] = u.sent[j] /\ w.state[j] = u.state[j]
  <2> DEFINE mark == "added"
  <2>1. Sends(u, w, i, said, mark)
    BY <1>5, <1>10 DEF Sends
  <2> HIDE DEF mark
  <2> QED
    BY <2>1, HeardSends
<1>12. w.state = u.state
  BY <1>3, <1>9
<1> QED
  BY <1>5, <1>10, <1>11, <1>12 DEF GrowsBy

\* A message or a thought says more, and nothing else does.
LEMMA GrowsAdds ==
  ASSUME NEW u, WellHeard(u), NEW i \in Items, u.state[i] = "added", NEW w, NEW x, GrowsBy(u, w, i, x),
         ItemKind[i] \in {"message", "reasoning"}
  PROVE  Adds(u, w, ItemKind[i], x)
<1> DEFINE k == ItemKind[i]
<1>1. ~IsCall(i)
  BY DEF IsCall
<1>2. /\ x \in Seq(Nat) /\ WellHeard(w) /\ w.order = u.order /\ w.state = u.state
      /\ w.sent[i] = u.sent[i] \o x /\ \A j \in Items : j # i => w.sent[j] = u.sent[j]
  BY DEF GrowsBy
<1>3. PartsSaid(w, k) = PartsSaid(u, k) \o x
  BY <1>1, <1>2, SaidMore
<1>4. \A m \in {"message", "reasoning"} \ {k} : PartsSaid(w, m) = PartsSaid(u, m)
  <2> TAKE m \in {"message", "reasoning"} \ {k}
  <2>1. \A j \in Items : ItemKind[j] = m => w.sent[j] = u.sent[j]
    BY <1>2
  <2> QED
    BY <1>2, <2>1, SaidSame
<1>5. \A j \in Items : IsCall(j) => w.sent[j] = u.sent[j] /\ w.state[j] = u.state[j]
  BY <1>1, <1>2
<1> QED
  BY <1>2, <1>3, <1>4, <1>5 DEF Adds

\* What a call sends is no message and no thought.
LEMMA CallsAreSilent ==
  ASSUME NEW u, NEW w, WellHeard(u), w.order = u.order, NEW i \in Items, IsCall(i),
         \A j \in Items : j # i => w.sent[j] = u.sent[j]
  PROVE  PartsSaid(w, "message") = PartsSaid(u, "message") /\ PartsSaid(w, "reasoning") = PartsSaid(u, "reasoning")
<1>1. ASSUME NEW k \in {"message", "reasoning"} PROVE PartsSaid(w, k) = PartsSaid(u, k)
  <2>1. \A j \in Items : ItemKind[j] = k => w.sent[j] = u.sent[j]
    BY DEF IsCall
  <2> QED
    BY <2>1, SaidSame
<1> QED
  BY <1>1

\* A call has more arguments.
LEMMA GrowsCalls ==
  ASSUME NEW u, WellHeard(u), NEW i \in Items, u.state[i] = "added", NEW w, NEW x, GrowsBy(u, w, i, x),
         IsCall(i)
  PROVE  CallAdds(u, w, i, x)
<1>1. /\ x \in Seq(Nat) /\ w.order = u.order /\ w.state = u.state
      /\ w.sent[i] = u.sent[i] \o x /\ \A j \in Items : j # i => w.sent[j] = u.sent[j]
  BY DEF GrowsBy
<1>2. PartsSaid(w, "message") = PartsSaid(u, "message") /\ PartsSaid(w, "reasoning") = PartsSaid(u, "reasoning")
  BY <1>1, CallsAreSilent
<1>3. u.state[i] # "done"
  OBVIOUS
<1>4. \A j \in Items : j # i /\ IsCall(j) => w.sent[j] = u.sent[j] /\ w.state[j] = u.state[j]
  BY <1>1
<1> QED
  BY <1>1, <1>2, <1>3, <1>4 DEF CallAdds

\* A fragment of an item, told by the translator as its kind asks for.
FedTo(t, i, x) ==
  CASE ItemKind[i] = "message" -> TextDelta(t, x)
    [] ItemKind[i] = "reasoning" -> ReasoningDelta(t, x)
    [] OTHER -> ToolDelta(t, i, x)

\* A fragment of any kind keeps the pair.
LEMMA FedGoesOn ==
  ASSUME NEW base, NEW t, NEW u, Paired(base, t, u), WellHeard(u), NEW i \in Items, u.state[i] = "added",
         ItemKind[i] # "sealed", NEW w, NEW x, GrowsBy(u, w, i, x), NEW t2, t2 = FedTo(t, i, x)
  PROVE  Paired(base, t2, w)
<1>1. CASE ItemKind[i] = "message"
  <2>1. Adds(u, w, "message", x)
    BY <1>1, GrowsAdds
  <2>2. t2 = TextDelta(t, x)
    BY <1>1 DEF FedTo
  <2> QED
    BY <2>1, <2>2, TextGoesOn
<1>2. CASE ItemKind[i] = "reasoning"
  <2>1. Adds(u, w, "reasoning", x)
    BY <1>2, GrowsAdds
  <2>2. t2 = ReasoningDelta(t, x)
    BY <1>2 DEF FedTo
  <2> QED
    BY <2>1, <2>2, ThoughtGoesOn
<1>3. CASE IsCall(i)
  <2>1. CallAdds(u, w, i, x)
    BY <1>3, GrowsCalls
  <2>2. t2 = ToolDelta(t, i, x)
    BY <1>3 DEF FedTo, IsCall
  <2>3. w.sent[i] # <<>>
    BY DEF GrowsBy
  <2> QED
    BY <2>1, <2>2, <2>3, ToolGoesOn
<1> QED
  BY <1>1, <1>2, <1>3, TranslationAssumption DEF IsCall

\* A fragment of an item.
LEMMA FragmentKeeps ==
  ASSUME TranslationInvariant, NEW i \in Items, Delta_(i) PROVE TranslationInvariant'
<1> DEFINE u == upstream
           w == upstream'
           n == Len(u.sent[i]) + 1
           x == <<n>>
           t == translator
           c == FedTo(t, i, x)
<1>1. answer = "open" /\ u.over = "no" /\ u.state[i] = "added" /\ ItemKind[i] # "sealed"
  BY DEF Delta_, Receiving
<1>2. Hearing(u, w, i, n)
  BY DEF Delta_, Hearing
<1>3. Push(c)
  BY DEF Delta_, FedTo
<1>4. answer' = answer
  BY DEF Delta_
<1>5. WellHeard(u) /\ Paired(Shows, t, u)
  BY <1>1 DEF TranslationInvariant
<1>6. n \in Nat
  <2>1. u.sent[i] \in Seq(Nat)
    BY <1>5, HeardParts
  <2> QED
    BY <2>1
<1> HIDE DEF u, w, n, t, c
<1>7. GrowsBy(u, w, i, x)
  BY <1>1, <1>2, <1>5, <1>6, DeltaHears
<1> HIDE DEF x
<1>8. c = FedTo(t, i, x)
  BY DEF c
<1>9. Paired(Shows, c, w)
  BY <1>1, <1>5, <1>7, <1>8, FedGoesOn
<1>10. WellHeard(w) /\ w.over = "no" /\ w.state = u.state
  BY <1>1, <1>7 DEF GrowsBy
<1>11. w # NothingSent
  <2>1. NothingSent.state[i] = "none"
    BY DEF NothingSent
  <2> QED
    BY <1>1, <1>10, <2>1
<1>12. Continues(c, w)
  BY <1>1, <1>3, <1>4, <1>10, <1>11 DEF Continues, w
<1> QED
  BY <1>9, <1>10, <1>12, AnswerGoesOn

\* Nothing that the translator tells of changes.
Silent(u, w) ==
  /\ PartsSaid(w, "message") = PartsSaid(u, "message") /\ PartsSaid(w, "reasoning") = PartsSaid(u, "reasoning")
  /\ \A j \in Items : IsCall(j) => w.sent[j] = u.sent[j] /\ w.state[j] = u.state[j]

\* What is silent changes no content.
LEMMA ContentSilent ==
  ASSUME NEW t, NEW p, NEW u, Content(t, p, u), NEW w, Silent(u, w)
  PROVE  Content(t, p, w)
<1>1. \A j \in Items : IsCall(j) =>
        /\ w.sent[j] = u.sent[j]
        /\ t.calls[j].block = 0 => w.state[j] # "done"
        /\ w.state[j] # "done" => u.state[j] # "done"
  <2>1. \A j \in Items : IsCall(j) /\ t.calls[j].block = 0 => u.state[j] # "done"
    BY DEF Content
  <2> QED
    BY <2>1 DEF Silent
<1>2. PartsSaid(w, "message") = PartsSaid(u, "message") /\ PartsSaid(w, "reasoning") = PartsSaid(u, "reasoning")
  BY DEF Silent
<1> QED
  BY <1>1, <1>2, ContentHears

\* Nor the pair.
LEMMA PairedSilent ==
  ASSUME NEW base, NEW t, NEW u, Paired(base, t, u), NEW w, Silent(u, w)
  PROVE  Paired(base, t, w)
BY ContentSilent DEF Paired

\* An open item is done, with what it says in all.
Ending(u, w, i, said) == w = [u EXCEPT !.state[i] = "done", !.sent[i] = said]

\* So the item is done, and the others are as they were.
Ended(u, w, i, said) ==
  /\ WellHeard(w) /\ w.order = u.order /\ w.over = u.over /\ said \in Seq(Nat)
  /\ w.state[i] = "done" /\ w.sent[i] = said
  /\ \A j \in Items : j # i => w.sent[j] = u.sent[j] /\ w.state[j] = u.state[j]

\* The end of an item is heard.
LEMMA DoneHears ==
  ASSUME NEW u, WellHeard(u), NEW i \in Items, u.state[i] = "added", NEW said \in Seq(Nat),
         NEW w, Ending(u, w, i, said)
  PROVE  Ended(u, w, i, said)
<1>1. u = [order |-> u.order, state |-> u.state, sent |-> u.sent, over |-> u.over]
  BY HeardParts
<1>2. PICK o, s, r, v : u = [order |-> o, state |-> s, sent |-> r, over |-> v]
  BY <1>1
<1> DEFINE mark == "done"
           state == [s EXCEPT ![i] = mark]
           sent == [r EXCEPT ![i] = said]
<1>3. u.order = o /\ u.state = s /\ u.sent = r /\ u.over = v
  BY <1>2
<1>4. w = [[u EXCEPT !.state = state] EXCEPT !.sent = sent]
  BY <1>2, <1>3 DEF Ending
<1>5. mark = "done" /\ mark \in {"added", "done"}
  OBVIOUS
<1> HIDE DEF mark
<1>6. state = [u.state EXCEPT ![i] = mark] /\ sent = [u.sent EXCEPT ![i] = said]
  BY <1>3
<1> HIDE DEF state, sent
<1>8. w = [order |-> o, state |-> state, sent |-> sent, over |-> v]
  BY <1>2, <1>4
<1>9. w.order = o /\ w.state = state /\ w.sent = sent /\ w.over = v
  BY <1>8
<1>10. Sends(u, w, i, said, mark)
  BY <1>3, <1>5, <1>6, <1>8, <1>9 DEF Sends
<1>11. /\ WellHeard(w) /\ w.sent[i] = said /\ w.state[i] = mark
       /\ \A j \in Items : j # i => w.sent[j] = u.sent[j] /\ w.state[j] = u.state[j]
  BY <1>10, HeardSends
<1> QED
  BY <1>3, <1>5, <1>9, <1>11 DEF Ended

\* The end of an item that is no call says nothing.
LEMMA DoneIsSilent ==
  ASSUME NEW u, WellHeard(u), NEW i \in Items, ~IsCall(i), NEW w, Ended(u, w, i, u.sent[i])
  PROVE  Silent(u, w)
<1>1. \A j \in Items : w.sent[j] = u.sent[j]
  BY DEF Ended
<1>2. \A k : PartsSaid(w, k) = PartsSaid(u, k)
  BY <1>1, SaidSame DEF Ended
<1>3. \A j \in Items : IsCall(j) => w.state[j] = u.state[j]
  BY DEF Ended
<1> QED
  BY <1>1, <1>2, <1>3 DEF Silent

\* The end of a call may bring its arguments.
LEMMA DoneEndsCalls ==
  ASSUME NEW u, WellHeard(u), NEW i \in Items, IsCall(i), u.state[i] = "added", NEW said,
         said = u.sent[i] \/ u.sent[i] = <<>>, NEW w, Ended(u, w, i, said)
  PROVE  CallFinishes(u, w, i, said)
<1>1. /\ w.order = u.order /\ said \in Seq(Nat) /\ w.state[i] = "done" /\ w.sent[i] = said
      /\ \A j \in Items : j # i => w.sent[j] = u.sent[j] /\ w.state[j] = u.state[j]
  BY DEF Ended
<1>2. PartsSaid(w, "message") = PartsSaid(u, "message") /\ PartsSaid(w, "reasoning") = PartsSaid(u, "reasoning")
  BY <1>1, CallsAreSilent
<1>3. u.state[i] # "done"
  OBVIOUS
<1> QED
  BY <1>1, <1>2, <1>3 DEF CallFinishes

\* What the translator makes of the end of an item.
Finished(t, i, said) ==
  CASE ItemKind[i] = "sealed" -> SealedDone(t)
    [] ItemKind[i] \in {"call", "custom"} -> CallDone(t, i, said)
    [] OTHER -> t

\* The end of an item keeps the pair.
LEMMA FinishedGoesOn ==
  ASSUME NEW base, NEW t, NEW u, Paired(base, t, u), WellHeard(u), NEW i \in Items, u.state[i] = "added",
         NEW said, said = u.sent[i] \/ u.sent[i] = <<>>, ~IsCall(i) => said = u.sent[i],
         NEW w, Ended(u, w, i, said), NEW t2, t2 = Finished(t, i, said)
  PROVE  Paired(base, t2, w)
<1>1. CASE IsCall(i)
  <2>1. CallFinishes(u, w, i, said)
    BY <1>1, DoneEndsCalls
  <2>2. t2 = CallDone(t, i, said)
    BY <1>1 DEF Finished, IsCall
  <2>3. said \in Seq(Nat)
    BY DEF Ended
  <2> QED
    BY <2>1, <2>2, <2>3, CallIsDone
<1>2. CASE ~IsCall(i)
  <2>1. Silent(u, w)
    BY <1>2, DoneIsSilent
  <2>2. CASE ItemKind[i] = "sealed"
    <3>1. t2 = SealedDone(t)
      BY <2>2 DEF Finished
    <3>2. Paired(base, t2, u)
      BY <3>1, SealedIsDone
    <3> QED
      BY <2>1, <3>2, PairedSilent
  <2>3. CASE ItemKind[i] # "sealed"
    <3>1. t2 = t
      BY <1>2, <2>3 DEF Finished, IsCall
    <3> QED
      BY <2>1, <3>1, PairedSilent
  <2> QED
    BY <2>2, <2>3
<1> QED
  BY <1>1, <1>2

\* An item that is done.
LEMMA ItemDoneKeeps ==
  ASSUME TranslationInvariant, NEW i \in Items, ItemDone(i) PROVE TranslationInvariant'
<1> DEFINE u == upstream
           w == upstream'
           t == translator
<1>1. answer = "open" /\ u.over = "no" /\ u.state[i] = "added" /\ answer' = answer
  BY DEF ItemDone, Receiving
<1>2. PICK said \in {u.sent[i]} \cup (IF u.sent[i] = <<>> THEN {<<1, 2>>} ELSE {}) :
        /\ ~IsCall(i) => said = u.sent[i]
        /\ Ending(u, w, i, said)
        /\ Push(Finished(t, i, said))
  BY DEF ItemDone, Ending, Finished, IsCall
<1> DEFINE c == Finished(t, i, said)
<1>3. WellHeard(u) /\ Paired(Shows, t, u)
  BY <1>1 DEF TranslationInvariant
<1>4. said = u.sent[i] \/ u.sent[i] = <<>>
  BY <1>2
<1>5. said \in Seq(Nat)
  <2>1. u.sent[i] \in Seq(Nat)
    BY <1>3, HeardParts
  <2>2. <<1, 2>> \in Seq(Nat)
    OBVIOUS
  <2>3. said = u.sent[i] \/ said = <<1, 2>>
    BY <1>2
  <2> QED
    BY <2>1, <2>2, <2>3
<1>6. ~IsCall(i) => said = u.sent[i]
  BY <1>2
<1>7. Ending(u, w, i, said) /\ Push(c)
  BY <1>2
<1> HIDE DEF u, w, t, c
<1>8. Ended(u, w, i, said)
  BY <1>1, <1>3, <1>5, <1>7, DoneHears
<1>9. c = Finished(t, i, said)
  BY DEF c
<1>10. Paired(Shows, c, w)
  BY <1>1, <1>3, <1>4, <1>6, <1>8, <1>9, FinishedGoesOn
<1>11. WellHeard(w) /\ w.over = "no" /\ w.state[i] = "done"
  BY <1>1, <1>8 DEF Ended
<1>12. w # NothingSent
  <2>1. NothingSent.state[i] = "none"
    BY DEF NothingSent
  <2> QED
    BY <1>11, <2>1
<1>13. Continues(c, w)
  BY <1>1, <1>7, <1>11, <1>12 DEF Continues, w
<1> QED
  BY <1>10, <1>11, <1>13, AnswerGoesOn

\* The upstream is over.
Ceasing(u, w, how) == w = [u EXCEPT !.over = how]

\* Being over says nothing.
LEMMA OverHears ==
  ASSUME NEW u, WellHeard(u), NEW how, NEW w, Ceasing(u, w, how)
  PROVE  WellHeard(w) /\ Silent(u, w) /\ w.over = how
<1>1. u = [order |-> u.order, state |-> u.state, sent |-> u.sent, over |-> u.over]
  BY HeardParts
<1>2. PICK o, s, r, v : u = [order |-> o, state |-> s, sent |-> r, over |-> v]
  BY <1>1
<1>3. w = [order |-> o, state |-> s, sent |-> r, over |-> how]
  BY <1>2 DEF Ceasing
<1>4. w.order = u.order /\ w.state = u.state /\ w.sent = u.sent /\ w.over = how
  BY <1>2, <1>3
<1>5. w = [order |-> w.order, state |-> w.state, sent |-> w.sent, over |-> w.over]
  BY <1>3
<1>6. WellHeard(w)
  BY <1>4, <1>5 DEF WellHeard
<1>7. \A k : PartsSaid(w, k) = PartsSaid(u, k)
  BY <1>4, SaidSame
<1> QED
  BY <1>4, <1>6, <1>7 DEF Silent

\* The terminal event of the upstream.
LEMMA UpstreamOverKeeps ==
  ASSUME TranslationInvariant, NEW how \in {"completed", "incomplete"}, UpstreamOver(how)
  PROVE  TranslationInvariant'
<1> DEFINE u == upstream
           w == upstream'
           t == translator
           reason == IF how = "incomplete" THEN "max_tokens" ELSE "end_turn"
           c == AnswerDone(t, reason)
<1>1. answer = "open" /\ u.over = "no" /\ answer' = answer /\ Ceasing(u, w, how) /\ Push(c)
  BY DEF UpstreamOver, Receiving, Ceasing
<1>2. WellHeard(u) /\ Paired(Shows, t, u)
  BY <1>1 DEF TranslationInvariant
<1>3. reason \in {"max_tokens", "end_turn"}
  OBVIOUS
<1>4. how # "no"
  OBVIOUS
<1> HIDE DEF u, w, t, c, reason
<1>5. WellHeard(w) /\ Silent(u, w) /\ w.over = how
  BY <1>1, <1>2, OverHears
<1>6. Paired(Shows, t, w)
  BY <1>2, <1>5, PairedSilent
<1>7. c = AnswerDone(t, reason)
  BY DEF c
<1>8. Translator(c) /\ Over(Told(Shows, c), c, w)
  BY <1>3, <1>6, <1>7, AnswerIsDone
<1>9. w.over # "no"
  BY <1>4, <1>5
<1>10. w # NothingSent
  BY <1>9 DEF NothingSent
<1>11. Continues(c, w)
  BY <1>1, <1>5, <1>10 DEF Continues, w
<1> QED
  BY <1>8, <1>9, <1>11, AnswerGoesOver

\* What is held is passed on at the end.
LEMMA AnswerEndsKeeps ==
  ASSUME TranslationInvariant, AnswerEnds PROVE TranslationInvariant'
<1>1. /\ answer = "open" /\ upstream.over # "no" /\ released' = TRUE /\ held' = <<>>
      /\ assembler' = Shows /\ answer' = assembler'.final
      /\ upstream' = upstream /\ translator' = translator
  BY DEF AnswerEnds, Shows
<1>2. Over(Shows, translator, upstream)
  BY <1>1 DEF TranslationInvariant
<1>3. Over(assembler', translator', upstream')
  BY <1>1, <1>2
<1>4. answer' \in {"failed", "incomplete", "completed"}
  BY <1>1, <1>2 DEF Over
<1>5. <<>> \in Seq(Events)
  OBVIOUS
<1> QED
  BY <1>1, <1>3, <1>4, <1>5 DEF TranslationInvariant

\* A response that fails after its open blocks were closed.
LEMMA FailureIsFailed ==
  ASSUME NEW v, NEW n \in Nat, Board(v, n, {}) PROVE FailResponse(v).final = "failed"
<1> DEFINE f == FlushActive(v)
<1>1. Board(f, n, {} \ (DOMAIN v.active))
  BY BoardStops DEF FlushActive
<1> HIDE DEF f
<1>2. f = [slots |-> f.slots, active |-> f.active, provisional |-> f.provisional,
           reason |-> f.reason, final |-> "open"]
  BY <1>1 DEF Board
<1>3. FailResponse(v) = [f EXCEPT !.final = "failed"]
  BY DEF FailResponse, f
<1>4. PICK a, b, c, d, e : f = [slots |-> a, active |-> b, provisional |-> c, reason |-> d, final |-> e]
  BY <1>2
<1>5. [f EXCEPT !.final = "failed"].final = "failed"
  BY <1>4
<1> QED
  BY <1>3, <1>5

\* After a failure no block is open.
LEMMA UnclosedAreClosed ==
  ASSUME NEW base, NEW t, NEW u, Paired(base, t, u), t.out = <<>>
  PROVE  \E n \in Nat : Board(AssembleAll(base, CloseUnclosedBlocks(t).out), n, {})
<1> DEFINE c == CloseUnclosedBlocks(t)
           B == OpenBlocks(t)
<1>1. Translator(t) /\ t.blocks \in Nat
  BY DEF Paired, Translator
<1>2. c = Tell(t, <<BlockStops(B)>>)
  BY DEF CloseUnclosedBlocks, OpenBlocks
<1>3. B = OpenBlocks(t)
  OBVIOUS
<1> HIDE DEF B, c
<1>4. Goes(t, c, BlockStops(B), t.blocks, t.text, t.thinking, t.calls)
  BY <1>1, <1>2, Translators, TellGoes
<1>5. Board(Told(base, c), t.blocks, {})
  BY <1>3, <1>4, BoardCloses
<1> QED
  BY <1>1, <1>5 DEF Told, c

\* A failure: nothing was shown and the attempt is forgotten, or the response fails.
LEMMA StreamFailsKeeps ==
  ASSUME TranslationInvariant, NEW retryable, StreamFails(retryable) PROVE TranslationInvariant'
<1>1. answer = "open" /\ upstream' = upstream /\ translator' = translator /\ released' = released
  BY DEF StreamFails
<1>2. CASE ~released
  <2>1. held' = <<>> /\ answer' \in {"opening", "refused"} /\ assembler' = assembler
    BY <1>2 DEF StreamFails
  <2>2. <<>> \in Seq(Events)
    OBVIOUS
  <2> QED
    BY <1>1, <1>2, <2>1, <2>2 DEF TranslationInvariant
<1>3. CASE released
  <2> DEFINE out == CloseUnclosedBlocks(translator).out
             closed == AssembleAll(assembler, out)
  <2>1. /\ assembler' = IF closed.final = "open" THEN FailResponse(closed) ELSE closed
        /\ answer' = assembler'.final /\ held' = held
    BY <1>3 DEF StreamFails
  <2>2. held = <<>> /\ held \in Seq(Events) /\ released \in BOOLEAN
    BY <1>3 DEF TranslationInvariant
  <2>3. Shows = assembler
    BY <2>2, AssembleNone DEF Shows
  <2>4. Translator(translator) /\ translator.out = <<>>
    BY <1>1 DEF TranslationInvariant
  <2>5. CASE upstream.over = "no"
    <3>1. Paired(assembler, translator, upstream)
      BY <1>1, <2>3, <2>5 DEF TranslationInvariant
    <3>2. PICK n \in Nat : Board(closed, n, {})
      BY <2>4, <3>1, UnclosedAreClosed
    <3> HIDE DEF closed
    <3>3. closed.final = "open"
      BY <3>2 DEF Board
    <3>4. assembler' = FailResponse(closed)
      BY <2>1, <3>3
    <3>5. assembler'.final = "failed"
      BY <3>2, <3>4, FailureIsFailed
    <3> QED
      BY <1>1, <1>3, <2>1, <2>2, <3>5 DEF TranslationInvariant
  <2>6. CASE upstream.over # "no"
    <3>1. Over(assembler, translator, upstream)
      BY <1>1, <2>3, <2>6 DEF TranslationInvariant
    <3>2. assembler.final \in {"failed", "incomplete", "completed"}
      BY <3>1 DEF Over
    <3>3. Len(out) \in Nat
      <4> DEFINE B == OpenBlocks(translator)
                 c == CloseUnclosedBlocks(translator)
                 t == translator
      <4>1. c = Tell(t, <<BlockStops(B)>>)
        BY DEF CloseUnclosedBlocks, OpenBlocks
      <4>2. out = c.out
        OBVIOUS
      <4>3. Translator(t)
        BY <2>4
      <4> HIDE DEF B, c, t, out
      <4>4. Goes(t, c, BlockStops(B), t.blocks, t.text, t.thinking, t.calls)
        BY <4>1, <4>3, Translators, TellGoes
      <4>5. c.out = t.out \o <<BlockStops(B)>>
        BY <4>4 DEF Goes, Literally
      <4>6. t.out = <<>>
        BY <2>4 DEF t
      <4> DEFINE e == BlockStops(B)
      <4>7. c.out = t.out \o <<e>>
        BY <4>5
      <4> HIDE DEF e
      <4> QED
        BY <4>2, <4>6, <4>7
    <3> HIDE DEF out
    <3>4. closed = assembler
      BY <3>2, <3>3, AssembleOver
    <3>5. assembler' = assembler /\ answer' = assembler.final
      BY <2>1, <3>2, <3>4
    <3>6. Over(assembler', translator', upstream')
      BY <1>1, <3>1, <3>5
    <3>7. held' \in Seq(Events) /\ held' = <<>>
      BY <2>1, <2>2
    <3> QED
      BY <1>1, <1>3, <2>2, <3>2, <3>5, <3>6, <3>7 DEF TranslationInvariant
  <2> QED
    BY <2>5, <2>6
<1> QED
  BY <1>2, <1>3

\* Steps of others.
LEMMA TranslationStutters ==
  ASSUME TranslationInvariant, UNCHANGED translationVars PROVE TranslationInvariant'
<1>1. /\ upstream' = upstream /\ translator' = translator /\ held' = held /\ released' = released
      /\ assembler' = assembler /\ answer' = answer
  BY DEF translationVars
<1>2. Shows' = Shows
  BY <1>1 DEF Shows
<1> QED
  BY <1>1, <1>2 DEF TranslationInvariant

\* Every step keeps the invariant.
LEMMA TranslationKeeps ==
  TranslationInvariant /\ [TranslationStep]_translationVars => TranslationInvariant'
<1> SUFFICES ASSUME TranslationInvariant, [TranslationStep]_translationVars
             PROVE  TranslationInvariant'
  OBVIOUS
<1>1. CASE OpenUpstream
  BY <1>1, OpenUpstreamKeeps
<1>2. CASE Unauthorized
  BY <1>2, UnauthorizedKeeps
<1>3. CASE AnswerEnds
  BY <1>3, AnswerEndsKeeps
<1>4. ASSUME NEW i \in Items, ItemAdded(i) PROVE TranslationInvariant'
  BY <1>4, ItemAddedKeeps
<1>5. ASSUME NEW i \in Items, Delta_(i) PROVE TranslationInvariant'
  BY <1>5, FragmentKeeps
<1>6. ASSUME NEW i \in Items, ItemDone(i) PROVE TranslationInvariant'
  BY <1>6, ItemDoneKeeps
<1>7. ASSUME NEW how \in {"completed", "incomplete"}, UpstreamOver(how) PROVE TranslationInvariant'
  BY <1>7, UpstreamOverKeeps
<1>8. ASSUME NEW retryable \in BOOLEAN, StreamFails(retryable) PROVE TranslationInvariant'
  BY <1>8, StreamFailsKeeps
<1>9. CASE UNCHANGED translationVars
  BY <1>9, TranslationStutters
<1> QED
  BY <1>1, <1>2, <1>3, <1>4, <1>5, <1>6, <1>7, <1>8, <1>9 DEF TranslationStep

\* For any items, of whatever kinds, any interleaving of them and any number of attempts: what
\* a client of a response that did not fail has is what the last attempt sent, every item has an
\* end, and an open item is fed by a block (_item_done, _finish, _complete_existing_block).
THEOREM TranslationStaysSound == TranslationSpec => []TranslationIsSound
<1>1. TranslationSpec => []TranslationInvariant
  BY TranslationStarts, TranslationKeeps, PTL DEF TranslationSpec
<1> QED
  BY <1>1, TranslationFollows, PTL

\* An answer of either kind of upstream is sound, however the two interleave.
THEOREM AnswersStaySound == AnswersSpec => []AnswersAreSound
<1>1. ChatSpec => []StreamIsSound
  BY StreamStaysSound
<1>2. TranslationSpec => []TranslationIsSound
  BY TranslationStaysSound
<1>3. StreamIsSound /\ TranslationIsSound => AnswersAreSound
  BY DEF AnswersAreSound
<1> QED
  BY <1>1, <1>2, <1>3, PTL DEF AnswersSpec

(***************************************************************************)
(* Names that come back.  Before its block starts, a call is heard as the   *)
(* beginning of its wire name, which is held back while it may become an    *)
(* alias; what a beginning is decoded to is the name of the call, or begins *)
(* it where the name is sent as it is.  After that nothing changes what the *)
(* block was started with.                                                  *)
(***************************************************************************)

\* A word of letters, and places in it.
IsCut(w, T, i, j) == w \in Seq(T) /\ i \in 0 .. Len(w) /\ j \in 0 .. Len(w) /\ i <= j

\* Who agrees on as much as there is of it begins a word.
LEMMA Agrees ==
  ASSUME NEW T, NEW x \in Seq(T), NEW y \in Seq(T), Len(x) <= Len(y),
         \A k \in 1 .. Len(x) : x[k] = y[k]
  PROVE  IsPrefix(x, y)
<1>1. SubSeq(x, 1, Len(x)) = SubSeq(y, 1, Len(x))
  OBVIOUS
<1> QED
  BY <1>1 DEF IsPrefix

\* What is before and between the places makes up the word.
CutsMakeUp(w, T, i, j) ==
  /\ SubSeq(w, 1, i) \in Seq(T) /\ Len(SubSeq(w, 1, i)) = i
  /\ SubSeq(w, 1, j) \in Seq(T) /\ Len(SubSeq(w, 1, j)) = j
  /\ SubSeq(w, i + 1, j) \in Seq(T) /\ Len(SubSeq(w, i + 1, j)) = j - i
  /\ SubSeq(w, 1, i) \o SubSeq(w, i + 1, j) = SubSeq(w, 1, j)
  /\ IsPrefix(SubSeq(w, 1, i), SubSeq(w, 1, j))
  /\ IsPrefix(SubSeq(w, 1, j), w)
  /\ i = 0 => SubSeq(w, 1, i) = <<>>
  /\ j = Len(w) => SubSeq(w, 1, j) = w

\* Where a word is cut.
LEMMA CutsOfWord ==
  ASSUME NEW w, NEW T, NEW i, NEW j, IsCut(w, T, i, j)
  PROVE  CutsMakeUp(w, T, i, j)
<1> USE DEF IsCut
<1>1. /\ SubSeq(w, 1, i) \in Seq(T) /\ Len(SubSeq(w, 1, i)) = i
      /\ SubSeq(w, 1, j) \in Seq(T) /\ Len(SubSeq(w, 1, j)) = j
      /\ SubSeq(w, i + 1, j) \in Seq(T) /\ Len(SubSeq(w, i + 1, j)) = j - i
      /\ i <= j /\ j <= Len(w) /\ w \in Seq(T)
  OBVIOUS
<1>2. SubSeq(w, 1, i) \o SubSeq(w, i + 1, j) = SubSeq(w, 1, j)
  OBVIOUS
<1>3. /\ \A k \in 1 .. i : SubSeq(w, 1, i)[k] = w[k]
      /\ \A k \in 1 .. j : SubSeq(w, 1, j)[k] = w[k]
      /\ \A k \in 1 .. i : k \in 1 .. j
  OBVIOUS
<1>4. i = 0 => SubSeq(w, 1, i) = <<>>
  OBVIOUS
<1>5. j = Len(w) => SubSeq(w, 1, j) = w
  OBVIOUS
<1>6. IsPrefix(SubSeq(w, 1, i), SubSeq(w, 1, j))
  <2> DEFINE x == SubSeq(w, 1, i)
             y == SubSeq(w, 1, j)
  <2>1. x \in Seq(T) /\ y \in Seq(T) /\ Len(x) <= Len(y) /\ \A k \in 1 .. Len(x) : x[k] = y[k]
    BY <1>1, <1>3
  <2> HIDE DEF x, y
  <2>2. IsPrefix(x, y)
    BY <2>1, Agrees
  <2> QED
    BY <2>2 DEF x, y
<1>7. IsPrefix(SubSeq(w, 1, j), w)
  <2> DEFINE y == SubSeq(w, 1, j)
  <2>1. y \in Seq(T) /\ Len(y) <= Len(w) /\ \A k \in 1 .. Len(y) : y[k] = w[k]
    BY <1>1, <1>3
  <2> HIDE DEF y
  <2>2. IsPrefix(y, w)
    BY <1>1, <2>1, Agrees
  <2> QED
    BY <2>2 DEF y
<1> QED
  BY <1>1, <1>2, <1>4, <1>5, <1>6, <1>7 DEF CutsMakeUp

\* Nothing begins every word.
LEMMA NothingBegins ==
  ASSUME NEW T, NEW w \in Seq(T)
  PROVE  IsPrefix(<<>>, w) /\ Merged(<<>>, w) = w
<1>1. IsPrefix(<<>>, w)
  <2>1. Len(<<>>) = 0 /\ Len(w) \in Nat /\ SubSeq(<<>>, 1, 0) = <<>> /\ SubSeq(w, 1, 0) = <<>>
    OBVIOUS
  <2> QED
    BY <2>1 DEF IsPrefix
<1> QED
  BY <1>1 DEF Merged

\* What a fragment may be that brings a word from its i-th letter to its j-th.
Spells(f, w, i, j) ==
  \/ f = SubSeq(w, 1, i) \o SubSeq(w, i + 1, j)
  \/ /\ f = SubSeq(w, i + 1, j)
     /\ ~IsPrefix(SubSeq(w, i + 1, j), SubSeq(w, 1, i)) /\ ~IsPrefix(SubSeq(w, 1, i), SubSeq(w, i + 1, j))

\* Merged with what was heard before, it is the word so far; and it is the whole word at once
\* only when all of the word was heard.
LEMMA FragmentsMerge ==
  ASSUME NEW w, NEW T, NEW i, NEW j, NEW f, IsCut(w, T, i, j), Spells(f, w, i, j)
  PROVE  /\ Merged(SubSeq(w, 1, i), f) = SubSeq(w, 1, j)
         /\ i = 0 => f = SubSeq(w, 1, j)
         /\ f = w => SubSeq(w, 1, j) = w
         /\ f \in Seq(T)
<1> DEFINE old == SubSeq(w, 1, i)
           new == SubSeq(w, i + 1, j)
           all == SubSeq(w, 1, j)
<1>0. CutsMakeUp(w, T, i, j)
  BY CutsOfWord
<1>1. /\ all \in Seq(T) /\ new \in Seq(T) /\ old \in Seq(T)
      /\ old \o new = all /\ IsPrefix(old, all)
      /\ i = 0 => old = <<>>
  BY <1>0 DEF CutsMakeUp
<1>2. /\ Len(all) = j /\ Len(new) = j - i
      /\ w \in Seq(T) /\ Len(w) \in Nat /\ i \in 0 .. Len(w) /\ j \in 0 .. Len(w) /\ i <= j
      /\ j = Len(w) => all = w
  BY <1>0 DEF IsCut, CutsMakeUp
<1>3. f = all \/ (f = new /\ ~IsPrefix(new, old) /\ ~IsPrefix(old, new))
  <2>1. f = old \o new \/ (f = new /\ ~IsPrefix(new, old) /\ ~IsPrefix(old, new))
    BY DEF Spells
  <2> QED
    BY <1>1, <2>1
<1> HIDE DEF old, new, all
<1>4. Merged(old, f) = all
  <2>1. CASE f = all
    BY <1>1, <2>1 DEF Merged
  <2>2. CASE f # all
    <3>1. f = new /\ ~IsPrefix(old, f) /\ ~IsPrefix(f, old)
      BY <1>3, <2>2
    <3>2. Merged(old, f) = old \o f
      BY <3>1 DEF Merged
    <3> QED
      BY <1>1, <3>1, <3>2
  <2> QED
    BY <2>1, <2>2
<1>5. i = 0 => f = all
  BY <1>1, <1>3, NothingBegins
<1>6. f = w => all = w
  <2> SUFFICES ASSUME f = w, f # all PROVE FALSE
    OBVIOUS
  <2>1. w = new
    BY <1>3
  <2>2. Len(w) = j - i
    BY <1>2, <2>1
  <2>3. i = 0
    BY <1>2, <2>2
  <2> QED
    BY <1>5, <2>3
<1>7. f \in Seq(T)
  BY <1>1, <1>3
<1> QED
  BY <1>4, <1>5, <1>6, <1>7 DEF old, all
-----------------------------------------------------------------------------
\* The aliases there are are aliases of the names that have them.
AliasesAreMade == \A n \in DOMAIN aliases : \E d \in 0 .. AliasTries : aliases[n] = AliasAt[n][d]
NamesAreCoded == CodecInvariant /\ AliasesAreMade

\* They stay so.
LEMMA AliasesStayMade == NamesAreCoded /\ [NamesNext]_nameVars => NamesAreCoded'
<1> SUFFICES ASSUME CodecInvariant, AliasesAreMade, [NamesNext]_nameVars PROVE AliasesAreMade'
  BY CodecGrows DEF NamesAreCoded
<1>1. CASE TakeAlias
  <2>1. PICK n \in Unaliased :
          IF AliasAt[n][digests] \in Reserved
          THEN digests < AliasTries /\ digests' = digests + 1 /\ UNCHANGED aliases
          ELSE /\ digests' = 0
               /\ aliases' = [m \in DOMAIN aliases \cup {n} |->
                                IF m = n THEN AliasAt[n][digests] ELSE aliases[m]]
    BY <1>1 DEF TakeAlias
  <2>2. CASE AliasAt[n][digests] \in Reserved
    BY <2>1, <2>2 DEF AliasesAreMade
  <2>3. CASE AliasAt[n][digests] \notin Reserved
    <3>1. /\ DOMAIN aliases' = DOMAIN aliases \cup {n}
          /\ aliases'[n] = AliasAt[n][digests]
          /\ \A m \in DOMAIN aliases \ {n} : aliases'[m] = aliases[m]
      BY <2>1, <2>3
    <3>2. digests \in 0 .. AliasTries
      BY DEF CodecInvariant
    <3> QED
      BY <3>1, <3>2 DEF AliasesAreMade
  <2> QED
    BY <2>2, <2>3
<1>2. CASE UNCHANGED aliases
  BY <1>2 DEF AliasesAreMade
<1>3. CallTool \/ HearName \/ HearArguments \/ CallBreaks \/ CallEnds \/ UNCHANGED nameVars
        => UNCHANGED aliases
  BY DEF CallTool, HearName, HearArguments, CallBreaks, CallEnds, nameVars
<1> QED
  BY <1>1, <1>2, <1>3 DEF NamesNext

\* The wire name of a name is a word, and an alias or the name itself.
LEMMA WiresAreWords ==
  ASSUME NamesAreCoded, Unaliased = {}, NEW n \in Requested
  PROVE  /\ Encode(n) \in Seq(Letters) /\ Encode(n) # <<>>
         /\ Encode(n) \in (ClientNames \cap Portable) \cup Aliases
         /\ Decode(Encode(n)) = n
         /\ Encode(n) \notin AliasesInUse => Encode(n) = n /\ n \in Unchanged
         /\ AliasesInUse \subseteq Aliases
<1>1. asked \in Asks /\ AliasesAreOwned /\ AliasesAreMade
  BY DEF NamesAreCoded, CodecInvariant
<1>2. Requested \subseteq ClientNames
  BY <1>1, AsksAssumption DEF Requested
<1>3. AliasesInUse \subseteq Aliases
  <2> SUFFICES ASSUME NEW m \in DOMAIN aliases PROVE aliases[m] \in Aliases
    BY DEF AliasesInUse
  <2>1. m \in ClientNames \ Portable
    BY <1>1, <1>2 DEF AliasesAreOwned
  <2>2. PICK d \in 0 .. AliasTries : aliases[m] = AliasAt[m][d]
    BY <1>1 DEF AliasesAreMade
  <2> QED
    BY <2>1, <2>2 DEF Aliases
<1>4. Encode(n) \in Portable /\ Decode(Encode(n)) = n
  BY <1>1, OwnedIsReversible DEF CodecIsReversible
<1>5. Encode(n) \in Seq(Letters) /\ Encode(n) # <<>>
  BY <1>4, WordsAssumption
<1>6. CASE n \in DOMAIN aliases
  <2>1. Encode(n) \in AliasesInUse
    BY <1>6 DEF Encode, AliasesInUse
  <2> QED
    BY <1>3, <1>4, <1>5, <2>1
<1>7. CASE n \notin DOMAIN aliases
  <2>1. Encode(n) = n /\ n \in Unchanged /\ n \in ClientNames
    BY <1>2, <1>4, <1>7 DEF Encode, Unchanged
  <2> QED
    BY <1>3, <1>4, <1>5, <2>1
<1> QED
  BY <1>6, <1>7

\* A beginning of a wire name that is an alias is the wire name; one that is none, and may not
\* become one, begins a name that is sent as it is.
LEMMA BeginningsAreKnown ==
  ASSUME NamesAreCoded, Unaliased = {}, NEW n \in Requested, NEW s, IsPrefix(s, Encode(n))
  PROVE  /\ s \in AliasesInUse => s = Encode(n) /\ Decode(s) = n
         /\ s \notin AliasesInUse => Decode(s) = s
         /\ s \notin AliasesInUse /\ ~AliasPrefix(s) =>
              Encode(n) = n /\ n \in Portable
<1> DEFINE w == Encode(n)
<1>1. /\ w \in (ClientNames \cap Portable) \cup Aliases /\ Decode(w) = n
      /\ w \notin AliasesInUse => w = n /\ n \in Unchanged
      /\ AliasesInUse \subseteq Aliases
  BY WiresAreWords
<1> HIDE DEF w
<1>2. IsPrefix(s, w)
  BY DEF w
<1>3. s \in AliasesInUse => s = w
  BY <1>1, <1>2, WordsAssumption DEF IsStrictPrefix
<1>4. w \in AliasesInUse => s = w \/ AliasPrefix(s)
  BY <1>2 DEF AliasPrefix, IsStrictPrefix
<1>5. s \notin AliasesInUse => Decode(s) = s
  BY DEF Decode
<1>6. n \in Unchanged => n \in Portable
  BY DEF Unchanged
<1> QED
  BY <1>1, <1>3, <1>4, <1>5, <1>6 DEF w

\* What a call is heard as before its block starts, and when it starts.
HeardAs(kept, early, verdict) ==
  [held |-> kept, known |-> NoName, started |-> NoName, early |-> early, shown |-> 0, verdict |-> verdict]
ToldAs(word, early, verdict) ==
  [held |-> NoName, known |-> word, started |-> word, early |-> 0, shown |-> early, verdict |-> verdict]

\* A beginning that is held back.
Withheld(s) == s \notin AliasesInUse /\ AliasPrefix(s)

\* The name of a call, heard so far, is coded.
IsCalled == NamesAreCoded /\ Unaliased = {} /\ call.name \in Requested

SoFar(j) == SubSeq(Wire, 1, j)

\* A fragment brings the call from its i-th letter to its j-th.
Advances(f, i, j) ==
  /\ i \in 0 .. Len(Wire) /\ j \in 1 .. Len(Wire) /\ i <= j
  /\ Spells(f, Wire, i, j)
  /\ i = 0 \/ Withheld(SoFar(i))

\* Without aliases nothing is decoded or held back.
LEMMA NoAliasNoUse == aliases = <<>> => AliasesInUse = {} /\ \A s : ~Withheld(s) /\ Decode(s) = s
<1> SUFFICES ASSUME aliases = <<>> PROVE AliasesInUse = {} /\ \A s : ~Withheld(s) /\ Decode(s) = s
  OBVIOUS
<1>1. DOMAIN aliases = {}
  OBVIOUS
<1> QED
  BY <1>1 DEF AliasesInUse, Withheld, AliasPrefix, Decode

\* A name is registered in place of what was held back.
LEMMA Registers ==
  ASSUME NEW kept, NEW known, NEW started, NEW early, NEW shown, NEW verdict, NEW word, NEW h,
         h = [held |-> kept, known |-> known, started |-> started, early |-> early, shown |-> shown,
              verdict |-> verdict]
  PROVE  Registered(h, word) = [held |-> NoName, known |-> Merged(known, word), started |-> started,
                                early |-> early, shown |-> shown, verdict |-> verdict]
<1>1. PICK m : m = Merged(h.known, word)
  OBVIOUS
<1>2. h.known = known
  OBVIOUS
<1>3. Registered(h, word) = [[h EXCEPT !.held = NoName] EXCEPT !.known = m]
  BY <1>1 DEF Registered
<1>4. PICK g : g = [held |-> NoName, known |-> known, started |-> started, early |-> early,
                    shown |-> shown, verdict |-> verdict]
  OBVIOUS
<1>5. [h EXCEPT !.held = NoName] = g
  BY <1>4
<1>6. [g EXCEPT !.known = m] = [held |-> NoName, known |-> m, started |-> started, early |-> early,
                                shown |-> shown, verdict |-> verdict]
  BY <1>4
<1> QED
  BY <1>1, <1>2, <1>3, <1>5, <1>6

\* What is held back is kept.
LEMMA StaysHeld ==
  ASSUME NEW h, NEW s, NEW early, NEW verdict, NEW word, h = HeardAs(s, early, verdict)
  PROVE  Started([h EXCEPT !.held = word]) = HeardAs(word, early, verdict)
<1>1. [h EXCEPT !.held = word] = HeardAs(word, early, verdict)
  BY DEF HeardAs
<1>2. Started(HeardAs(word, early, verdict)) = HeardAs(word, early, verdict)
  BY DEF HeardAs, Started
<1> QED
  BY <1>1, <1>2

\* A name starts the block.
LEMMA StartsAs ==
  ASSUME NEW h, NEW s, NEW early, NEW verdict, NEW word, h = HeardAs(s, early, verdict),
         word # NoName, Merged(NoName, word) = word
  PROVE  Started(Registered(h, word)) = ToldAs(word, early, verdict)
<1>1. PICK g : g = [held |-> NoName, known |-> word, started |-> NoName, early |-> early,
                    shown |-> 0, verdict |-> verdict]
  OBVIOUS
<1>2. h = [held |-> s, known |-> NoName, started |-> NoName, early |-> early, shown |-> 0,
           verdict |-> verdict]
  BY DEF HeardAs
<1>3. Registered(h, word) = [held |-> NoName, known |-> Merged(NoName, word), started |-> NoName,
                             early |-> early, shown |-> 0, verdict |-> verdict]
  BY <1>2, Registers
<1>4. Registered(h, word) = g
  BY <1>1, <1>3
<1>5. Started(g) = ToldAs(word, early, verdict)
  <2>1. PICK g1 : g1 = [g EXCEPT !.started = g.known]
    OBVIOUS
  <2>2. g1 = [held |-> NoName, known |-> word, started |-> word, early |-> early, shown |-> 0,
              verdict |-> verdict]
    BY <1>1, <2>1
  <2>3. PICK g2 : g2 = [g1 EXCEPT !.shown = g.early]
    OBVIOUS
  <2>4. g2 = [held |-> NoName, known |-> word, started |-> word, early |-> early, shown |-> early,
              verdict |-> verdict]
    BY <1>1, <2>2, <2>3
  <2>5. [g2 EXCEPT !.early = 0] = ToldAs(word, early, verdict)
    BY <2>4 DEF ToldAs
  <2>6. g.started = NoName /\ g.known # NoName
    BY <1>1
  <2>7. Started(g) = [g2 EXCEPT !.early = 0]
    BY <2>1, <2>3, <2>6 DEF Started
  <2> QED
    BY <2>5, <2>7
<1> QED
  BY <1>4, <1>5

\* A call whose block has not started is held back, or starts with what it is decoded to.
LEMMA NameIsHeard ==
  ASSUME IsCalled, NEW f, NEW i, NEW j, Advances(f, i, j), NEW early, NEW verdict
  PROVE  /\ Withheld(SoFar(j)) =>
              Started(Named(HeardAs(SoFar(i), early, verdict), f)) = HeardAs(SoFar(j), early, verdict)
         /\ ~Withheld(SoFar(j)) =>
              /\ Started(Named(HeardAs(SoFar(i), early, verdict), f))
                   = ToldAs(Decode(SoFar(j)), early, verdict)
              /\ Decode(SoFar(j)) # NoName
<1> DEFINE h == HeardAs(SoFar(i), early, verdict)
           s == SoFar(j)
<1>1. Wire \in Seq(Letters) /\ Wire # <<>> /\ IsCut(Wire, Letters, i, j)
  BY WiresAreWords DEF IsCalled, Wire, Advances, IsCut
<1>2. CutsMakeUp(Wire, Letters, i, j)
  BY <1>1, CutsOfWord
<1>3. /\ s \in Seq(Letters) /\ Len(s) = j /\ IsPrefix(s, Wire)
      /\ i = 0 => SoFar(i) = <<>>
  BY <1>2 DEF SoFar, CutsMakeUp
<1>4. s # <<>>
  BY <1>3 DEF Advances
<1>5. Merged(SoFar(i), f) = s /\ (i = 0 => f = s)
  BY <1>1, FragmentsMerge DEF Advances, SoFar
<1>6. /\ s \in AliasesInUse => Decode(s) = call.name
      /\ s \notin AliasesInUse => Decode(s) = s
  BY <1>3, BeginningsAreKnown DEF IsCalled, Wire
<1>7. Decode(s) \in Seq(Letters) /\ Decode(s) # NoName
  <2>1. call.name \in Seq(Letters) /\ call.name # NoName
    BY AsksAssumption, WordsAssumption DEF IsCalled, Requested, NamesAreCoded, CodecInvariant, NoName
  <2> QED
    BY <1>3, <1>4, <1>6, <2>1 DEF NoName
<1> HIDE DEF s
<1>8. Merged(NoName, Decode(s)) = Decode(s)
  BY <1>7, NothingBegins DEF NoName
<1>9. h.held = SoFar(i)
  BY DEF HeardAs
<1>13. h = HeardAs(SoFar(i), early, verdict)
  OBVIOUS
<1>10. CASE aliases = <<>>
  <2>1. ~Withheld(s) /\ i = 0 /\ f = Decode(s)
    BY <1>5, <1>6, <1>10, NoAliasNoUse DEF Advances
  <2>2. Named(h, f) = Registered(h, Decode(s))
    BY <1>10, <2>1 DEF Named
  <2> HIDE DEF h
  <2>3. Started(Registered(h, Decode(s))) = ToldAs(Decode(s), early, verdict)
    BY <1>7, <1>8, <1>13, StartsAs
  <2> QED
    BY <1>7, <2>1, <2>2, <2>3 DEF s, h
<1>11. CASE aliases # <<>> /\ Withheld(s)
  <2>1. Named(h, f) = [h EXCEPT !.held = s]
    <3> HIDE DEF h
    <3> QED
      BY <1>5, <1>9, <1>11 DEF Named, Withheld
  <2>2. Started([h EXCEPT !.held = s]) = HeardAs(s, early, verdict)
    <3> HIDE DEF h
    <3> QED
      BY <1>13, StaysHeld
  <2> QED
    BY <1>11, <2>1, <2>2 DEF s
<1>12. CASE aliases # <<>> /\ ~Withheld(s)
  <2> HIDE DEF h
  <2>1. Named(h, f) = Registered(h, Decode(s))
    BY <1>5, <1>9, <1>12 DEF Named, Withheld
  <2>2. Started(Registered(h, Decode(s))) = ToldAs(Decode(s), early, verdict)
    BY <1>7, <1>8, <1>13, StartsAs
  <2> QED
    BY <1>7, <1>12, <2>1, <2>2 DEF s, h
<1> QED
  BY <1>10, <1>11, <1>12

\* A record of what became of a call.
IsRecord(h) ==
  h = [held |-> h.held, known |-> h.known, started |-> h.started, early |-> h.early,
       shown |-> h.shown, verdict |-> h.verdict]

\* Once the block has started, nothing it was started with changes.
LEMMA NameIsKept ==
  ASSUME NEW h, NEW f, IsRecord(h), h.started # NoName
  PROVE  LET g == Started(Named(h, f)) IN
         g = [held |-> g.held, known |-> g.known, started |-> h.started, early |-> h.early,
              shown |-> h.shown, verdict |-> h.verdict]
<1>1. \A n : Registered(h, n)
              = [held |-> NoName, known |-> Merged(h.known, n), started |-> h.started,
                 early |-> h.early, shown |-> h.shown, verdict |-> h.verdict]
  BY Registers DEF IsRecord
<1>5. \A n : [h EXCEPT !.held = n]
              = [held |-> n, known |-> h.known, started |-> h.started, early |-> h.early,
                 shown |-> h.shown, verdict |-> h.verdict]
  <2> SUFFICES ASSUME NEW n
               PROVE  [h EXCEPT !.held = n]
                        = [held |-> n, known |-> h.known, started |-> h.started, early |-> h.early,
                           shown |-> h.shown, verdict |-> h.verdict]
    OBVIOUS
  <2>1. PICK a, b, c, d, e, v : h = [held |-> a, known |-> b, started |-> c, early |-> d, shown |-> e, verdict |-> v]
    BY DEF IsRecord
  <2> QED
    BY <2>1
<1>2. \E kept, known :
        Named(h, f) = [held |-> kept, known |-> known, started |-> h.started, early |-> h.early,
                       shown |-> h.shown, verdict |-> h.verdict]
  BY <1>1, <1>5 DEF Named
<1>3. PICK kept, known :
        Named(h, f) = [held |-> kept, known |-> known, started |-> h.started, early |-> h.early,
                       shown |-> h.shown, verdict |-> h.verdict]
  BY <1>2
<1>4. Started(Named(h, f)) = Named(h, f)
  BY <1>3 DEF Started
<1> QED
  BY <1>3, <1>4

\* What is heard before the block starts, and what it may then be called.
Waits == /\ restored = HeardAs(SoFar(call.sent), restored.early, restored.verdict)
         /\ call.sent = 0 \/ Withheld(SoFar(call.sent))
ShownAsSent ==
  \/ restored.started = call.name
  \/ call.cut /\ call.name \in Portable /\ IsPrefix(restored.started, call.name)

CallIsTyped ==
  /\ call = [name |-> call.name, sent |-> call.sent, cut |-> call.cut, fragments |-> call.fragments,
             args |-> call.args, again |-> call.again]
  /\ call.sent \in Nat /\ call.cut \in BOOLEAN /\ call.args \in Nat
  /\ IsRecord(restored)
  /\ restored.early \in Nat /\ restored.shown \in Nat
NoCallYet == call.name = NoName => call.sent = 0 /\ call.args = 0 /\ restored = Unheard
CallGoesOn ==
  call.name # NoName =>
    /\ IsCalled /\ call.sent <= Len(Wire)
    /\ restored.verdict # "ended" => IF restored.started = NoName THEN Waits ELSE ShownAsSent

NamesInvariant ==
  NamesAreCoded /\ CallIsTyped /\ NoCallYet /\ CallGoesOn /\ CallIsRestored /\ CallIsWhole

\* A call that was not made has nothing to restore.
LEMMA UnmadeKeeps ==
  ASSUME NamesAreCoded', call'.name = NoName, restored' = Unheard,
         \E cut, fragments, again :
           cut \in BOOLEAN /\ call' = [name |-> NoName, sent |-> 0, cut |-> cut, fragments |-> fragments, args |-> 0,
                    again |-> again]
  PROVE  NamesInvariant'
<1>1. PICK cut, fragments, again :
           cut \in BOOLEAN /\ call' = [name |-> NoName, sent |-> 0, cut |-> cut, fragments |-> fragments, args |-> 0,
                    again |-> again]
  OBVIOUS
<1>2. restored' = [held |-> NoName, known |-> NoName, started |-> NoName, early |-> 0, shown |-> 0,
                   verdict |-> "open"]
  BY DEF Unheard
<1>3. CallIsTyped'
  BY <1>1, <1>2 DEF CallIsTyped, IsRecord
<1>4. NoCallYet' /\ CallGoesOn'
  BY <1>1 DEF NoCallYet, CallGoesOn, Unheard
<1>5. CallIsRestored' /\ CallIsWhole'
  BY <1>1, <1>2 DEF CallIsRestored, CallIsWhole
<1> QED
  BY <1>3, <1>4, <1>5 DEF NamesInvariant

LEMMA NamesStart == NamesInit => NamesInvariant
<1> SUFFICES ASSUME NamesInit PROVE NamesInvariant
  OBVIOUS
<1>1. NamesAreCoded
  <2>1. DOMAIN aliases = {}
    BY DEF NamesInit
  <2> QED
    BY <2>1, CodecStarts DEF NamesAreCoded, AliasesAreMade
<1>2. /\ call = [name |-> NoName, sent |-> 0, cut |-> FALSE, fragments |-> 0, args |-> 0, again |-> FALSE]
      /\ restored = [held |-> NoName, known |-> NoName, started |-> NoName, early |-> 0, shown |-> 0,
                     verdict |-> "open"]
      /\ restored = Unheard
  BY DEF NamesInit, Uncalled, Unheard
<1>3. CallIsTyped
  BY <1>2 DEF CallIsTyped, IsRecord
<1>4. NoCallYet /\ CallGoesOn
  BY <1>2 DEF NoCallYet, CallGoesOn
<1>5. CallIsRestored /\ CallIsWhole
  BY <1>2 DEF CallIsRestored, CallIsWhole
<1> QED
  BY <1>1, <1>3, <1>4, <1>5 DEF NamesInvariant

\* What the names are coded as does not change while a call is made.
LEMMA CodecRests ==
  UNCHANGED <<asked, aliases, digests>> =>
    /\ Requested' = Requested /\ Unaliased' = Unaliased /\ Unchanged' = Unchanged
    /\ AliasesInUse' = AliasesInUse
    /\ NamesAreCoded => NamesAreCoded'
    /\ call'.name = call.name => Wire' = Wire
<1> SUFFICES ASSUME UNCHANGED <<asked, aliases, digests>>
             PROVE  /\ Requested' = Requested /\ Unaliased' = Unaliased /\ Unchanged' = Unchanged
                    /\ AliasesInUse' = AliasesInUse
                    /\ NamesAreCoded => NamesAreCoded'
                    /\ call'.name = call.name => Wire' = Wire
  OBVIOUS
<1>1. Requested' = Requested
  BY DEF Requested
<1>2. Unaliased' = Unaliased /\ Unchanged' = Unchanged /\ AliasesInUse' = AliasesInUse
  BY <1>1 DEF Unaliased, Unchanged, AliasesInUse
<1>3. NamesAreCoded => NamesAreCoded'
  BY <1>1, <1>2 DEF NamesAreCoded, CodecInvariant, AliasesAreMade, AliasesAreOwned
<1>4. call'.name = call.name => Wire' = Wire
  BY DEF Wire, Encode
<1> QED
  BY <1>1, <1>2, <1>3, <1>4

\* While names are made, no tool is called.
LEMMA TakingKeeps == NamesInvariant /\ TakeAlias => NamesInvariant'
<1> SUFFICES ASSUME NamesInvariant, TakeAlias PROVE NamesInvariant'
  OBVIOUS
<1>1. UNCHANGED <<call, restored>> /\ Unaliased # {}
  BY DEF TakeAlias
<1>2. call.name = NoName /\ call.sent = 0 /\ call.args = 0 /\ restored = Unheard
  BY <1>1 DEF NamesInvariant, CallGoesOn, NoCallYet, IsCalled
<1>3. NamesAreCoded'
  BY AliasesStayMade DEF NamesInvariant, NamesNext
<1>4. call = [name |-> NoName, sent |-> 0, cut |-> call.cut, fragments |-> call.fragments, args |-> 0,
              again |-> call.again] /\ call.cut \in BOOLEAN
  BY <1>2 DEF NamesInvariant, CallIsTyped
<1> QED
  BY <1>1, <1>2, <1>3, <1>4, UnmadeKeeps

\* A call begins with nothing said.
LEMMA CallingKeeps == NamesInvariant /\ CallTool => NamesInvariant'
<1> SUFFICES ASSUME NamesInvariant, CallTool PROVE NamesInvariant'
  OBVIOUS
<1>1. /\ UNCHANGED <<asked, aliases, digests, restored>>
      /\ Unaliased = {} /\ call.name = NoName
  BY DEF CallTool
<1>2. PICK n \in Requested : call' = [call EXCEPT !.name = n]
  BY DEF CallTool
<1>3. /\ call = [name |-> NoName, sent |-> 0, cut |-> call.cut, fragments |-> call.fragments,
                 args |-> 0, again |-> call.again]
      /\ call.cut \in BOOLEAN /\ restored = Unheard
  BY <1>1 DEF NamesInvariant, CallIsTyped, NoCallYet
<1>4. call' = [name |-> n, sent |-> 0, cut |-> call.cut, fragments |-> call.fragments,
               args |-> 0, again |-> call.again]
  <2>1. PICK c, fragments, again :
          call = [name |-> NoName, sent |-> 0, cut |-> c, fragments |-> fragments,
                 args |-> 0, again |-> again]
    BY <1>3
  <2> QED
    BY <1>2, <2>1
<1>5. /\ NamesAreCoded' /\ Requested' = Requested /\ Unaliased' = {}
  BY <1>1, CodecRests DEF NamesInvariant
<1>6. restored' = [held |-> NoName, known |-> NoName, started |-> NoName, early |-> 0, shown |-> 0,
                   verdict |-> "open"]
  BY <1>1, <1>3 DEF Unheard
<1>7. IsCalled'
  BY <1>4, <1>5 DEF IsCalled
<1>8. Len(Wire)' \in Nat /\ SoFar(0)' = <<>>
  <2>1. Wire' = Encode(n)
    BY <1>1, <1>4 DEF Wire, Encode
  <2>2. Encode(n) \in Seq(Letters)
    BY <1>1, WiresAreWords DEF NamesInvariant
  <2>3. PICK w \in Seq(Letters) : w = Wire'
    BY <2>1, <2>2
  <2>4. Len(w) \in Nat /\ SubSeq(w, 1, 0) = <<>>
    OBVIOUS
  <2> QED
    BY <2>3, <2>4 DEF SoFar
<1>9. call'.name # NoName
  <2>1. n \in ClientNames
    BY AsksAssumption DEF Requested, NamesInvariant, NamesAreCoded, CodecInvariant
  <2> QED
    BY <1>4, <2>1, WordsAssumption DEF NoName
<1>10. CallIsTyped'
  BY <1>3, <1>4, <1>6 DEF CallIsTyped, IsRecord
<1>11. NoCallYet' /\ CallIsRestored' /\ CallIsWhole'
  BY <1>4, <1>6, <1>9 DEF NoCallYet, CallIsRestored, CallIsWhole
<1>12. CallGoesOn'
  <2>1. call'.sent = 0 /\ restored'.started = NoName
    BY <1>4, <1>6
  <2>2. SoFar(call.sent)' = NoName
    BY <1>8, <2>1 DEF NoName, SoFar
  <2>3. Waits'
    <3>1. restored' = HeardAs(NoName, restored'.early, restored'.verdict)
      BY <1>6 DEF HeardAs
    <3> QED
      BY <2>1, <2>2, <3>1 DEF Waits, HeardAs
  <2> QED
    BY <1>7, <1>8, <2>1, <2>3 DEF CallGoesOn
<1> QED
  BY <1>5, <1>10, <1>11, <1>12 DEF NamesInvariant

\* A step of a call that was made.
Proceeds ==
  /\ UNCHANGED <<asked, aliases, digests>>
  /\ call.name # NoName /\ call'.name = call.name /\ call'.sent <= Len(Wire)
  /\ CallIsTyped' /\ CallIsWhole'

\* What is heard by then, and what it is shown as.
WaitsThen == /\ restored' = HeardAs(SoFar(call'.sent), restored'.early, restored'.verdict)
             /\ call'.sent = 0 \/ Withheld(SoFar(call'.sent))

LEMMA ProceedingKeeps ==
  ASSUME NamesInvariant, Proceeds,
         restored'.verdict # "ended" => IF restored'.started = NoName THEN WaitsThen ELSE ShownAsSent',
         restored'.verdict = "ended" => CallIsRestored'
  PROVE  NamesInvariant'
<1>1. /\ Requested' = Requested /\ Unaliased' = Unaliased /\ Unchanged' = Unchanged
      /\ AliasesInUse' = AliasesInUse /\ Wire' = Wire /\ NamesAreCoded'
  BY CodecRests DEF NamesInvariant, Proceeds
<1>2. IsCalled' /\ NoCallYet'
  BY <1>1 DEF Proceeds, NamesInvariant, CallGoesOn, IsCalled, NoCallYet
<1>3. SoFar(call.sent)' = SoFar(call'.sent)
  BY <1>1 DEF SoFar
<1>4. Withheld(SoFar(call.sent))' <=> Withheld(SoFar(call'.sent))
  BY <1>1, <1>3 DEF Withheld, AliasPrefix
<1>5. WaitsThen => Waits'
  BY <1>3, <1>4 DEF WaitsThen, Waits, HeardAs
<1>6. CallGoesOn'
  BY <1>1, <1>2, <1>5 DEF CallGoesOn, Proceeds
<1>7. ShownAsSent' => CallIsRestored'
  BY DEF ShownAsSent, CallIsRestored
<1>8. CallIsRestored'
  BY <1>7 DEF CallIsRestored
<1> QED
  BY <1>1, <1>2, <1>6, <1>8 DEF NamesInvariant, Proceeds

\* What is decoded was said, or begins what was.
LEMMA DecodedIsSaid ==
  ASSUME IsCalled, NEW i, NEW j, NEW f, Advances(f, i, j), ~Withheld(SoFar(j)),
         Decode(SoFar(j)) # call.name
  PROVE  call.name \in Portable /\ IsPrefix(Decode(SoFar(j)), call.name) /\ f # Wire
<1>1. Wire \in Seq(Letters) /\ IsCut(Wire, Letters, i, j)
  BY WiresAreWords DEF IsCalled, Wire, Advances, IsCut
<1>2. IsPrefix(SoFar(j), Wire)
  BY <1>1, CutsOfWord DEF SoFar, CutsMakeUp
<1>3. f = Wire => SoFar(j) = Wire
  BY <1>1, FragmentsMerge DEF Advances, SoFar
<1>4. /\ SoFar(j) \in AliasesInUse => Decode(SoFar(j)) = call.name
      /\ SoFar(j) \notin AliasesInUse => Decode(SoFar(j)) = SoFar(j)
      /\ SoFar(j) \notin AliasesInUse /\ ~AliasPrefix(SoFar(j)) => Wire = call.name /\ call.name \in Portable
  <2> DEFINE s == SoFar(j)
  <2>1. IsPrefix(s, Encode(call.name))
    BY <1>2 DEF Wire
  <2> HIDE DEF s
  <2>2. /\ s \in AliasesInUse => Decode(s) = call.name
        /\ s \notin AliasesInUse => Decode(s) = s
        /\ s \notin AliasesInUse /\ ~AliasPrefix(s) => Wire = call.name /\ call.name \in Portable
    BY <2>1, BeginningsAreKnown DEF IsCalled, Wire
  <2> QED
    BY <2>2 DEF s
<1> QED
  BY <1>2, <1>3, <1>4 DEF Withheld

LEMMA HearingNameKeeps == NamesInvariant /\ HearName => NamesInvariant'
<1> SUFFICES ASSUME NamesInvariant, HearName PROVE NamesInvariant'
  OBVIOUS
<1>1. UNCHANGED <<asked, aliases, digests>> /\ call.name # NoName /\ restored.verdict = "open"
  BY DEF HearName, Saying
<1>2. PICK j \in 1 .. Len(Wire) : \E f \in Spellings(j) :
        /\ call.sent <= j
        /\ call' = [call EXCEPT !.sent = j, !.cut = @ \/ f # Wire, !.fragments = @ + 1]
        /\ restored' = Started(Named(restored, f))
  BY DEF HearName
<1>3. PICK f \in Spellings(j) :
        /\ call.sent <= j
        /\ call' = [call EXCEPT !.sent = j, !.cut = @ \/ f # Wire, !.fragments = @ + 1]
        /\ restored' = Started(Named(restored, f))
  BY <1>2
<1>4. /\ IsCalled /\ call.sent <= Len(Wire) /\ CallIsTyped /\ CallIsWhole
      /\ IF restored.started = NoName THEN Waits ELSE ShownAsSent
  BY <1>1 DEF NamesInvariant, CallGoesOn
<1>5. Len(Wire) \in Nat
  BY <1>4, WiresAreWords DEF IsCalled, Wire
<1>6. Spells(f, Wire, call.sent, j)
  BY <1>3 DEF Spellings, Spells
<1>7. /\ call' = [name |-> call.name, sent |-> j, cut |-> call'.cut, fragments |-> call'.fragments,
                  args |-> call.args, again |-> call.again]
      /\ call'.cut \in BOOLEAN /\ call'.cut = (call.cut \/ f # Wire)
  <2>1. PICK n, s, c, m, a, g :
          call = [name |-> n, sent |-> s, cut |-> c, fragments |-> m, args |-> a, again |-> g]
    BY <1>4 DEF CallIsTyped
  <2>2. call' = [name |-> n, sent |-> j, cut |-> c \/ f # Wire, fragments |-> m + 1, args |-> a, again |-> g]
    BY <1>3, <2>1
  <2>3. c \in BOOLEAN /\ call.name = n /\ call.args = a /\ call.again = g /\ call.cut = c
    BY <1>4, <2>1 DEF CallIsTyped
  <2> QED
    BY <2>2, <2>3
<1>8. CASE restored.started = NoName
  <2>1. Waits
    BY <1>4, <1>8
  <2>2. Advances(f, call.sent, j)
    BY <1>3, <1>4, <1>5, <1>6, <2>1 DEF Advances, Waits, CallIsTyped
  <2>3. PICK early, verdict : early = restored.early /\ verdict = restored.verdict
    OBVIOUS
  <2>4. restored = HeardAs(SoFar(call.sent), early, verdict)
    BY <2>1, <2>3 DEF Waits
  <2>5. restored' = Started(Named(HeardAs(SoFar(call.sent), early, verdict), f))
    BY <1>3, <2>4
  <2>6. /\ early \in Nat /\ verdict = "open" /\ early = call.args
    BY <1>1, <1>4, <2>3, <2>4 DEF CallIsTyped, CallIsWhole, HeardAs
  <2>7. CASE Withheld(SoFar(j))
    <3>1. restored' = HeardAs(SoFar(j), early, verdict)
      BY <1>4, <2>2, <2>5, <2>7, NameIsHeard
    <3>2. restored' = [held |-> SoFar(j), known |-> NoName, started |-> NoName, early |-> early,
                       shown |-> 0, verdict |-> verdict]
      BY <3>1 DEF HeardAs
    <3>3. CallIsTyped' /\ CallIsWhole'
      BY <1>4, <1>7, <2>6, <3>2 DEF CallIsTyped, CallIsWhole, IsRecord
    <3>4. Proceeds
      BY <1>1, <1>7, <3>3 DEF Proceeds
    <3>5. WaitsThen
      <4>1. call'.sent = j /\ restored'.early = early /\ restored'.verdict = verdict
        BY <1>7, <3>2
      <4> QED
        BY <2>7, <3>1, <4>1 DEF WaitsThen
    <3>6. restored'.started = NoName /\ restored'.verdict # "ended"
      BY <2>6, <3>2
    <3> QED
      BY <3>4, <3>5, <3>6, ProceedingKeeps
  <2>8. CASE ~Withheld(SoFar(j))
    <3>1. restored' = ToldAs(Decode(SoFar(j)), early, verdict) /\ Decode(SoFar(j)) # NoName
      BY <1>4, <2>2, <2>5, <2>8, NameIsHeard
    <3>2. restored' = [held |-> NoName, known |-> Decode(SoFar(j)), started |-> Decode(SoFar(j)), early |-> 0,
                       shown |-> early, verdict |-> verdict]
      BY <3>1 DEF ToldAs
    <3>3. CallIsTyped' /\ CallIsWhole'
      BY <1>4, <1>7, <2>6, <3>2 DEF CallIsTyped, CallIsWhole, IsRecord
    <3>4. Proceeds
      BY <1>1, <1>7, <3>3 DEF Proceeds
    <3>5. ShownAsSent'
      <4>1. restored'.started = Decode(SoFar(j)) /\ call'.name = call.name
        BY <1>7, <3>2
      <4>2. Decode(SoFar(j)) # call.name =>
              call.name \in Portable /\ IsPrefix(Decode(SoFar(j)), call.name) /\ f # Wire
        BY <1>4, <2>2, <2>8, DecodedIsSaid
      <4> QED
        BY <1>7, <4>1, <4>2 DEF ShownAsSent
    <3>6. restored'.started # NoName /\ restored'.verdict # "ended"
      BY <2>6, <3>1, <3>2
    <3> QED
      BY <3>4, <3>5, <3>6, ProceedingKeeps
  <2> QED
    BY <2>7, <2>8
<1>9. CASE restored.started # NoName
  <2>1. PICK kept, known :
          restored' = [held |-> kept, known |-> known, started |-> restored.started,
                       early |-> restored.early, shown |-> restored.shown, verdict |-> restored.verdict]
    BY <1>3, <1>4, <1>9, NameIsKept DEF CallIsTyped
  <2>2. CallIsTyped' /\ CallIsWhole'
    BY <1>1, <1>4, <1>7, <2>1 DEF CallIsTyped, CallIsWhole, IsRecord
  <2>3. Proceeds
    BY <1>1, <1>7, <2>2 DEF Proceeds
  <2>4. ShownAsSent'
    <3>1. call'.name = call.name /\ restored'.started = restored.started
      BY <1>7, <2>1
    <3>2. call.cut => call'.cut
      BY <1>7
    <3> QED
      BY <1>4, <1>9, <3>1, <3>2 DEF ShownAsSent
  <2>5. restored'.started # NoName /\ restored'.verdict # "ended"
    BY <1>1, <1>9, <2>1
  <2> QED
    BY <2>3, <2>4, <2>5, ProceedingKeeps
<1> QED
  BY <1>8, <1>9

\* Arguments wait for the block, or are shown in it.
LEMMA HearingArgumentsKeeps == NamesInvariant /\ HearArguments => NamesInvariant'
<1> SUFFICES ASSUME NamesInvariant, HearArguments PROVE NamesInvariant'
  OBVIOUS
<1>1. /\ UNCHANGED <<asked, aliases, digests>> /\ call.name # NoName /\ restored.verdict = "open"
      /\ call' = [call EXCEPT !.args = @ + 1]
      /\ restored' = IF restored.started = NoName THEN [restored EXCEPT !.early = @ + 1]
                     ELSE [restored EXCEPT !.shown = @ + 1]
  BY DEF HearArguments, Saying
<1>2. /\ IsCalled /\ call.sent <= Len(Wire) /\ CallIsTyped /\ CallIsWhole
      /\ IF restored.started = NoName THEN Waits ELSE ShownAsSent
  BY <1>1 DEF NamesInvariant, CallGoesOn
<1>3. call' = [name |-> call.name, sent |-> call.sent, cut |-> call.cut, fragments |-> call.fragments,
               args |-> call.args + 1, again |-> call.again]
  <2>1. PICK n, s, c, m, a, g :
          call = [name |-> n, sent |-> s, cut |-> c, fragments |-> m, args |-> a, again |-> g]
    BY <1>2 DEF CallIsTyped
  <2> QED
    BY <1>1, <2>1
<1>4. PICK kept, known, started, early, shown, verdict :
        restored = [held |-> kept, known |-> known, started |-> started, early |-> early,
                    shown |-> shown, verdict |-> verdict]
  BY <1>2 DEF CallIsTyped, IsRecord
<1>5. /\ early \in Nat /\ shown \in Nat /\ shown + early = call.args /\ verdict = "open"
      /\ started # NoName => early = 0
      /\ call.sent \in Nat /\ call.cut \in BOOLEAN /\ call.args \in Nat
  BY <1>1, <1>2, <1>4 DEF CallIsTyped, CallIsWhole
<1>6. CASE started = NoName
  <2>1. restored' = [held |-> kept, known |-> known, started |-> started, early |-> early + 1,
                     shown |-> shown, verdict |-> verdict]
    BY <1>1, <1>4, <1>6
  <2>2. CallIsTyped' /\ CallIsWhole'
    BY <1>3, <1>5, <1>6, <2>1 DEF CallIsTyped, CallIsWhole, IsRecord
  <2>3. Proceeds
    BY <1>1, <1>2, <1>3, <2>2 DEF Proceeds
  <2>4. WaitsThen
    <3>1. Waits
      BY <1>2, <1>4, <1>6
    <3>2. call'.sent = call.sent
      BY <1>3
    <3>3. kept = SoFar(call.sent) /\ known = NoName /\ shown = 0
      BY <1>4, <3>1 DEF Waits, HeardAs
    <3>4. restored' = HeardAs(SoFar(call.sent), restored'.early, restored'.verdict)
      BY <1>6, <2>1, <3>3 DEF HeardAs
    <3> QED
      BY <3>1, <3>2, <3>4 DEF WaitsThen, Waits
  <2>5. restored'.started = NoName /\ restored'.verdict # "ended"
    BY <1>5, <1>6, <2>1
  <2> QED
    BY <2>3, <2>4, <2>5, ProceedingKeeps
<1>7. CASE started # NoName
  <2>1. restored' = [held |-> kept, known |-> known, started |-> started, early |-> early,
                     shown |-> shown + 1, verdict |-> verdict]
    BY <1>1, <1>4, <1>7
  <2>2. CallIsTyped' /\ CallIsWhole'
    BY <1>3, <1>5, <1>7, <2>1 DEF CallIsTyped, CallIsWhole, IsRecord
  <2>3. Proceeds
    BY <1>1, <1>2, <1>3, <2>2 DEF Proceeds
  <2>4. ShownAsSent'
    <3>1. call'.name = call.name /\ restored'.started = restored.started /\ call'.cut = call.cut
      BY <1>3, <1>4, <2>1
    <3>2. ShownAsSent
      BY <1>2, <1>4, <1>7
    <3> QED
      BY <3>1, <3>2 DEF ShownAsSent
  <2>5. restored'.started # NoName /\ restored'.verdict # "ended"
    BY <1>5, <1>7, <2>1
  <2> QED
    BY <2>3, <2>4, <2>5, ProceedingKeeps
<1> QED
  BY <1>6, <1>7

\* What breaks before the block starts is repeated from nothing, once; what breaks later stays
\* as it is.
LEMMA InterruptionKeeps ==
  NamesInvariant /\ Saying /\ Interrupted /\ UNCHANGED <<asked, aliases, digests>> => NamesInvariant'
<1> SUFFICES ASSUME NamesInvariant, Saying, Interrupted, UNCHANGED <<asked, aliases, digests>>
             PROVE  NamesInvariant'
  OBVIOUS
<1>1. /\ IsCalled /\ call.sent <= Len(Wire) /\ CallIsTyped /\ CallIsWhole
      /\ call.name # NoName /\ restored.verdict = "open"
      /\ IF restored.started = NoName THEN Waits ELSE ShownAsSent
  BY DEF NamesInvariant, CallGoesOn, Saying
<1>2. CASE Repeat
  <2>1. call' = [name |-> NoName, sent |-> 0, cut |-> FALSE, fragments |-> 0, args |-> 0, again |-> TRUE]
    BY <1>2 DEF Repeat, Uncalled
  <2>2. restored' = Unheard /\ call'.name = NoName
    BY <1>2, <2>1 DEF Repeat
  <2>3. NamesAreCoded'
    BY CodecRests DEF NamesInvariant
  <2> QED
    BY <2>1, <2>2, <2>3, UnmadeKeeps
<1>3. CASE restored' = [restored EXCEPT !.verdict = "broken"] /\ UNCHANGED call
  <2>1. PICK kept, known, started, early, shown, verdict :
          restored = [held |-> kept, known |-> known, started |-> started, early |-> early,
                      shown |-> shown, verdict |-> verdict]
    BY <1>1 DEF CallIsTyped, IsRecord
  <2>2. restored' = [held |-> kept, known |-> known, started |-> started, early |-> early,
                     shown |-> shown, verdict |-> "broken"]
    BY <1>3, <2>1
  <2>3. CallIsTyped' /\ CallIsWhole'
    BY <1>1, <1>3, <2>1, <2>2 DEF CallIsTyped, CallIsWhole, IsRecord
  <2>4. Proceeds
    BY <1>1, <1>3, <2>3 DEF Proceeds
  <2>5. started = NoName => WaitsThen
    <3> SUFFICES ASSUME started = NoName PROVE WaitsThen
      OBVIOUS
    <3>1. Waits /\ call'.sent = call.sent
      BY <1>1, <1>3, <2>1
    <3>2. kept = SoFar(call.sent) /\ known = NoName /\ shown = 0
      BY <2>1, <3>1 DEF Waits, HeardAs
    <3>3. restored' = HeardAs(SoFar(call.sent), restored'.early, restored'.verdict)
      BY <2>2, <3>2 DEF HeardAs
    <3> QED
      BY <3>1, <3>3 DEF WaitsThen, Waits
  <2>6. started # NoName => ShownAsSent'
    BY <1>1, <1>3, <2>1, <2>2 DEF ShownAsSent
  <2>7. restored'.started = started /\ restored'.verdict # "ended"
    BY <2>2
  <2> QED
    BY <2>4, <2>5, <2>6, <2>7, ProceedingKeeps
<1> QED
  BY <1>2, <1>3 DEF Interrupted

LEMMA BreakingCallKeeps == NamesInvariant /\ CallBreaks => NamesInvariant'
  BY InterruptionKeeps DEF CallBreaks

\* At the end, a name of the request that was held back is taken for itself.
LEMMA EndingKeeps == NamesInvariant /\ CallEnds => NamesInvariant'
<1> SUFFICES ASSUME NamesInvariant, CallEnds PROVE NamesInvariant'
  OBVIOUS
<1>1. Saying /\ UNCHANGED <<asked, aliases, digests>>
  BY DEF CallEnds
<1>2. CASE restored.held # NoName /\ restored.held \notin Unchanged
  BY <1>1, <1>2, InterruptionKeeps DEF CallEnds
<1>3. CASE restored.held = NoName \/ restored.held \in Unchanged
  <2>1. /\ IsCalled /\ call.sent <= Len(Wire) /\ CallIsTyped /\ CallIsWhole
        /\ call.name # NoName /\ restored.verdict = "open"
        /\ IF restored.started = NoName THEN Waits ELSE ShownAsSent
    BY <1>1 DEF NamesInvariant, CallGoesOn, Saying
  <2>2. /\ restored' = [Started(IF restored.held = NoName THEN restored
                                ELSE Registered(restored, Decode(restored.held)))
                        EXCEPT !.verdict = "ended"]
        /\ UNCHANGED call
    BY <1>3 DEF CallEnds
  <2>3. PICK kept, known, started, early, shown, verdict :
          restored = [held |-> kept, known |-> known, started |-> started, early |-> early,
                      shown |-> shown, verdict |-> verdict]
    BY <2>1 DEF CallIsTyped, IsRecord
  <2>4. /\ early \in Nat /\ shown \in Nat /\ shown + early = call.args
        /\ started # NoName => early = 0
    BY <2>1, <2>3 DEF CallIsTyped, CallIsWhole
  <2>5. Wire' = Wire /\ Unchanged' = Unchanged
    BY <1>1, <2>2, CodecRests
  <2>6. CASE started # NoName
    <3>1. PICK g : g = IF restored.held = NoName THEN restored
                       ELSE Registered(restored, Decode(restored.held))
      OBVIOUS
    <3>2. Registered(restored, Decode(restored.held))
            = [held |-> NoName, known |-> Merged(known, Decode(restored.held)), started |-> started,
               early |-> early, shown |-> shown, verdict |-> verdict]
      BY <2>3, Registers
    <3>3. PICK h, k : g = [held |-> h, known |-> k, started |-> started, early |-> early,
                           shown |-> shown, verdict |-> verdict]
      BY <2>3, <3>1, <3>2
    <3>4. Started(g) = g
      BY <2>6, <3>3 DEF Started
    <3>5. restored' = [held |-> h, known |-> k, started |-> started, early |-> early,
                       shown |-> shown, verdict |-> "ended"]
      BY <2>2, <3>1, <3>3, <3>4
    <3>6. CallIsTyped' /\ CallIsWhole'
      BY <2>1, <2>2, <2>4, <2>6, <3>5 DEF CallIsTyped, CallIsWhole, IsRecord
    <3>7. Proceeds
      BY <1>1, <2>1, <2>2, <3>6 DEF Proceeds
    <3>8. ShownAsSent'
      BY <2>1, <2>2, <2>3, <2>6, <3>5 DEF ShownAsSent
    <3>9. CallIsRestored' /\ restored'.verdict = "ended"
      BY <3>5, <3>8 DEF ShownAsSent, CallIsRestored
    <3> QED
      BY <3>7, <3>9, ProceedingKeeps
  <2>7. CASE started = NoName
    <3>1. Waits
      BY <2>1, <2>3, <2>7
    <3>2. /\ kept = SoFar(call.sent) /\ known = NoName /\ shown = 0
          /\ restored = HeardAs(kept, early, verdict)
      BY <2>3, <3>1 DEF Waits, HeardAs
    <3>3. CASE kept = NoName
      <4>1. restored' = [held |-> kept, known |-> known, started |-> started, early |-> early,
                         shown |-> shown, verdict |-> "ended"]
        <5>1. restored.held = NoName /\ Started(restored) = restored
          BY <2>3, <3>2, <3>3 DEF Started
        <5> QED
          BY <2>2, <2>3, <5>1
      <4>2. call.sent = 0
        <5>1. Wire \in Seq(Letters)
          BY <2>1, WiresAreWords DEF IsCalled, Wire
        <5>2. IsCut(Wire, Letters, call.sent, call.sent)
          BY <2>1, <5>1 DEF CallIsTyped, IsCut
        <5>3. Len(kept) = call.sent
          BY <3>2, <5>2, CutsOfWord DEF SoFar, CutsMakeUp
        <5> QED
          BY <3>3, <5>3 DEF NoName
      <4>3. CallIsTyped' /\ CallIsWhole'
        BY <2>1, <2>2, <2>4, <2>7, <4>1, <4>2 DEF CallIsTyped, CallIsWhole, IsRecord
      <4>4. Proceeds
        BY <1>1, <2>1, <2>2, <4>3 DEF Proceeds
      <4>5. CallIsRestored' /\ restored'.verdict = "ended"
        BY <2>7, <4>1 DEF CallIsRestored
      <4> QED
        BY <4>4, <4>5, ProceedingKeeps
    <3>4. CASE kept # NoName /\ kept \in Unchanged
      <4>1. Wire \in Seq(Letters)
        BY <2>1, WiresAreWords DEF IsCalled, Wire
      <4>2. IsCut(Wire, Letters, call.sent, call.sent)
        BY <2>1, <4>1 DEF CallIsTyped, IsCut
      <4>3. kept \in Seq(Letters) /\ IsPrefix(kept, Wire) /\ (call.sent = Len(Wire) => kept = Wire)
        BY <3>2, <4>2, CutsOfWord DEF SoFar, CutsMakeUp
      <4>4. kept \notin AliasesInUse
        BY <3>4 DEF NamesInvariant, NamesAreCoded, CodecInvariant, AliasesAreOwned, AliasesInUse
      <4>5. Decode(kept) = kept
        BY <4>4 DEF Decode
      <4>6. Merged(NoName, kept) = kept
        BY <4>3, NothingBegins DEF NoName
      <4>7. Started(Registered(restored, kept)) = ToldAs(kept, early, verdict)
        BY <3>2, <3>4, <4>6, StartsAs
      <4>8. restored.held = kept
        BY <2>3
      <4>9. restored' = [ToldAs(kept, early, verdict) EXCEPT !.verdict = "ended"]
        BY <2>2, <3>4, <4>5, <4>7, <4>8
      <4>10. restored' = [held |-> NoName, known |-> kept, started |-> kept, early |-> 0,
                          shown |-> early, verdict |-> "ended"]
        BY <4>9 DEF ToldAs
      <4>11. CallIsTyped' /\ CallIsWhole'
        BY <2>1, <2>2, <2>4, <3>2, <3>4, <4>10 DEF CallIsTyped, CallIsWhole, IsRecord
      <4>12. Proceeds
        BY <1>1, <2>1, <2>2, <4>11 DEF Proceeds
      <4>13. call.sent = Len(Wire) => kept = call.name
        <5>1. Wire \notin AliasesInUse => Wire = call.name
          BY <2>1, WiresAreWords DEF IsCalled, Wire
        <5> QED
          BY <4>3, <4>4, <5>1
      <4>14. /\ restored'.started = kept /\ kept = SubSeq(Wire, 1, call.sent)
             /\ call.sent = Len(Wire) \/ call.sent < Len(Wire)
        BY <2>1, <3>2, <4>1, <4>10 DEF SoFar, CallIsTyped
      <4>15. CallIsRestored' /\ restored'.verdict = "ended"
        BY <2>2, <2>5, <3>4, <4>10, <4>13, <4>14 DEF CallIsRestored
      <4> QED
        BY <4>12, <4>15, ProceedingKeeps
    <3> QED
      BY <1>3, <2>3, <3>3, <3>4
  <2> QED
    BY <2>6, <2>7
<1> QED
  BY <1>2, <1>3

\* A step that leaves the call alone keeps what is known of it.
LEMMA NamesRest == NamesInvariant /\ UNCHANGED nameVars => NamesInvariant'
<1> SUFFICES ASSUME NamesInvariant, UNCHANGED nameVars PROVE NamesInvariant'
  OBVIOUS
<1>1. UNCHANGED <<asked, aliases, digests>> /\ call' = call /\ restored' = restored
  BY DEF nameVars
<1>2. /\ Requested' = Requested /\ Unaliased' = Unaliased /\ Unchanged' = Unchanged
      /\ AliasesInUse' = AliasesInUse /\ Wire' = Wire /\ NamesAreCoded'
  BY <1>1, CodecRests DEF NamesInvariant
<1>3. CallIsTyped' /\ CallIsWhole' /\ NoCallYet'
  BY <1>1 DEF NamesInvariant, CallIsTyped, CallIsWhole, NoCallYet, IsRecord
<1>4. CallIsRestored'
  BY <1>1, <1>2 DEF NamesInvariant, CallIsRestored
<1>5. CallGoesOn'
  <2>1. SoFar(call.sent)' = SoFar(call.sent)
    BY <1>1, <1>2 DEF SoFar
  <2>2. Waits => Waits'
    BY <1>1, <1>2, <2>1 DEF Waits, HeardAs, Withheld, AliasPrefix
  <2>3. ShownAsSent => ShownAsSent'
    BY <1>1 DEF ShownAsSent
  <2>4. IsCalled => IsCalled'
    BY <1>1, <1>2 DEF IsCalled
  <2> QED
    BY <1>1, <1>2, <2>2, <2>3, <2>4 DEF NamesInvariant, CallGoesOn
<1> QED
  BY <1>2, <1>3, <1>4, <1>5 DEF NamesInvariant

LEMMA NamesStep == NamesInvariant /\ [NamesNext]_nameVars => NamesInvariant'
  BY TakingKeeps, CallingKeeps, HearingNameKeeps, HearingArgumentsKeeps, BreakingCallKeeps,
     EndingKeeps, NamesRest DEF NamesNext

-----------------------------------------------------------------------------
\* The tools a request can offer.
ToolsOf(ask) == UNION {Range(Offered(ask.catalog[i])) : i \in DOMAIN ask.catalog}

\* An entry offers a list of them.
LEMMA OffersAreLists ==
  ASSUME NEW ask \in Asks, NEW i \in DOMAIN ask.catalog
  PROVE  Offered(ask.catalog[i]) \in Seq(ToolsOf(ask))
<1> DEFINE entry == ask.catalog[i]
           o == Offered(entry)
<1>1. entry.kind = "namespace" => entry.tools \in Seq(Range(entry.tools))
  BY AsksAssumption DEF Range
<1>2. \E n \in Nat : DOMAIN o = 1 .. n
  <2> HIDE DEF entry
  <2>1. CASE entry.kind \in {"passive", "unknown"}
    <3>1. o = <<>>
      BY <2>1 DEF Offered
    <3>2. DOMAIN o = 1 .. 0
      BY <3>1
    <3> HIDE DEF o
    <3> QED
      BY <3>2
  <2>2. CASE entry.kind = "namespace"
    <3>1. o = [k \in DOMAIN entry.tools |-> [entry.tools[k] EXCEPT !.space = entry.name]]
      BY <2>2 DEF Offered
    <3>2. DOMAIN o = DOMAIN entry.tools
      BY <3>1
    <3>3. PICK n \in Nat : DOMAIN entry.tools = 1 .. n
      BY <1>1, <2>2
    <3> HIDE DEF o
    <3> QED
      BY <3>2, <3>3
  <2>3. CASE entry.kind \notin {"passive", "unknown", "namespace"}
    <3>1. o = <<[kind |-> entry.kind, name |-> entry.name, space |-> NoName]>>
      BY <2>3 DEF Offered
    <3>2. DOMAIN o = 1 .. 1
      BY <3>1
    <3> HIDE DEF o
    <3> QED
      BY <3>2
  <2> QED
    BY <2>1, <2>2, <2>3
<1>3. o = [k \in DOMAIN o |-> o[k]]
  <2> HIDE DEF entry
  <2>1. CASE entry.kind \in {"passive", "unknown"}
    BY <2>1 DEF Offered
  <2>2. CASE entry.kind = "namespace"
    BY <2>2 DEF Offered
  <2>3. CASE entry.kind \notin {"passive", "unknown", "namespace"}
    <3> DEFINE tool == [kind |-> entry.kind, name |-> entry.name, space |-> NoName]
    <3>1. o = <<tool>>
      BY <2>3 DEF Offered
    <3> HIDE DEF o, tool
    <3>2. <<tool>> = [k \in DOMAIN <<tool>> |-> <<tool>>[k]]
      OBVIOUS
    <3> QED
      BY <3>1, <3>2
  <2> QED
    BY <2>1, <2>2, <2>3
<1>4. \A k \in DOMAIN o : o[k] \in ToolsOf(ask)
  <2>1. Range(o) \in {Range(Offered(ask.catalog[m])) : m \in DOMAIN ask.catalog}
    OBVIOUS
  <2> HIDE DEF o
  <2> QED
    BY <2>1 DEF ToolsOf, Range
<1> HIDE DEF o
<1>5. o \in Seq(ToolsOf(ask))
  BY <1>2, <1>3, <1>4
<1> QED
  BY <1>5 DEF o

\* So a request offers a list of tools.
LEMMA ToolsAreListed ==
  ASSUME NEW ask \in Asks PROVE OfferedBy(ask) \in Seq(ToolsOf(ask))
<1> DEFINE s == [i \in DOMAIN ask.catalog |-> Offered(ask.catalog[i])]
<1>1. PICK n \in Nat : DOMAIN ask.catalog = 1 .. n
  BY AsksAssumption
<1>2. \A i \in 1 .. n : Offered(ask.catalog[i]) \in Seq(ToolsOf(ask))
  BY <1>1, OffersAreLists
<1>3. s \in Seq(Seq(ToolsOf(ask)))
  <2> DEFINE S == Seq(ToolsOf(ask))
  <2>1. s \in [1 .. n -> S]
    BY <1>1, <1>2
  <2> HIDE DEF s, S
  <2>2. s \in Seq(S)
    BY <2>1
  <2> QED
    BY <2>2 DEF S
<1> HIDE DEF s
<1>4. FlattenSeq(s) \in Seq(ToolsOf(ask))
  BY <1>3, FlattenType
<1> QED
  BY <1>4 DEF OfferedBy, s

\* The first tool of a name is found, which is the tool itself or an earlier one.
LEMMA FirstIsFound == asked \in Asks => ToolsAreFound
<1> SUFFICES ASSUME asked \in Asks, NEW i \in DOMAIN OfferedTools
             PROVE  LET found == Identity(ClientName(OfferedTools[i])) IN
                    found = OfferedTools[i] \/ \E j \in 1 .. i - 1 : found = OfferedTools[j]
  BY DEF ToolsAreFound
<1> DEFINE word == ClientName(OfferedTools[i])
           I == {k \in 1 .. Len(OfferedTools) : ClientName(OfferedTools[k]) = word}
<1>1. OfferedTools \in Seq(ToolsOf(asked))
  BY ToolsAreListed DEF OfferedTools
<1>2. i \in 1 .. Len(OfferedTools) /\ Len(OfferedTools) \in Nat
  BY <1>1
<1>3. I \in SUBSET Nat /\ i \in I
  BY <1>2
<1>4. SelectInSeq(OfferedTools, LAMBDA tool : ClientName(tool) = word) = Min(I)
  BY <1>3 DEF SelectInSeq
<1> HIDE DEF I
<1>5. Min(I) \in I /\ \A k \in I : Min(I) <= k
  <2>1. \E m \in I : \A k \in I : m <= k
    BY <1>3, LeastOf
  <2> QED
    BY <2>1 DEF Min
<1>6. Min(I) \in Nat /\ Min(I) # 0 /\ Min(I) <= i
  BY <1>2, <1>3, <1>5 DEF I
<1> HIDE DEF word
<1>7. Identity(word) = OfferedTools[Min(I)]
  BY <1>4, <1>6 DEF Identity
<1>8. Min(I) = i \/ Min(I) \in 1 .. i - 1
  BY <1>2, <1>6
<1> QED
  BY <1>7, <1>8 DEF word

\* Each name comes back as the client knows it, in however many fragments, before or after its
\* arguments and over a repeated attempt: names are coded reversibly, a call is shown under the
\* name of its tool with all of its arguments, and every tool is found by its name.
THEOREM NamesAlwaysComeBack == NamesSpec => []NamesComeBack
<1>1. NamesInvariant => NamesComeBack
  BY OwnedIsReversible, FirstIsFound
     DEF NamesInvariant, NamesAreCoded, CodecInvariant, NamesComeBack
<1> QED
  BY <1>1, NamesStart, NamesStep, PTL DEF NamesSpec
==============================================================================
