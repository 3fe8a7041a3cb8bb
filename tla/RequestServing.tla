--------------------------- MODULE RequestServing ---------------------------
(***************************************************************************)
(* One gateway serving Messages and Responses requests: routing a model    *)
(* name to a chain of provider models, failing over along the chain while  *)
(* nothing was said, the process-wide health registry, the usage log, and  *)
(* the life of a response: first chunk, sends, disconnect, closing of the  *)
(* body and release of the lease on the runtime that serves it.            *)
(*                                                                         *)
(* Sources: application/{routing, failover, execution, health,             *)
(* usage_recorder}.py, api/{routes, response_streams}.py, api/handlers/,   *)
(* core/openai_responses/stream.py, core/anthropic/sse_aggregation.py.     *)
(*                                                                         *)
(* What a provider says is reduced to the chunks these modules tell apart: *)
(* a ping, message_start, a message_delta with usage, message_stop.  One   *)
(* unit of time is a minute.  Other providers and models of the catalog,   *)
(* reasoning policy and token counting are left out.                       *)
(***************************************************************************)
EXTENDS Integers, Sequences, FiniteSets, SequencesExt

CONSTANTS
  Requests,
  Wires,      \* by request, the wires it may come over
  Names,      \* model names a request may carry, records made by the three forms below
  TierRefs,   \* by tier, the provider/model references of its setting, in order
  Fallback,   \* global_fallback_model, a reference, or NoRef
  NoRef,
  Mortal,     \* the providers that may fail
  MaxTime     \* bound on the clock, in minutes

VARIABLES
  place,    \* where each request is
  wire,     \* "messages", "responses" or "json": the last is a non-streaming Messages request
  name,     \* the model name it carries
  nodes,    \* its chain, in the order the executor tries it
  at,       \* index of the node being tried
  content,  \* content_emitted
  source,   \* the stream of the provider: its last chunk, or "none", or "orphan"
  heard,    \* ghost: indices of the nodes whose content the consumer was given
  ended,    \* how the answer ended, "open" while it has not
  header,   \* the node x-claudey-route names
  billed,   \* usage records written for the request
  lease,    \* the lease: "none", "held" or "released"
  clock,
  marks,    \* _provider_marks: until when a provider is down
  locks,    \* _model_locks
  goodPath, \* _lkgp
  runtime   \* the runtime the leases are on: "current", "retired" or "closed"

servingVars == <<place, wire, name, nodes, at, content, source, heard, ended, header, billed,
                 lease, clock, marks, locks, goodPath, runtime>>

Tiers == DOMAIN TierRefs
Refs == ((UNION {ToSet(TierRefs[t]) : t \in Tiers}) \cup {Fallback} \cup {n.ref : n \in Names})
          \ {NoRef}
Providers == {ref[1] : ref \in Refs}

ASSUME ServingConstants ==
  /\ Wires \in [Requests -> SUBSET {"messages", "responses", "json"}]
  /\ MaxTime \in Nat
  /\ \A t \in Tiers : TierRefs[t] \in Seq(Refs) /\ TierRefs[t] # <<>>

-----------------------------------------------------------------------------
\* Routing.  A name is a Claude model of some tier, a plain provider/model, or the id under
\* which the gateway lists a provider model: anthropic/<provider>/<model>.
TierName(t) == [form |-> "tier", tier |-> t, ref |-> NoRef]
PlainName(ref) == [form |-> "plain", tier |-> "default", ref |-> ref]
GatewayName(ref) == [form |-> "gateway", tier |-> "default", ref |-> ref]

\* A ResolvedModel: the reference, and whether provider_model_ref is its gateway id.
Node(ref, encoded) == [ref |-> ref, encoded |-> encoded]
Nodes == [ref : Refs, encoded : BOOLEAN]
NoNode == [ref |-> NoRef, encoded |-> FALSE]

\* A name that is a provider's model itself is resolved to it.
Direct(n) == n.form # "tier"

ResolveChain(n) ==
  IF Direct(n) THEN <<Node(n.ref, n.form = "gateway")>>
  ELSE LET refs == TierRefs[n.tier]
           full == IF Fallback = NoRef \/ Fallback \in ToSet(refs) THEN refs
                   ELSE Append(refs, Fallback)
       IN  [i \in DOMAIN full |-> Node(full[i], FALSE)]

\* _split: what the registry takes for the provider of a provider_model_ref.
HealthName(node) == IF node.encoded THEN "anthropic" ELSE node.ref[1]
HealthNames == Providers \cup {"anthropic"}

-----------------------------------------------------------------------------
\* The health registry.
NoLock == [until |-> 0, attempts |-> 0]

SkippedIn(node, mk, lk) == clock < mk[HealthName(node)] \/ clock < lk[node].until
ShouldSkip(node) == SkippedIn(node, marks, locks)

Down == 1          \* PROVIDER_DOWN_COOLDOWN
AuthDown == 5      \* PROVIDER_AUTH_COOLDOWN
LockBase == 1      \* MODEL_LOCKOUT_BASE
LockMaxSteps == 3  \* MODEL_LOCKOUT_MAX_STEPS

Smaller(a, b) == IF a < b THEN a ELSE b

EscalatedUntil(lock) == lock.until + LockBase * 2^Smaller(lock.attempts, LockMaxSteps)

\* The failures of a provider.  "down" and "final" are the kinds of _PROVIDER_DOWN_KINDS, "final"
\* when it is not retryable, "reject" the kinds of _MODEL_LOCK_KINDS, "crash" any exception that
\* is not an ExecutionFailure.
FailureKinds == {"auth", "down", "final", "reject", "crash"}

MarksAfter(node, kind) ==
  [marks EXCEPT ![HealthName(node)] = CASE kind = "auth" -> clock + AuthDown
                                        [] kind \in {"down", "final"} -> clock + Down
                                        [] OTHER -> @]

LocksAfter(node, kind) ==
  IF kind # "reject" THEN locks
  ELSE [locks EXCEPT ![node] =
          [until |-> IF @ = NoLock THEN clock + LockBase ELSE EscalatedUntil(@),
           attempts |-> @.attempts + 1]]

\* record_success
MarksAfterSuccess(node) == [marks EXCEPT ![HealthName(node)] = 0]
LocksAfterSuccess(node) == [locks EXCEPT ![node] = NoLock]

-----------------------------------------------------------------------------
\* The order in which a chain is tried: the last-known-good node first.
OrderedNodes(n) ==
  LET chain == ResolveChain(n)
      good == goodPath[n.tier]
  IN  IF good \in ToSet(chain) /\ ~ShouldSkip(good) THEN <<good>> \o RemoveFirst(chain, good)
      ELSE chain

UsableAfter(seq, i, mk, lk) == {j \in i + 1 .. Len(seq) : ~SkippedIn(seq[j], mk, lk)}
Least(S) == CHOOSE j \in S : \A k \in S : j <= k
Usable(chain) == UsableAfter(chain, 0, marks, locks)

\* primary_route: the node x-claudey-route names, chosen as the executor would choose now.
PrimaryRoute(chain) == chain[IF Usable(chain) = {} THEN 1 ELSE Least(Usable(chain))]
RouteHeader(n) == PrimaryRoute(OrderedNodes(n))

Open == {"quiet", "pinged", "started", "metered", "stopped"}

ServingInit ==
  /\ place = [r \in Requests |-> "idle"]
  /\ wire = [r \in Requests |-> "messages"]
  /\ name \in [Requests -> {CHOOSE n \in Names : TRUE}]
  /\ nodes = [r \in Requests |-> <<>>]
  /\ at = [r \in Requests |-> 0]
  /\ content = [r \in Requests |-> FALSE]
  /\ source = [r \in Requests |-> "none"]
  /\ heard = [r \in Requests |-> {}]
  /\ ended = [r \in Requests |-> "open"]
  /\ header = [r \in Requests |-> NoNode]
  /\ billed = [r \in Requests |-> 0]
  /\ lease = [r \in Requests |-> "none"]
  /\ clock = 0
  /\ marks = [p \in HealthNames |-> 0]
  /\ locks = [n \in Nodes |-> NoLock]
  /\ goodPath = [t \in Tiers \cup {"default"} |-> NoNode]
  /\ runtime = "current"

registry == <<marks, locks, goodPath>>
world == <<clock, runtime>>
\* What a request keeps from its arrival on.
fixed == <<wire, name, nodes, header>>

-----------------------------------------------------------------------------
\* The stream of a node is opened.
OpenNode(r, i) ==
  /\ at' = [at EXCEPT ![r] = i]
  /\ source' = [source EXCEPT ![r] = "quiet"]

\* The provider of the first usable node may refuse the request before anything is opened.
Preflight(r, i) ==
  \/ OpenNode(r, i) /\ place' = [place EXCEPT ![r] = "starting"] /\ UNCHANGED ended
  \/ /\ at' = [at EXCEPT ![r] = i]
     /\ ended' = [ended EXCEPT ![r] = "invalid"]
     /\ place' = [place EXCEPT ![r] = "releasing"]
     /\ UNCHANGED source

NoUsableNode(r) ==
  /\ ended' = [ended EXCEPT ![r] = "unavailable"]
  /\ place' = [place EXCEPT ![r] = "releasing"]
  /\ UNCHANGED <<at, source>>

\* A request arrives and leases the runtime.  From there to the first wait for the provider the
\* handler does not suspend: chain, route header, preflight and choice of the first node are one
\* step.  With no usable node the stream fails with UNAVAILABLE.
Arrive(r, n, w) ==
  LET chain == OrderedNodes(n) IN
  /\ place[r] = "idle" /\ runtime = "current"
  /\ name' = [name EXCEPT ![r] = n]
  /\ wire' = [wire EXCEPT ![r] = w]
  /\ nodes' = [nodes EXCEPT ![r] = chain]
  /\ lease' = [lease EXCEPT ![r] = "held"]
  /\ header' = [header EXCEPT ![r] = RouteHeader(n)]
  /\ IF Usable(chain) = {} THEN NoUsableNode(r) ELSE Preflight(r, Least(Usable(chain)))
  /\ UNCHANGED <<content, heard, billed, registry, world>>

\* A request that never reaches a provider: it is invalid, or a local optimization answers it.
ServeLocally(r, n, how) ==
  /\ place[r] = "idle" /\ runtime = "current"
  /\ name' = [name EXCEPT ![r] = n]
  /\ lease' = [lease EXCEPT ![r] = "held"]
  /\ ended' = [ended EXCEPT ![r] = how]
  /\ place' = [place EXCEPT ![r] = "releasing"]
  /\ UNCHANGED <<wire, nodes, header, at, content, source, heard, billed, registry, world>>

Pulling(r) == place[r] \in {"starting", "pulling"} /\ source[r] \in Open

\* Which chunk may follow the last one.
NextChunk(s) == CASE s = "quiet" -> {"pinged", "started"}
                  [] s = "pinged" -> {"started"}
                  [] s = "started" -> {"metered"}
                  [] s = "metered" -> {"stopped"}
                  [] OTHER -> {}

\* record_usage, after the chunk that carried the numbers
Bill(r, chunk) == billed' = [billed EXCEPT ![r] = IF chunk = "metered" THEN @ + 1 ELSE @]

\* The provider yields a chunk c and the chain passes it on; one ping stands for many.  The
\* Responses adapter has nothing to say for a ping.  A JSON answer only accumulates: the
\* generators are resumed at once, so usage is recorded here.
Chunk(r, c) ==
  /\ Pulling(r)
  /\ c \in NextChunk(source[r])
  /\ source' = [source EXCEPT ![r] = c]
  /\ content' = [content EXCEPT ![r] = @ \/ c = "started"]
  /\ heard' = [heard EXCEPT ![r] = IF c = "started" THEN @ \cup {at[r]} ELSE @]
  /\ IF wire[r] = "json" \/ (wire[r] = "responses" /\ c = "pinged")
       THEN Bill(r, c) /\ UNCHANGED place
       ELSE place' = [place EXCEPT ![r] = "sending"] /\ UNCHANGED billed
  /\ UNCHANGED <<fixed, at, ended, lease, registry, world>>

\* Mistake: usage is recorded at the end too.
BillsTwice(r) ==
  /\ place[r] = "sending"
  /\ billed' = [billed EXCEPT ![r] = IF source[r] \in {"metered", "stopped"} THEN @ + 1 ELSE @]
  /\ place' = [place EXCEPT ![r] = IF ended[r] # "open" THEN "closing" ELSE "pulling"]
  /\ UNCHANGED <<fixed, at, content, source, heard, ended, lease, registry, world>>

\* The send is through.  The generators resume: usage is recorded after the yield that carried
\* it.  After the last frame of a failure the body is at its end.  A Responses stream returns at
\* message_stop without asking for more; the executor's generator is closed at its yield and
\* drops the stream of the provider unclosed.
Sent(r) ==
  /\ place[r] = "sending"
  /\ Bill(r, source[r])
  /\ IF ended[r] # "open" THEN place' = [place EXCEPT ![r] = "closing"] /\ UNCHANGED <<source, ended>>
     ELSE IF wire[r] = "responses" /\ source[r] = "stopped"
       THEN /\ place' = [place EXCEPT ![r] = "closing"]
            /\ ended' = [ended EXCEPT ![r] = "complete"]
            /\ source' = [source EXCEPT ![r] = "orphan"]
       ELSE place' = [place EXCEPT ![r] = "pulling"] /\ UNCHANGED <<source, ended>>
  /\ UNCHANGED <<fixed, at, content, heard, lease, registry, world>>

\* The stream of the provider is at its end: the executor records the success.
Finish(r) ==
  LET node == nodes[r][at[r]] IN
  /\ Pulling(r) /\ source[r] = "stopped"
  /\ source' = [source EXCEPT ![r] = "none"]
  /\ ended' = [ended EXCEPT ![r] = "complete"]
  /\ place' = [place EXCEPT ![r] = IF wire[r] = "json" THEN "releasing" ELSE "closing"]
  /\ marks' = MarksAfterSuccess(node)
  /\ locks' = LocksAfterSuccess(node)
  /\ goodPath' = [goodPath EXCEPT ![name[r].tier] = node]
  /\ UNCHANGED <<fixed, at, content, heard, billed, lease, world>>

\* The consumer learns of a failure: before the first chunk, or without streaming, as an error
\* response; later as a terminal frame that is sent like any other.
ErrorResponse(r) == place[r] = "starting" /\ place' = [place EXCEPT ![r] = "releasing"]
TerminalFrame(r) == place[r] = "pulling" /\ place' = [place EXCEPT ![r] = "sending"]

Surface(r) ==
  /\ source' = [source EXCEPT ![r] = "none"]
  /\ ended' = [ended EXCEPT ![r] = "error"]
  /\ ErrorResponse(r) \/ TerminalFrame(r)
  /\ UNCHANGED at

\* The provider fails.  The failure is finalized in the registry, and the next usable node is
\* opened when failing over is still allowed; nothing suspends in between.
FailsOverAnyTime(r, kind) == kind = "down" \* mistake: also after the first word

MayFailOver(r, kind) == kind = "down" /\ ~content[r]

ProviderFails(r, kind) ==
  LET node == nodes[r][at[r]]
      next == UsableAfter(nodes[r], at[r], marks', locks')
  IN  /\ Pulling(r) /\ node.ref[1] \in Mortal
      /\ marks' = MarksAfter(node, kind)
      /\ locks' = LocksAfter(node, kind)
      /\ IF MayFailOver(r, kind) /\ next # {}
           THEN OpenNode(r, Least(next)) /\ UNCHANGED <<ended, place>>
           ELSE Surface(r)
      /\ UNCHANGED <<fixed, content, heard, billed, lease, goodPath, world>>

\* Mistake: a client that leaves takes the task along that would have cleaned up.
LeavesNothingToClose(r) ==
  /\ place[r] \in {"sending", "pulling"}
  /\ source' = [source EXCEPT ![r] = "none"]
  /\ ended' = [ended EXCEPT ![r] = IF @ = "open" THEN "gone" ELSE @]
  /\ place' = [place EXCEPT ![r] = "done"]
  /\ UNCHANGED <<fixed, at, content, heard, billed, lease, registry, world>>

\* The client disconnects.  While the response waits for a chunk the cancellation unwinds every
\* generator; while it sends, they stay suspended until the body is closed.
Disconnect(r) ==
  /\ place[r] \in {"sending", "pulling"}
  /\ source' = [source EXCEPT ![r] = IF place[r] = "pulling" THEN "none" ELSE @]
  /\ ended' = [ended EXCEPT ![r] = IF @ = "open" THEN "gone" ELSE @]
  /\ place' = [place EXCEPT ![r] = "closing"]
  /\ UNCHANGED <<fixed, at, content, heard, billed, lease, registry, world>>

\* Mistake: only a response that has begun releases the lease.
ForgetsLease(r) ==
  /\ place[r] = "starting"
  /\ source' = [source EXCEPT ![r] = "none"]
  /\ ended' = [ended EXCEPT ![r] = "gone"]
  /\ place' = [place EXCEPT ![r] = "done"]
  /\ UNCHANGED <<fixed, at, content, heard, billed, lease, registry, world>>

\* The server cancels a request whose response has not begun.
CancelStart(r) ==
  /\ place[r] = "starting"
  /\ source' = [source EXCEPT ![r] = "none"]
  /\ ended' = [ended EXCEPT ![r] = "gone"]
  /\ place' = [place EXCEPT ![r] = "releasing"]
  /\ UNCHANGED <<fixed, at, content, heard, billed, lease, registry, world>>

\* The cleanup task closes the body.  GeneratorExit ends the executor's generator at its yield:
\* the stream it iterates is not closed, only dropped.
CloseBody(r) ==
  /\ place[r] = "closing"
  /\ source' = [source EXCEPT ![r] = IF @ \in Open THEN "orphan" ELSE @]
  /\ place' = [place EXCEPT ![r] = "releasing"]
  /\ UNCHANGED <<fixed, at, content, heard, ended, billed, lease, registry, world>>

Release(r) ==
  /\ place[r] = "releasing"
  /\ lease' = [lease EXCEPT ![r] = "released"]
  /\ place' = [place EXCEPT ![r] = "done"]
  /\ UNCHANGED <<fixed, at, content, source, heard, ended, billed, registry, world>>

\* The event loop's finalizer closes a generator that was dropped.
Reap(r) ==
  /\ source[r] = "orphan"
  /\ source' = [source EXCEPT ![r] = "none"]
  /\ UNCHANGED <<place, fixed, at, content, heard, ended, billed, lease, registry, world>>

requestVars == <<place, fixed, at, content, source, heard, ended, billed, lease>>

\* The runtime is replaced; it closes once no lease is left (see ProviderGenerations).
Retire ==
  /\ runtime = "current"
  /\ runtime' = "retired"
  /\ UNCHANGED <<requestVars, registry, clock>>

CloseRuntime ==
  /\ runtime = "retired"
  /\ \A r \in Requests : lease[r] # "held"
  /\ runtime' = "closed"
  /\ UNCHANGED <<requestVars, registry, clock>>

Minute ==
  /\ clock < MaxTime
  /\ clock' = clock + 1
  /\ UNCHANGED <<requestVars, registry, runtime>>

RequestStep(r) ==
  \/ \E c \in Open : Chunk(r, c)
  \/ Sent(r)
  \/ Finish(r)
  \/ \E kind \in FailureKinds : ProviderFails(r, kind)
  \/ Disconnect(r)
  \/ CancelStart(r)
  \/ CloseBody(r)
  \/ Release(r)
  \/ Reap(r)

ServingNext ==
  \/ \E r \in Requests, n \in Names :
       \/ \E w \in Wires[r] : Arrive(r, n, w)
       \/ \E how \in {"invalid", "local"} : ServeLocally(r, n, how)
  \/ \E r \in Requests : RequestStep(r)
  \/ Retire \/ CloseRuntime \/ Minute

\* What the event loop and the timeouts of the providers see to: a provider goes on or fails, a
\* send returns or the client is gone, cleanup tasks run.
Progress(r) ==
  \/ \E c \in Open : Chunk(r, c)
  \/ Sent(r) \/ Finish(r) \/ CloseBody(r) \/ Release(r)

ServingFairness ==
  /\ \A r \in Requests : WF_servingVars(Progress(r))
  /\ WF_servingVars(CloseRuntime)

ServingSafety == ServingInit /\ [][ServingNext]_servingVars
ServingSpec == ServingSafety /\ ServingFairness

-----------------------------------------------------------------------------
ServingTypeOK ==
  /\ place \in [Requests -> {"idle", "starting", "sending", "pulling", "closing", "releasing", "done"}]
  /\ wire \in [Requests -> {"messages", "responses", "json"}]
  /\ name \in [Requests -> Names]
  /\ nodes \in [Requests -> Seq(Nodes)]
  /\ at \in [Requests -> Nat]
  /\ content \in [Requests -> BOOLEAN]
  /\ source \in [Requests -> Open \cup {"none", "orphan"}]
  /\ heard \in [Requests -> SUBSET Nat]
  /\ ended \in [Requests -> {"open", "complete", "error", "gone", "unavailable", "invalid", "local"}]
  /\ header \in [Requests -> Nodes \cup {NoNode}]
  /\ billed \in [Requests -> Nat]
  /\ lease \in [Requests -> {"none", "held", "released"}]
  /\ runtime \in {"current", "retired", "closed"}

\* An answer comes from one node: whatever fails, and whichever node is tried next, the content
\* handed to a consumer is that of the node being tried, from its beginning (failover.py,
\* is_content_start: "the point of no return").
OneVoice == \A r \in Requests : heard[r] \subseteq {at[r]} /\ (heard[r] # {} => content[r])

\* Usage is written at most once for a request, through failover and disconnects, and exactly once
\* for an answer that was complete (usage_recorder.py, observe_usage).
BilledOnce ==
  \A r \in Requests : billed[r] <= 1 /\ (ended[r] = "complete" => billed[r] = 1)

\* A client hears one node and pays for one answer.
OneAnswerOneBill == OneVoice /\ BilledOnce

\* A runtime is not closed under a request: from its lease to the release of it, which comes after
\* the body was closed, the runtime is there; and nothing is leased afterwards (api/routes.py,
\* response_streams.py).
RuntimeOutlivesResponses ==
  \A r \in Requests : /\ place[r] \in {"idle", "done"} <=> lease[r] # "held"
                      /\ lease[r] = "held" => runtime # "closed"

\* The stream of a provider is closed before the lease on its runtime is given up
\* (ARCHITECTURE.md: "a generation lease is released only after the body chain has finished
\* closing").
StreamsHoldTheLease == \A r \in Requests : source[r] \in Open \cup {"orphan"} => lease[r] = "held"

\* Every request that arrived is answered and gives its lease back, and a retired runtime closes.
EveryRequestIsServed ==
  /\ []<>(\A r \in Requests : place[r] \in {"idle", "done"})
  /\ []<>(runtime # "retired")
=============================================================================
