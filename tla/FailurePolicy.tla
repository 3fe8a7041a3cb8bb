---------------------------- MODULE FailurePolicy ----------------------------
(***************************************************************************)
(* What a provider's exception means.  One exception is looked at by the    *)
(* admission controller (may the attempt be retried, is the account locked  *)
(* out), by the stream recovery (may the stream be continued), by the       *)
(* provider boundary (which canonical failure is it) and by the failover    *)
(* executor (may the next node be tried).  Each looks at another part of    *)
(* it: its class, its status, its body, the words of its text.              *)
(*                                                                         *)
(* A behaviour follows one exception through these looks.                   *)
(***************************************************************************)
EXTENDS Integers

CONSTANT Errors \* the exceptions an attempt may end with

VARIABLES
  first,    \* the exception as the provider raised it
  held,     \* the exception as it travels: [error, wrapped]
  special,  \* whether the provider has an override (NVIDIA NIM)
  decided   \* what admission did: "nothing", "retry", "lockout" or "final"

failureVars == <<first, held, special, decided>>

-----------------------------------------------------------------------------
(* Exceptions *)

NoStatus == -1
HttpErrors == 400 .. 599

\* Of the OpenAI SDK: a class for each of these statuses, and the other classes.
ByStatus == {"authentication", "permission", "rate_limit", "bad_request", "internal"}
Connections == {"sdk_timeout", "sdk_connection"}

\* Of httpx, all but the error that stands for a response.
Timeouts == {"read_timeout", "connect_timeout", "write_timeout"}
Networks == {"connect", "read", "write"}

Classes ==
  ByStatus \cup Connections \cup Timeouts \cup Networks
    \cup {"sdk_status", "sdk_event", "http_status", "remote_protocol", "timeout", "protocol",
          "other", "execution"}

Markers == {"rate_limit", "overload", "internal"}

\* What a part of a JSON body says of a status: a number, or words.
Parts == [number : Int, says : SUBSET Markers]
Silent == [number |-> NoStatus, says |-> {}]

FailureKinds == {"invalid_request", "context_window", "authentication", "permission", "rate_limit",
          "overloaded", "timeout", "upstream", "unavailable"}

\* The kinds for which another node, or another attempt, may help.
Passing == {"rate_limit", "overloaded", "timeout", "upstream", "unavailable"}

\* hint: what NVIDIA NIM says in the body of a 400 or 500.  kind and advice are those
\* of an ExecutionFailure, which other layers have given its meaning already.
ErrorRecords ==
  [class : Classes, status : HttpErrors \cup {NoStatus}, body : Parts, nested : Parts,
   says : SUBSET Markers, hint : {"none", "context", "degraded"},
   kind : FailureKinds, advice : {"retry", "final"}]

\* The SDK chooses the class by the status of a response; an event of a stream and a
\* broken connection have none.
HasItsClass(e) ==
  /\ e.class = "authentication" => e.status = 401
  /\ e.class = "permission" => e.status = 403
  /\ e.class = "rate_limit" => e.status = 429
  /\ e.class = "bad_request" => e.status = 400
  /\ e.class = "internal" => e.status >= 500
  /\ e.class \in {"sdk_status", "http_status", "execution"} => e.status # NoStatus
  /\ e.class \notin ByStatus \cup {"sdk_status", "http_status", "execution"} => e.status = NoStatus
  /\ e.class \notin ByStatus \cup {"sdk_status", "sdk_event", "http_status"} =>
       e.body = Silent /\ e.nested = Silent

RetryStatus(s) == s = 429 \/ s \in 500 .. 599

\* An ExecutionFailure raised below the boundary.
FailureKeepsItsWord(e) ==
  e.class = "execution" /\ e.advice = "retry" => RetryStatus(e.status) /\ e.kind \in Passing

RawErrors == {e \in ErrorRecords : HasItsClass(e) /\ FailureKeepsItsWord(e)}

ASSUME ErrorsAssumption == Errors \subseteq RawErrors

Failure(kind, status, advice) ==
  [class |-> "execution", status |-> status, body |-> Silent, nested |-> Silent, says |-> {},
   hint |-> "none", kind |-> kind, advice |-> advice]

Advice(again) == IF again THEN "retry" ELSE "final"

Raised(e) == [error |-> e, wrapped |-> FALSE]

-----------------------------------------------------------------------------
(* Statuses *)

OfWords(words) ==
  IF "rate_limit" \in words THEN 429
  ELSE IF "overload" \in words THEN 503
  ELSE IF "internal" \in words THEN 500 ELSE NoStatus

PartStatus(part) == IF part.number # NoStatus THEN part.number ELSE OfWords(part.says)

BodyStatus(e) == IF PartStatus(e.body) # NoStatus THEN PartStatus(e.body) ELSE PartStatus(e.nested)

\* The text of an exception is followed by its body and its response.
Text(e) == e.says \cup e.body.says \cup e.nested.says

\* retryable_transient_status, of an exception that is not a wrapper
TransientStatus(e) ==
  IF e.class = "execution" THEN IF e.advice = "retry" /\ RetryStatus(e.status) THEN e.status ELSE NoStatus
  ELSE IF e.class = "http_status" THEN IF RetryStatus(e.status) THEN e.status ELSE NoStatus
  ELSE IF e.class = "rate_limit" THEN 429
  ELSE IF RetryStatus(e.status) THEN e.status
  ELSE IF RetryStatus(BodyStatus(e)) THEN BodyStatus(e)
  ELSE OfWords(Text(e))

-----------------------------------------------------------------------------
(* Decisions *)

Transport(context) ==
  {"timeout", "read_timeout", "remote_protocol", "protocol"} \cup Networks \cup Connections
    \cup (IF context = "recovery" THEN {} ELSE Timeouts)

\* is_retryable_error, for a new attempt ("provider") or to go on with a stream
Retryable(h, context) ==
  LET e == h.error IN
  /\ ~h.wrapped
  /\ IF e.class = "execution" THEN e.advice = "retry"
     ELSE /\ e.class \notin {"authentication", "bad_request"}
          /\ context = "recovery" \/ e.class # "permission"
          /\ TransientStatus(e) # NoStatus \/ e.class \in Transport(context)

LockedOut(e) ==
  IF e.class = "execution" THEN e.kind \in {"authentication", "permission"}
  ELSE \/ e.class \in {"authentication", "permission"}
       \/ (IF e.status # NoStatus THEN e.status ELSE BodyStatus(e)) \in {401, 403}

OverloadedFailure == Failure("overloaded", 529, "retry")

\* What a provider with an override means by a 400 or a 500, where it differs.
Overridden(e, own) ==
  own /\ e.class \in {"bad_request", "internal"} /\ e.status \in {400, 500}
    /\ (e.hint = "context" \/ (e.hint = "degraded" /\ e.class = "bad_request"))
Override(e) ==
  IF e.hint = "context" THEN Failure("context_window", 400, "final") ELSE OverloadedFailure

Effective(e, own) == IF Overridden(e, own) THEN Override(e) ELSE e

SdkStatusOwnFirst(e) ==
  IF e.status # NoStatus THEN e.status
  ELSE IF TransientStatus(e) # NoStatus THEN TransientStatus(e) ELSE 500

SdkStatus(e) ==
  IF TransientStatus(e) # NoStatus THEN TransientStatus(e)
  ELSE IF e.status # NoStatus THEN e.status ELSE 500

OfAnSdkError(e) ==
  IF TransientStatus(e) = 429 THEN Failure("rate_limit", 429, "retry")
  ELSE IF "overload" \in Text(e) THEN OverloadedFailure
  ELSE IF SdkStatus(e) = 401 THEN Failure("authentication", 401, "final")
  ELSE IF SdkStatus(e) = 403 THEN Failure("permission", 403, "final")
  ELSE Failure("upstream", SdkStatus(e), Advice(Retryable(Raised(e), "provider")))

OfAResponse(e) ==
  IF e.status = 401 THEN Failure("authentication", 401, "final")
  ELSE IF e.status = 403 THEN Failure("permission", 403, "final")
  ELSE IF e.status = 429 THEN Failure("rate_limit", 429, "retry")
  ELSE IF e.status = 400 THEN Failure("invalid_request", 400, "final")
  ELSE IF e.status \in 502 .. 504 THEN OverloadedFailure
  ELSE Failure("upstream", e.status, Advice(RetryStatus(e.status)))

\* Errors of a transport, whose text may say that a retry helps.
OfTheTransport(e) ==
  Failure(IF e.class \in Timeouts \cup {"timeout"} THEN "timeout"
          ELSE IF e.class \in Networks THEN "unavailable" ELSE "upstream",
          502, Advice(Retryable(Raised(e), "provider")))

\* _classify_provider_failure
Meaning(e) ==
  IF e.class = "execution" THEN Failure(e.kind, e.status, e.advice)
  ELSE IF e.class = "authentication" THEN Failure("authentication", 401, "final")
  ELSE IF e.class = "permission" THEN Failure("permission", 403, "final")
  ELSE IF e.class = "rate_limit" THEN Failure("rate_limit", 429, "retry")
  ELSE IF e.class = "bad_request" THEN Failure("invalid_request", 400, "final")
  ELSE IF e.class = "sdk_timeout" THEN Failure("timeout", 500, "retry")
  ELSE IF e.class = "sdk_connection" THEN Failure("unavailable", 500, "retry")
  ELSE IF e.class = "internal" THEN
    IF "overload" \in Text(e) THEN OverloadedFailure ELSE Failure("upstream", e.status, "retry")
  ELSE IF e.class \in {"sdk_status", "sdk_event"} THEN OfAnSdkError(e)
  ELSE IF e.class = "http_status" THEN OfAResponse(e)
  ELSE OfTheTransport(e)

\* classify_provider_failure: of the exception inside a wrapper
Classified == Meaning(Effective(held.error, special))

\* The executor tries the next node of a chain.
FailsOver(f) == f.kind \in Passing /\ f.advice = "retry"

-----------------------------------------------------------------------------
(* The way of an exception *)

FailureInit ==
  /\ first \in Errors
  /\ held = Raised(first)
  /\ special \in BOOLEAN
  /\ decided = "nothing"

\* ProviderAttempt.retry
Decide ==
  /\ decided = "nothing"
  /\ decided' = IF Retryable(Raised(Effective(first, special)), "provider") THEN "retry"
                ELSE IF LockedOut(Effective(first, special)) THEN "lockout" ELSE "final"
  /\ UNCHANGED <<first, held, special>>

\* Callers behind an exhausted episode or a latched rejection get the last error.
Exhaust ==
  /\ decided \in {"retry", "lockout"} /\ ~held.wrapped /\ held.error = first
  /\ held' = [held EXCEPT !.wrapped = TRUE]
  /\ UNCHANGED <<first, special, decided>>

\* A boundary reports the failure, and the boundaries above it see its report.
Report ==
  /\ decided # "nothing"
  /\ held' = Raised(Classified)
  /\ UNCHANGED <<first, special, decided>>

FailureStep == Decide \/ Exhaust \/ Report

FailureSpec == FailureInit /\ [][FailureStep]_failureVars

-----------------------------------------------------------------------------
(* Correctness *)

FailureTypes ==
  /\ first \in Errors /\ special \in BOOLEAN
  /\ held = Raised(first) \/ held = [error |-> first, wrapped |-> TRUE]
       \/ held = Raised(Meaning(Effective(first, special)))
  /\ decided \in {"nothing", "retry", "lockout", "final"}
  /\ decided = "nothing" => held = Raised(first)

\* However the exception is wrapped and reported, it keeps the meaning the provider
\* gave it: classify_provider_failure unwraps what admission wrapped.
MeaningIsKept == Classified = Meaning(Effective(first, special))

\* What admission retried is what is reported as retryable, and what the next node
\* of a chain is tried for; a locked out account is neither.
LayersAgree ==
  decided # "nothing" =>
    /\ Classified.advice = "retry" <=> decided = "retry"
    /\ FailsOver(Classified) <=> decided = "retry"

\* A failure that is reported as retryable has a status clients retry: a 429 or a 5xx.
RetryIsSaid == Classified.advice = "retry" => RetryStatus(Classified.status)

\* A locked out account is reported as such, unless an event of a stream said so.
LockoutIsTold ==
  decided = "lockout" =>
    Classified.kind \in {"authentication", "permission"} \/ first.class = "sdk_event"

\* A stream goes on only after what a new attempt would be made for; but a refusal
\* whose text speaks of a limit is taken for one.
RecoveryIsNarrower ==
  Retryable(held, "recovery") => Retryable(held, "provider") \/ held.error.class = "permission"

\* One exception, looked at by four layers, is one failure.
FailureIsOneThing ==
  MeaningIsKept /\ LayersAgree /\ RetryIsSaid /\ LockoutIsTold /\ RecoveryIsNarrower
=============================================================================
