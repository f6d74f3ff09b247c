------------------------------ MODULE Requests ------------------------------
(***************************************************************************)
(* One HTTP call of the ejector: lib/request (retry, notOkError, abort) as *)
(* app/module.ts and its callers compose it, under the fallback, broadcast *)
(* and iteration of lib/fallback.                                          *)
(*                                                                         *)
(* The order of the middlewares decides what the abort timer covers.  It   *)
(* is cleared when the innermost chain returns: an error body read by a    *)
(* middleware outside of abort, and every body of a good response, is read *)
(* without a timer.                                                        *)
(***************************************************************************)
EXTENDS Integers

CONSTANTS
  Last,               \* number of URLs of each node list
  NodeTries,          \* retry(3) of both node clients
  WebhookMaxRetries   \* WEBHOOK_MAX_RETRIES

ASSUME LastAssumption == Last \in Nat \ {0}
ASSUME TriesAssumption == NodeTries \in Nat \ {0} /\ WebhookMaxRetries \in Nat

Endpoints == 1..Last

(* Kinds of calls: elRequest; clRequest with notOkError; clRequest with    *)
(* clErrorMessage (validatorInfo); exitRequest; the chain id of all URLs of *)
(* a list; the webhook.                                                    *)
Kinds == {"el", "cl", "validator", "exit", "chain", "webhook"}

Fallback == {"el", "cl", "validator"}

(* A body of a good response is read within the operation given to the     *)
(* combinator, or by its caller afterwards, or not at all.                 *)
BodyInOperation == {"el", "chain"}
BodyAfterCall == {"cl", "validator"}

(* notOkError is outside of abort for the execution client and the webhook, *)
(* the middlewares passed per call are inside of it.                       *)
ErrorBodyTimed == {"cl", "validator", "exit", "chain"}
ErrorMessage == {"validator", "exit"}

(* Without configured retries the webhook has no retry middleware.         *)
MaxTries(k) ==
  IF k = "webhook" THEN IF WebhookMaxRetries > 0 THEN WebhookMaxRetries ELSE 1
                   ELSE NodeTries

(* Errors by what the code tells apart: HttpException with a status that   *)
(* isRetryableHttpStatus accepts or not, FetchError, AbortError, the rest. *)
Errors == {"retryable", "notRetryable", "fetch", "abort", "other"}
Statuses == {"retryable", "notRetryable"}

isNotServerError(error) == error \in {"notRetryable", "abort", "other"}
(* Mutation: the default ignoreAbort is false. *)
RetriedUnlessAborted(error) == ~isNotServerError(error)
Retried(error) == ~isNotServerError(error) \/ error = "abort"
(* Mutation: a timeout is not among the errors that move to the next URL.  *)
FallbackUnlessAborted(error) == error \in {"retryable", "fetch"}
isFallbackable(error) == error \in {"retryable", "fetch", "abort"}

VARIABLES
  kind,     \* the call
  result,   \* "none", "pending", or how it settled: "value", "exhausted", "rejected"
  cursor,   \* index of the fallback loop
  phase,    \* [Endpoints -> where its operation is]
  attempt,  \* [Endpoints -> config.attempt]
  status,   \* [Endpoints -> status of its last response]
  outcome,  \* [Endpoints -> what its operation ended with]
  acted     \* [Endpoints -> whether the server has acted on a request of the call]

requestVars == <<kind, result, cursor, phase, attempt, status, outcome, acted>>

Phases == {"idle", "sent", "errorBody", "asleep", "body", "after", "done"}

RequestTypeOK ==
  /\ kind \in Kinds
  /\ result \in {"none", "pending", "value", "exhausted", "rejected"}
  /\ cursor \in Endpoints
  /\ phase \in [Endpoints -> Phases]
  /\ attempt \in [Endpoints -> 0..MaxTries(kind)]
  /\ status \in [Endpoints -> Statuses \cup {"none", "ok"}]
  /\ outcome \in [Endpoints -> Errors \cup {"none", "value"}]
  /\ acted \in [Endpoints -> BOOLEAN]

RequestInit ==
  /\ kind = "chain"
  /\ result = "none"
  /\ cursor = 1
  /\ phase = [e \in Endpoints |-> "idle"]
  /\ attempt = [e \in Endpoints |-> 0]
  /\ status = [e \in Endpoints |-> "none"]
  /\ outcome = [e \in Endpoints |-> "none"]
  /\ acted = [e \in Endpoints |-> FALSE]

-----------------------------------------------------------------------------
(* A call begins: a fallback asks its first URL, the webhook its only one, *)
(* a broadcast and an iteration all of them.                               *)
FirstAsked(k) == IF k \in {"exit", "chain"} THEN Endpoints ELSE {1}

Begin(k) ==
  /\ result # "pending"
  /\ kind' = k
  /\ result' = "pending"
  /\ cursor' = 1
  /\ phase' = [e \in Endpoints |-> IF e \in FirstAsked(k) THEN "sent" ELSE "idle"]
  /\ attempt' = [e \in Endpoints |-> IF e \in FirstAsked(k) THEN 1 ELSE 0]
  /\ status' = [e \in Endpoints |-> "none"]
  /\ outcome' = [e \in Endpoints |-> "none"]
  /\ acted' = [e \in Endpoints |-> FALSE]

(* The catch of retry.  Mutation: maxTries < attempt for maxTries <= attempt. *)
MayRetryOnceMore(e, error) == Retried(error) /\ attempt[e] <= MaxTries(kind)
MayRetry(e, error) == Retried(error) /\ attempt[e] < MaxTries(kind)

Throw(e, error) ==
  /\ phase' = [phase EXCEPT ![e] = IF MayRetry(e, error) THEN "asleep" ELSE "done"]
  /\ outcome' = [outcome EXCEPT ![e] = IF MayRetry(e, error) THEN "none" ELSE error]
  /\ UNCHANGED <<kind, result, cursor, attempt>>

HeadersOk(e) ==
  /\ phase[e] = "sent"
  /\ status' = [status EXCEPT ![e] = "ok"]
  /\ acted' = [acted EXCEPT ![e] = TRUE]
  /\ phase' = [phase EXCEPT ![e] = IF kind \in BodyInOperation THEN "body"
                                   ELSE IF kind \in BodyAfterCall THEN "after"
                                   ELSE "done"]
  /\ outcome' = [outcome EXCEPT ![e] = IF phase'[e] = "done" THEN "value" ELSE "none"]
  /\ UNCHANGED <<kind, result, cursor, attempt>>

HeadersNotOk(e) ==
  /\ phase[e] = "sent"
  /\ \E s \in Statuses : status' = [status EXCEPT ![e] = s]
  /\ phase' = [phase EXCEPT ![e] = "errorBody"]
  /\ UNCHANGED <<kind, result, cursor, attempt, outcome, acted>>

(* No response: the connection breaks or the timer aborts.  The server may *)
(* have acted on the request nevertheless.                                 *)
NoResponse(e) ==
  /\ phase[e] = "sent"
  /\ \E b \in {acted[e], TRUE} : acted' = [acted EXCEPT ![e] = b]
  /\ \E error \in {"fetch", "abort"} : Throw(e, error)
  /\ UNCHANGED status

(* notOkError throws by status, with a body that was read or with the      *)
(* status text for one that was not; but a body that is JSON null makes    *)
(* the message of the HttpException throw a TypeError.                     *)
notOkError(s, how) == IF how = "null" THEN "other" ELSE s

(* clErrorMessage throws by a retryable status; for the others it throws   *)
(* what stopped it from reading the body, or an Error with the message.    *)
clErrorMessage(s, how) ==
  IF s = "retryable" THEN s ELSE IF how \in {"read", "null"} THEN "other" ELSE how

ErrorBody(e) ==
  /\ phase[e] = "errorBody"
  /\ \E how \in {"read", "null", "fetch"} \cup (IF kind \in ErrorBodyTimed THEN {"abort"} ELSE {}) :
       Throw(e, IF kind \in ErrorMessage THEN clErrorMessage(status[e], how)
                                          ELSE notOkError(status[e], how))
  /\ UNCHANGED <<status, acted>>

(* Mutation: the incremented attempt is lost with the copy of the config. *)
RetryAsFirst(e) ==
  /\ phase[e] = "asleep"
  /\ phase' = [phase EXCEPT ![e] = "sent"]
  /\ status' = [status EXCEPT ![e] = "none"]
  /\ UNCHANGED <<kind, result, cursor, attempt, outcome, acted>>

Retry(e) ==
  /\ phase[e] = "asleep"
  /\ phase' = [phase EXCEPT ![e] = "sent"]
  /\ attempt' = [attempt EXCEPT ![e] = @ + 1]
  /\ status' = [status EXCEPT ![e] = "none"]
  /\ UNCHANGED <<kind, result, cursor, outcome, acted>>

(* safelyParseJsonResponse in the operation: the value, a body that is no  *)
(* JSON or lacks it, a connection that breaks, or, from the execution      *)
(* client, a JSON-RPC server error as an HttpException 502.                *)
Body(e) ==
  /\ phase[e] = "body"
  /\ phase' = [phase EXCEPT ![e] = "done"]
  /\ \E o \in {"value", "other", "fetch"} \cup (IF kind = "el" THEN {"retryable"} ELSE {}) :
       outcome' = [outcome EXCEPT ![e] = o]
  /\ UNCHANGED <<kind, result, cursor, attempt, status, acted>>

(* safelyParseJsonResponse after the fallback has returned the response.   *)
BodyAfter(e) ==
  /\ phase[e] = "after"
  /\ phase' = [phase EXCEPT ![e] = "done"]
  /\ \E o \in {"value", "other", "fetch"} :
       /\ outcome' = [outcome EXCEPT ![e] = o]
       /\ result' = IF o = "value" THEN "value" ELSE "rejected"
  /\ UNCHANGED <<kind, cursor, attempt, status, acted>>

-----------------------------------------------------------------------------
(* makeFallback after the operation at cursor has settled.                 *)
Settled == result = "pending" /\ phase[cursor] = "done"

NextEndpoint ==
  /\ kind \in Fallback /\ Settled
  /\ isFallbackable(outcome[cursor])
  /\ cursor < Last
  /\ cursor' = cursor + 1
  /\ phase' = [phase EXCEPT ![cursor + 1] = "sent"]
  /\ attempt' = [attempt EXCEPT ![cursor + 1] = 1]
  /\ UNCHANGED <<kind, result, status, outcome, acted>>

EndFallback ==
  /\ kind \in Fallback /\ Settled
  /\ isFallbackable(outcome[cursor]) => cursor = Last
  /\ result' = IF outcome[cursor] = "value" THEN "value"
               ELSE IF isFallbackable(outcome[cursor]) THEN "exhausted"
               ELSE "rejected"
  /\ UNCHANGED <<kind, cursor, phase, attempt, status, outcome, acted>>

(* broadcastAll needs one value, collect over iterateAll needs all.        *)
(* Mutation: endpoints that fail are left out of the check. *)
AnyAnswer(k, values) == values # {}
Suffices(k, values) == IF k = "chain" THEN values = Endpoints ELSE values # {}

(* Mutation: Promise.any for Promise.allSettled. *)
EndAny ==
  /\ kind \notin Fallback
  /\ result = "pending"
  /\ \E e \in FirstAsked(kind) : phase[e] = "done" /\ outcome[e] = "value"
  /\ result' = "value"
  /\ UNCHANGED <<kind, cursor, phase, attempt, status, outcome, acted>>

EndAll ==
  /\ kind \notin Fallback
  /\ result = "pending"
  /\ \A e \in FirstAsked(kind) : phase[e] = "done"
  /\ result' = IF Suffices(kind, {e \in Endpoints : outcome[e] = "value"})
               THEN "value" ELSE "exhausted"
  /\ UNCHANGED <<kind, cursor, phase, attempt, status, outcome, acted>>

EndpointStep(e) ==
  \/ HeadersOk(e) \/ HeadersNotOk(e) \/ NoResponse(e) \/ ErrorBody(e)
  \/ Retry(e) \/ Body(e) \/ BodyAfter(e)

CallStep == NextEndpoint \/ EndFallback \/ EndAll

(* Reads that no timer ends.                                               *)
UntimedBody(e) ==
  \/ phase[e] \in {"body", "after"}
  \/ phase[e] = "errorBody" /\ kind \notin ErrorBodyTimed

(* An awaited response or timed body settles because its timer does, a     *)
(* sleep ends, and settled promises go on.                                 *)
RequestFairness ==
  /\ \A e \in Endpoints : WF_requestVars(~UntimedBody(e) /\ EndpointStep(e))
  /\ WF_requestVars(CallStep)

-----------------------------------------------------------------------------
(* Properties *)

(* A later URL of a fallback is asked only when each one before it failed  *)
(* with an error that may pass, and only after all attempts that retry     *)
(* grants; an error of the body of an execution node needs no more.        *)
BackupWhenSpent ==
  kind \in Fallback =>
    \A e, f \in Endpoints :
      e < f /\ attempt[f] > 0 =>
        /\ isFallbackable(outcome[e])
        /\ attempt[e] = MaxTries(kind) \/ (kind = "el" /\ status[e] = "ok")

(* The answers that another URL is not asked to mend: a status that is not *)
(* 5xx, 408 or 429, and what fails a check of its form (an error body that *)
(* is JSON null included).                                                 *)
Terminal == {"notRetryable", "other"}

(* Nothing is left to try at a URL: it failed in each of the attempts that *)
(* retry grants, or with a terminal error, or in the body of a response    *)
(* that retry has let through as good.                                     *)
Spent(e) ==
  /\ phase[e] = "done" /\ outcome[e] \in Errors
  /\ attempt[e] = MaxTries(kind) \/ outcome[e] \in Terminal \/ status[e] = "ok"

(* A call fails only when nothing is left to try.  The webhook is spent; a *)
(* broadcast is spent at every URL; a check of chain ids, which needs all  *)
(* answers, at one.  A fallback is spent at the first URLs of its list, up *)
(* to the last one or to one that gave a terminal error.  The exception is *)
(* a consensus call, which may end at any URL whose headers were good: its *)
(* body is read after the fallback, and no other URL is asked for it.      *)
FailureIsTotal ==
  result \in {"exhausted", "rejected"} =>
    /\ kind = "webhook" => Spent(1)
    /\ kind = "exit" => \A e \in Endpoints : Spent(e)
    /\ kind = "chain" => \E e \in Endpoints : Spent(e)
    /\ kind \in Fallback => \E last \in Endpoints :
         /\ \A e \in 1 .. last : Spent(e)
         /\ \/ last = Last
            \/ outcome[last] \in Terminal
            \/ kind \in BodyAfterCall /\ status[last] = "ok"

(* Success is reported only when a server acted on the call and has        *)
(* answered so in a good response; nothing is in flight then.  For exits   *)
(* and the webhook this is the metric "success".                           *)
SuccessIsReal ==
  result = "value" =>
    /\ \E e \in Endpoints : acted[e] /\ status[e] = "ok" /\ outcome[e] = "value"
    /\ \A e \in Endpoints : phase[e] \in {"idle", "done"}

(* A call that never settles is one that waits for a body without a timer: *)
(* neither retries, nor timeouts, nor a mix of slow and dead URLs hold it. *)
OnlyBodiesHang ==
  <>[](result = "pending") => <>[](\E e \in Endpoints : UntimedBody(e))

(* README, EXECUTION_NODE (and the same for CONSENSUS_NODE): on a network  *)
(* error the daemon moves to the next URL.  A connection that breaks while *)
(* clRequest's caller reads the body is past the fallback.                 *)
NetworkErrorMovesOn ==
  result = "rejected" /\ outcome[cursor] = "fetch" => cursor = Last
=============================================================================
