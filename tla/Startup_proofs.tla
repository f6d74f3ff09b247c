--------------------------- MODULE Startup_proofs ---------------------------
(***************************************************************************)
(* Proofs about Requests and Startup.  The invariant speaks of one         *)
(* endpoint by itself, then of the order in which a call asks them, then   *)
(* of the stages of the start.                                             *)
(***************************************************************************)
EXTENDS Startup, TLAPS

(* What the state of one operation says about its past.                    *)
EndpointInv ==
  \A e \in Endpoints :
    /\ phase[e] = "idle" <=> attempt[e] = 0
    /\ phase[e] = "done" <=> outcome[e] # "none"
    /\ outcome[e] = "value" \/ phase[e] \in {"body", "after"} => acted[e] /\ status[e] = "ok"
    /\ phase[e] = "body" => kind \in BodyInOperation
    /\ phase[e] = "after" => kind \in BodyAfterCall
    /\ phase[e] = "errorBody" => status[e] \in Statuses
    /\ phase[e] \in {"idle", "sent", "asleep"} => status[e] # "ok"
    /\ phase[e] = "asleep" => attempt[e] < MaxTries(kind)
    /\ phase[e] = "done" /\ status[e] # "ok" /\ isFallbackable(outcome[e]) =>
         attempt[e] = MaxTries(kind)

(* A URL that the fallback has left behind.                                *)
LeftBehind(e) ==
  /\ phase[e] = "done"
  /\ isFallbackable(outcome[e])
  /\ attempt[e] = MaxTries(kind) \/ (kind = "el" /\ status[e] = "ok")

(* A fallback is at its cursor, with failures before it and nothing after  *)
(* it; the other combinators touch only the URLs they began with.          *)
OrderInv ==
  /\ kind \in Fallback =>
       \A e \in Endpoints : /\ e < cursor => LeftBehind(e)
                            /\ e > cursor => phase[e] = "idle"
  /\ kind \notin Fallback => \A e \in Endpoints \ FirstAsked(kind) : phase[e] = "idle"

(* What has settled is at rest, and settled for a reason.                  *)
ResultInv ==
  /\ result # "pending" => \A e \in Endpoints : phase[e] \in {"idle", "done"}
  /\ result = "pending" /\ kind \in BodyAfterCall =>
       \A e \in Endpoints : phase[e] = "done" => status[e] # "ok"
  /\ result = "value" => \E e \in Endpoints : outcome[e] = "value"
  /\ result = "value" /\ kind = "chain" => \A e \in Endpoints : outcome[e] = "value"
  /\ FailureIsTotal

CallInv == RequestTypeOK /\ EndpointInv /\ OrderInv /\ ResultInv

(* The checks that are behind.                                             *)
OneIdOfAll(l) == \A e, f \in Endpoints : reported[l][e] = reported[l][f]

StageInv ==
  /\ stage \in Checks /\ result # "none" => kind = CallOf(stage)
  /\ stage \in {"config", "exited"} => result = "none"
  /\ stage \in {"clChain", "elSync", "clSync", "running"} => OneIdOfAll("EL")
  /\ stage \in {"elSync", "clSync", "running"} => OneIdOfAll("CL") /\ SameLayers
  /\ stage \notin {"config", "exited"} => MakesConfig(env)

Inv == CallInv /\ TypeOK /\ StageInv

-----------------------------------------------------------------------------
LEMMA TriesType == \A k : MaxTries(k) \in Nat \ {0}
  BY TriesAssumption DEF MaxTries

LEMMA FirstEndpoint == 1 \in Endpoints
  BY LastAssumption DEF Endpoints

LEMMA InitInv == Init => Inv
<1> SUFFICES ASSUME Init PROVE Inv
  OBVIOUS
<1>1. RequestTypeOK
  BY TriesType, FirstEndpoint DEF Init, RequestInit, RequestTypeOK, Kinds, Phases
<1>2. EndpointInv
  BY DEF Init, RequestInit, EndpointInv, isFallbackable
<1>3. OrderInv /\ ResultInv
  BY DEF Init, RequestInit, OrderInv, ResultInv, FailureIsTotal, Fallback, FirstAsked
<1>4. TypeOK /\ StageInv
  BY <1>1 DEF Init, RequestInit, TypeOK, StageInv, Stages, Layers, Checks
<1> QED BY <1>1, <1>2, <1>3, <1>4 DEF Inv, CallInv

LEMMA BeginInv ==
  ASSUME CallInv, NEW k \in Kinds, Begin(k) PROVE CallInv'
<1>1. RequestTypeOK'
  BY TriesType, FirstEndpoint DEF CallInv, RequestTypeOK, Begin, Phases
<1>2. EndpointInv'
  BY DEF Begin, EndpointInv, isFallbackable
<1>3. OrderInv'
  BY DEF Begin, OrderInv, FirstAsked, Fallback, Endpoints, Kinds
<1>4. ResultInv'
  BY DEF Begin, ResultInv, FailureIsTotal
<1> QED BY <1>1, <1>2, <1>3, <1>4 DEF CallInv

(* An endpoint steps only within its call, and a fallback's only at the    *)
(* cursor.                                                                 *)
LEMMA StepsAtCursor ==
  ASSUME CallInv, NEW e \in Endpoints, phase[e] \notin {"idle", "done"}
  PROVE  /\ result = "pending"
         /\ kind \in Fallback => e = cursor
         /\ kind \notin Fallback => e \in FirstAsked(kind)
<1>1. result = "pending"
  BY DEF CallInv, ResultInv
<1>2. ASSUME kind \in Fallback PROVE e = cursor
  BY <1>2 DEF CallInv, OrderInv, LeftBehind, RequestTypeOK, Endpoints
<1>3. ASSUME kind \notin Fallback PROVE e \in FirstAsked(kind)
  BY <1>3 DEF CallInv, OrderInv
<1> QED BY <1>1, <1>2, <1>3

(* An operation that has failed has used its attempts, or another one      *)
(* would not help.                                                         *)
LEMMA FailedIsSpent ==
  ASSUME RequestTypeOK, EndpointInv, NEW e \in Endpoints,
         phase[e] = "done", outcome[e] # "value"
  PROVE  Spent(e)
<1>1. outcome[e] \in Errors
  BY DEF RequestTypeOK, EndpointInv
<1>2. outcome[e] \in Terminal \/ isFallbackable(outcome[e])
  BY <1>1 DEF Terminal, isFallbackable, Errors
<1> QED BY <1>1, <1>2 DEF Spent, EndpointInv

(* What a step of endpoint e that settles nothing leaves alone.            *)
OthersUnchanged(e) ==
  /\ UNCHANGED <<kind, cursor>>
  /\ \A f \in Endpoints \ {e} :
       /\ phase'[f] = phase[f] /\ attempt'[f] = attempt[f]
       /\ status'[f] = status[f] /\ outcome'[f] = outcome[f] /\ acted'[f] = acted[f]

(* The part of the invariant that speaks of several endpoints survives a   *)
(* step of one that ends in the middle of its call.                        *)
LEMMA OneStep ==
  ASSUME CallInv, NEW e \in Endpoints, phase[e] \notin {"idle", "done"},
         OthersUnchanged(e), UNCHANGED result, RequestTypeOK', EndpointInv',
         kind \in BodyAfterCall /\ phase'[e] = "done" => status'[e] # "ok"
  PROVE  CallInv'
<1>1. /\ result = "pending" /\ result' = "pending"
      /\ kind \in Fallback => e = cursor
      /\ kind \notin Fallback => e \in FirstAsked(kind)
  BY StepsAtCursor
<1>2. OrderInv'
  <2>1. ASSUME kind' \in Fallback, NEW f \in Endpoints
        PROVE  /\ f < cursor' => LeftBehind(f)'
               /\ f > cursor' => phase'[f] = "idle"
    <3>1. kind \in Fallback /\ e = cursor /\ cursor' = cursor
      BY <1>1, <2>1 DEF OthersUnchanged
    <3>2. f # cursor => f # e
      BY <3>1
    <3>3. f < cursor \/ f > cursor => f # cursor
      BY DEF CallInv, RequestTypeOK, Endpoints
    <3> QED BY <3>1, <3>2, <3>3 DEF OthersUnchanged, CallInv, OrderInv, LeftBehind
  <2>2. ASSUME kind' \notin Fallback, NEW f \in Endpoints \ FirstAsked(kind')
        PROVE  phase'[f] = "idle"
    BY <1>1, <2>2 DEF OthersUnchanged, CallInv, OrderInv
  <2> QED BY <2>1, <2>2 DEF OrderInv
<1>3. ResultInv'
  <2>1. ASSUME kind' \in BodyAfterCall, NEW f \in Endpoints, phase'[f] = "done"
        PROVE  status'[f] # "ok"
    <3>1. CASE f = e
      BY <2>1, <3>1 DEF OthersUnchanged
    <3>2. CASE f # e
      BY <1>1, <2>1, <3>2 DEF OthersUnchanged, CallInv, ResultInv
    <3> QED BY <3>1, <3>2
  <2> QED BY <1>1, <2>1 DEF ResultInv, FailureIsTotal
<1> QED BY <1>2, <1>3 DEF CallInv

-----------------------------------------------------------------------------
(* Steps of one endpoint *)

(* Throwing ends the operation only when retry has no attempt left or does *)
(* not retry the error, and every error that another URL mends is retried. *)
LEMMA ThrowEndpoint ==
  ASSUME CallInv, NEW e \in Endpoints, NEW error \in Errors,
         phase[e] \in {"sent", "errorBody"}, Throw(e, error),
         status' = status, acted' \in [Endpoints -> BOOLEAN],
         \A f \in Endpoints \ {e} : acted'[f] = acted[f]
  PROVE  CallInv'
<1> USE DEF CallInv
<1>1. status[e] # "ok"
  BY DEF EndpointInv, Statuses
<1>2. RequestTypeOK'
  BY DEF Throw, RequestTypeOK, Phases, Errors
<1>3. EndpointInv'
  <2> SUFFICES ASSUME NEW f \in Endpoints
      PROVE /\ phase'[f] = "idle" <=> attempt'[f] = 0
            /\ phase'[f] = "done" <=> outcome'[f] # "none"
            /\ outcome'[f] = "value" \/ phase'[f] \in {"body", "after"} => acted'[f] /\ status'[f] = "ok"
            /\ phase'[f] = "body" => kind' \in BodyInOperation
            /\ phase'[f] = "after" => kind' \in BodyAfterCall
            /\ phase'[f] = "errorBody" => status'[f] \in Statuses
            /\ phase'[f] \in {"idle", "sent", "asleep"} => status'[f] # "ok"
            /\ phase'[f] = "asleep" => attempt'[f] < MaxTries(kind')
            /\ phase'[f] = "done" /\ status'[f] # "ok" /\ isFallbackable(outcome'[f]) =>
                 attempt'[f] = MaxTries(kind')
    BY DEF EndpointInv, isFallbackable
  <2>1. CASE f # e
    BY <2>1 DEF Throw, EndpointInv, RequestTypeOK
  <2>2. CASE f = e
    <3>1. isFallbackable(error) => Retried(error)
      BY DEF isFallbackable, Retried, isNotServerError
    <3>2. attempt[e] \in 0..MaxTries(kind) /\ MaxTries(kind) \in Nat
      BY TriesType DEF RequestTypeOK
    <3>3. ~MayRetry(e, error) /\ isFallbackable(error) => attempt[e] = MaxTries(kind)
      BY <3>1, <3>2 DEF MayRetry
    <3>5. MayRetry(e, error) => attempt[e] < MaxTries(kind)
      BY DEF MayRetry
    <3>4. /\ phase'[e] = IF MayRetry(e, error) THEN "asleep" ELSE "done"
          /\ outcome'[e] = IF MayRetry(e, error) THEN "none" ELSE error
          /\ attempt' = attempt /\ kind' = kind
      BY DEF Throw, RequestTypeOK
    <3> QED BY <1>1, <2>2, <3>3, <3>4, <3>5 DEF EndpointInv, Errors
  <2> QED BY <2>1, <2>2
<1>4. OthersUnchanged(e) /\ UNCHANGED result
  BY DEF Throw, OthersUnchanged, RequestTypeOK
<1>5. phase[e] \notin {"idle", "done"}
  OBVIOUS
<1> QED BY <1>1, <1>2, <1>3, <1>4, <1>5, OneStep

LEMMA HeadersOkInv == ASSUME CallInv, NEW e \in Endpoints, HeadersOk(e) PROVE CallInv'
<1> USE DEF CallInv
<1>1. RequestTypeOK'
  BY DEF HeadersOk, RequestTypeOK, Phases
<1>2. EndpointInv'
  BY DEF HeadersOk, EndpointInv, RequestTypeOK, isFallbackable
<1>3. OthersUnchanged(e) /\ UNCHANGED result
  BY DEF HeadersOk, OthersUnchanged, RequestTypeOK
<1>4. kind \in BodyAfterCall => phase'[e] # "done"
  BY DEF HeadersOk, RequestTypeOK
<1>5. phase[e] \notin {"idle", "done"}
  BY DEF HeadersOk
<1> QED BY <1>1, <1>2, <1>3, <1>4, <1>5, OneStep

LEMMA HeadersNotOkInv == ASSUME CallInv, NEW e \in Endpoints, HeadersNotOk(e) PROVE CallInv'
<1> USE DEF CallInv
<1>1. RequestTypeOK'
  BY DEF HeadersNotOk, RequestTypeOK, Phases, Statuses
<1>2. EndpointInv'
  BY DEF HeadersNotOk, EndpointInv, RequestTypeOK, Statuses
<1>3. OthersUnchanged(e) /\ UNCHANGED result
  BY DEF HeadersNotOk, OthersUnchanged, RequestTypeOK
<1>4. phase'[e] # "done" /\ phase[e] \notin {"idle", "done"}
  BY DEF HeadersNotOk, RequestTypeOK
<1> QED BY <1>1, <1>2, <1>3, <1>4, OneStep

LEMMA NoResponseInv == ASSUME CallInv, NEW e \in Endpoints, NoResponse(e) PROVE CallInv'
<1>1. PICK error \in {"fetch", "abort"} : Throw(e, error)
  BY DEF NoResponse
<1>2. error \in Errors
  BY DEF Errors
<1>3. acted' \in [Endpoints -> BOOLEAN] /\ \A f \in Endpoints \ {e} : acted'[f] = acted[f]
  BY DEF NoResponse, CallInv, RequestTypeOK
<1>4. phase[e] \in {"sent", "errorBody"} /\ status' = status
  BY DEF NoResponse
<1> QED BY <1>1, <1>2, <1>3, <1>4, ThrowEndpoint

LEMMA ErrorBodyInv == ASSUME CallInv, NEW e \in Endpoints, ErrorBody(e) PROVE CallInv'
<1> DEFINE thrown(how) == IF kind \in ErrorMessage THEN clErrorMessage(status[e], how)
                                                   ELSE notOkError(status[e], how)
<1>1. PICK how \in {"read", "null", "fetch", "abort"} : Throw(e, thrown(how))
  BY DEF ErrorBody
<1>2. status[e] \in Statuses /\ phase[e] \in {"sent", "errorBody"}
  BY DEF ErrorBody, CallInv, EndpointInv
<1>3. thrown(how) \in Errors
  BY <1>2 DEF clErrorMessage, notOkError, Errors, Statuses
<1>4. status' = status /\ acted' = acted /\ acted \in [Endpoints -> BOOLEAN]
  BY DEF ErrorBody, CallInv, RequestTypeOK
<1> QED BY <1>1, <1>2, <1>3, <1>4, ThrowEndpoint

(* A sleeping operation has an attempt left.                               *)
LEMMA RetryInv ==
  ASSUME CallInv, NEW e \in Endpoints, Retry(e) PROVE CallInv'
<1> USE DEF CallInv
<1>0. attempt[e] < MaxTries(kind)
  BY DEF Retry, EndpointInv
<1>1. RequestTypeOK'
  BY <1>0, TriesType DEF Retry, RequestTypeOK, Phases
<1>2. EndpointInv'
  BY TriesType DEF Retry, EndpointInv, RequestTypeOK
<1>3. OthersUnchanged(e) /\ UNCHANGED result
  BY DEF Retry, OthersUnchanged, RequestTypeOK
<1>4. phase'[e] # "done" /\ phase[e] \notin {"idle", "done"}
  BY DEF Retry, RequestTypeOK
<1> QED BY <1>1, <1>2, <1>3, <1>4, OneStep

LEMMA BodyInv == ASSUME CallInv, NEW e \in Endpoints, Body(e) PROVE CallInv'
<1> USE DEF CallInv
<1>1. RequestTypeOK'
  BY DEF Body, RequestTypeOK, Phases, Errors
<1>2. EndpointInv'
  BY DEF Body, EndpointInv, RequestTypeOK
<1>3. OthersUnchanged(e) /\ UNCHANGED result
  BY DEF Body, OthersUnchanged, RequestTypeOK
<1>4. kind \notin BodyAfterCall /\ phase[e] \notin {"idle", "done"}
  BY DEF Body, EndpointInv, BodyInOperation, BodyAfterCall
<1> QED BY <1>1, <1>2, <1>3, <1>4, OneStep

(* The body read after the call settles it: nothing else is under way.     *)
LEMMA BodyAfterInv == ASSUME CallInv, NEW e \in Endpoints, BodyAfter(e) PROVE CallInv'
<1> USE DEF CallInv
<1>1. RequestTypeOK'
  BY DEF BodyAfter, RequestTypeOK, Phases, Errors
<1>2. EndpointInv'
  BY DEF BodyAfter, EndpointInv, RequestTypeOK
<1>3. kind \in BodyAfterCall /\ phase[e] \notin {"idle", "done"} /\ status[e] = "ok"
  BY DEF BodyAfter, EndpointInv
<1>4. kind \in Fallback /\ kind \notin {"el", "chain", "webhook"} /\ e = cursor
  BY <1>3, StepsAtCursor DEF BodyAfterCall, Fallback
<1>5. \A f \in Endpoints : f # e =>
        /\ phase'[f] = phase[f] /\ phase[f] \in {"idle", "done"} /\ outcome'[f] = outcome[f]
        /\ status' = status /\ attempt' = attempt
        /\ f < cursor => LeftBehind(f)
        /\ f > cursor => phase[f] = "idle"
  BY <1>4 DEF BodyAfter, OrderInv, LeftBehind, RequestTypeOK, Endpoints
<1>6. OrderInv'
  BY <1>4, <1>5 DEF BodyAfter, OrderInv, LeftBehind, RequestTypeOK, Endpoints
<1>7. phase'[e] = "done" /\ (result' = "value" => outcome'[e] = "value")
      /\ result' \in {"value", "rejected"} /\ kind' = kind
  BY DEF BodyAfter, RequestTypeOK
<1>8. FailureIsTotal'
  <2> SUFFICES ASSUME result' = "rejected" PROVE FailureIsTotal'
    BY <1>7 DEF FailureIsTotal
  <2>1. outcome'[e] # "value" /\ outcome'[e] \in Errors /\ status'[e] = "ok"
    BY <1>3 DEF BodyAfter, RequestTypeOK, Errors
  <2>2. Spent(e)'
    BY <1>7, <2>1 DEF Spent
  <2>3. ASSUME NEW f \in Endpoints, f < e PROVE Spent(f)'
    <3>1. LeftBehind(f) /\ f # e
      BY <1>4, <1>5, <2>3 DEF Endpoints
    <3>2. phase[f] = "done" /\ outcome[f] # "value"
      BY <3>1 DEF LeftBehind, isFallbackable
    <3>3. Spent(f)
      BY <3>2, FailedIsSpent
    <3> QED BY <1>5, <1>7, <3>1, <3>3 DEF Spent
  <2>4. \A f \in 1 .. e : f \in Endpoints /\ (f = e \/ f < e)
    BY LastAssumption DEF Endpoints
  <2>5. \A f \in 1 .. e : Spent(f)'
    BY <2>2, <2>3, <2>4
  <2>6. kind' \in Fallback /\ kind' \in BodyAfterCall /\ kind' \notin {"exit", "chain", "webhook"}
    BY <1>3, <1>7 DEF BodyAfterCall, Fallback
  <2> QED BY <2>1, <2>5, <2>6 DEF FailureIsTotal
<1>9. ResultInv'
  BY <1>4, <1>5, <1>7, <1>8 DEF ResultInv
<1> QED BY <1>1, <1>2, <1>6, <1>9

(* A URL behind the cursor was left with a failure that another one mends. *)
LEMMA NextEndpointInv == ASSUME CallInv, NextEndpoint PROVE CallInv'
<1> USE DEF CallInv
<1>1. cursor \in Endpoints /\ cursor + 1 \in Endpoints
  BY LastAssumption DEF NextEndpoint, RequestTypeOK, Endpoints
<1>2. RequestTypeOK'
  BY <1>1, TriesType DEF NextEndpoint, RequestTypeOK, Phases
<1>3. phase[cursor + 1] = "idle" /\ outcome[cursor + 1] = "none"
  BY <1>1 DEF NextEndpoint, OrderInv, EndpointInv, Endpoints
<1>4. EndpointInv'
  BY <1>1, <1>3, TriesType DEF NextEndpoint, EndpointInv, RequestTypeOK, isFallbackable
<1>5. LeftBehind(cursor)
  <2>1. phase[cursor] = "done" /\ isFallbackable(outcome[cursor])
    BY DEF NextEndpoint, Settled
  <2>2. kind # "el" => status[cursor] # "ok"
    BY <1>1, <2>1 DEF NextEndpoint, Settled, ResultInv, Fallback, BodyAfterCall
  <2> QED BY <1>1, <2>1, <2>2 DEF LeftBehind, EndpointInv
<1>6. OrderInv'
  <2>1. ASSUME NEW f \in Endpoints
        PROVE /\ f < cursor' => LeftBehind(f)'
              /\ f > cursor' => phase'[f] = "idle"
    <3>1. cursor' = cursor + 1 /\ cursor \in Int /\ f \in Int
      BY <1>1 DEF NextEndpoint, Endpoints
    <3>2. f # cursor + 1 => phase'[f] = phase[f] /\ attempt'[f] = attempt[f]
      BY <1>1 DEF NextEndpoint, RequestTypeOK
    <3>3. outcome' = outcome /\ status' = status /\ kind' = kind
      BY DEF NextEndpoint
    <3>4. f < cursor + 1 => LeftBehind(f)
      BY <1>5, <3>1 DEF NextEndpoint, OrderInv
    <3>5. f > cursor + 1 => phase[f] = "idle"
      BY <3>1 DEF NextEndpoint, OrderInv
    <3> QED BY <3>1, <3>2, <3>3, <3>4, <3>5 DEF LeftBehind
  <2> QED BY <2>1 DEF OrderInv, NextEndpoint
<1>7. ResultInv'
  BY <1>1 DEF NextEndpoint, Settled, ResultInv, FailureIsTotal, RequestTypeOK
<1> QED BY <1>2, <1>4, <1>6, <1>7

LEMMA EndFallbackInv == ASSUME CallInv, EndFallback PROVE CallInv'
<1> USE DEF CallInv
<1>1. RequestTypeOK'
  BY DEF EndFallback, RequestTypeOK
<1>2. EndpointInv' /\ OrderInv'
  BY DEF EndFallback, EndpointInv, OrderInv, LeftBehind
<1>3. ASSUME NEW e \in Endpoints
      PROVE  /\ e < cursor => LeftBehind(e)
             /\ e = cursor => phase[e] = "done"
             /\ e > cursor => phase[e] = "idle"
  BY DEF EndFallback, Settled, OrderInv
<1>4. \A e \in Endpoints : phase[e] \in {"idle", "done"}
  BY <1>3 DEF LeftBehind, RequestTypeOK, Endpoints
<1>5. kind \in Fallback /\ kind' = kind /\ kind \notin {"exit", "chain", "webhook"} /\ cursor \in Endpoints
  BY DEF EndFallback, Fallback, RequestTypeOK
<1>6. UNCHANGED <<cursor, phase, attempt, status, outcome>> /\ result' # "pending"
  BY DEF EndFallback
<1>7. FailureIsTotal'
  <2> SUFFICES ASSUME result' \in {"exhausted", "rejected"} PROVE FailureIsTotal'
    BY DEF FailureIsTotal
  <2>1. outcome[cursor] # "value"
    BY DEF EndFallback
  <2>2. \A e \in 1 .. cursor : Spent(e)
    <3>1. \A e \in 1 .. cursor : /\ e \in Endpoints /\ (e = cursor \/ e < cursor)
      BY <1>5, LastAssumption DEF Endpoints
    <3>2. \A e \in 1 .. cursor : phase[e] = "done" /\ outcome[e] # "value"
      BY <1>3, <2>1, <3>1 DEF LeftBehind, isFallbackable
    <3> QED BY <3>1, <3>2, FailedIsSpent
  <2>3. cursor = Last \/ outcome[cursor] \in Terminal
    <3>1. outcome[cursor] \in Errors
      BY <1>5, <2>2, LastAssumption DEF Spent, Endpoints
    <3> QED BY <3>1 DEF EndFallback, isFallbackable, Terminal, Errors
  <2> QED BY <1>5, <1>6, <2>2, <2>3 DEF FailureIsTotal, Spent
<1>8. ResultInv'
  <2>1. result' = "value" => outcome[cursor] = "value"
    BY DEF EndFallback
  <2> QED BY <1>4, <1>5, <1>6, <1>7, <2>1 DEF ResultInv
<1> QED BY <1>1, <1>2, <1>8

LEMMA EndAllInv == ASSUME CallInv, EndAll PROVE CallInv'
<1> USE DEF CallInv
<1>1. RequestTypeOK'
  BY DEF EndAll, RequestTypeOK
<1>2. EndpointInv' /\ OrderInv'
  BY DEF EndAll, EndpointInv, OrderInv, LeftBehind
<1>3. \A e \in Endpoints : phase[e] \in {"idle", "done"}
  BY DEF EndAll, OrderInv
<1>4. ASSUME NEW e \in FirstAsked(kind), outcome[e] # "value" PROVE Spent(e)
  <2>1. e \in Endpoints /\ phase[e] = "done"
    BY FirstEndpoint DEF EndAll, FirstAsked
  <2> QED BY <1>4, <2>1, FailedIsSpent
<1>5. kind \in {"exit", "chain", "webhook"} /\ kind' = kind /\ kind \notin Fallback
  BY DEF EndAll, RequestTypeOK, Kinds, Fallback
<1>6. FirstAsked(kind) = (IF kind = "webhook" THEN {1} ELSE Endpoints)
  BY <1>5 DEF FirstAsked
<1>7. result' = "value" => \E e \in Endpoints : outcome[e] = "value"
  BY FirstEndpoint DEF EndAll, Suffices
<1>8. result' = "value" /\ kind = "chain" => \A e \in Endpoints : outcome[e] = "value"
  BY DEF EndAll, Suffices
<1>9. UNCHANGED <<cursor, phase, attempt, status, outcome>> /\ result' \in {"value", "exhausted"}
  BY DEF EndAll
<1>10. FailureIsTotal'
  <2> SUFFICES ASSUME result' = "exhausted" PROVE FailureIsTotal'
    BY <1>9 DEF FailureIsTotal
  <2>1. ~Suffices(kind, {e \in Endpoints : outcome[e] = "value"})
    BY DEF EndAll
  <2>2. kind = "chain" => \E e \in Endpoints : Spent(e)
    BY <1>4, <1>6, <2>1 DEF Suffices
  <2>3. kind # "chain" => \A e \in FirstAsked(kind) : Spent(e)
    BY <1>4, <1>6, <2>1, FirstEndpoint DEF Suffices
  <2>4. \A e : Spent(e)' <=> Spent(e)
    BY <1>5, <1>9 DEF Spent
  <2> QED BY <1>5, <1>6, <2>2, <2>3, <2>4 DEF FailureIsTotal
<1>11. ResultInv'
  BY <1>3, <1>5, <1>7, <1>8, <1>9, <1>10 DEF ResultInv, BodyAfterCall
<1> QED BY <1>1, <1>2, <1>11

LEMMA CallStepInv ==
  ASSUME CallInv, CallStep \/ \E e \in Endpoints : EndpointStep(e) PROVE CallInv'
<1>1. CASE CallStep
  BY <1>1, NextEndpointInv, EndFallbackInv, EndAllInv DEF CallStep
<1>2. ASSUME NEW e \in Endpoints, EndpointStep(e) PROVE CallInv'
  BY <1>2, HeadersOkInv, HeadersNotOkInv, NoResponseInv, ErrorBodyInv, RetryInv,
     BodyInv, BodyAfterInv DEF EndpointStep
<1> QED BY <1>1, <1>2

LEMMA UnderWay ==
  ASSUME CallInv, CallStep \/ \E e \in Endpoints : EndpointStep(e)
  PROVE  kind' = kind /\ result = "pending"
<1>1. CASE CallStep
  BY <1>1 DEF CallStep, NextEndpoint, EndFallback, EndAll, Settled
<1>2. ASSUME NEW e \in Endpoints, EndpointStep(e) PROVE kind' = kind /\ result = "pending"
  <2>1. phase[e] \notin {"idle", "done"}
    BY <1>2 DEF EndpointStep, HeadersOk, HeadersNotOk, NoResponse, ErrorBody, Retry, Body, BodyAfter
  <2>2. kind' = kind
    BY <1>2 DEF EndpointStep, HeadersOk, HeadersNotOk, NoResponse, ErrorBody, Retry, Body, BodyAfter, Throw
  <2> QED BY <2>1, <2>2, StepsAtCursor
<1> QED BY <1>1, <1>2

-----------------------------------------------------------------------------
(* Steps of the start *)

LEMMA SettleStage ==
  ASSUME Inv, stage \in Checks, result # "pending", result' = "none", stage' \in Stages,
         UNCHANGED <<kind, cursor, phase, attempt, status, outcome, acted, env, reported>>
  PROVE  CallInv' /\ TypeOK'
<1> USE DEF Inv, CallInv
<1>1. RequestTypeOK'
  BY DEF RequestTypeOK
<1>2. EndpointInv' /\ OrderInv'
  BY DEF EndpointInv, OrderInv, LeftBehind
<1>3. ResultInv'
  BY DEF ResultInv, FailureIsTotal
<1> QED BY <1>1, <1>2, <1>3 DEF TypeOK

(* A check of chain ids passes when all URLs have answered with one id,    *)
(* because collect takes a URL that fails for a failure of the check.      *)
LEMMA PassCheckInv == ASSUME Inv, PassCheck PROVE Inv'
<1>1. stage' \in Stages
  BY DEF PassCheck, Checks, StageAfter, Stages
<1>2. CallInv' /\ TypeOK'
  BY <1>1, SettleStage DEF PassCheck
<1>3. kind = CallOf(stage) /\ reported' = reported
  BY DEF PassCheck, Inv, StageInv
<1>4. stage \in {"elChain", "clChain"} => Answered = Endpoints
  BY <1>3 DEF CallOf, Answered, PassCheck, Inv, CallInv, ResultInv
<1>5. stage = "elChain" => OneIdOfAll("EL")
  BY <1>4 DEF PassCheck, MayPass, OneId, OneIdOfAll
<1>6. stage = "clChain" => OneIdOfAll("CL") /\ SameLayers
  BY <1>4 DEF PassCheck, MayPass, OneId, OneIdOfAll
<1>7. /\ stage' \in {"clChain", "elSync", "clSync", "running"} => OneIdOfAll("EL")'
      /\ stage' \in {"elSync", "clSync", "running"} => OneIdOfAll("CL")' /\ SameLayers'
  BY <1>3, <1>5, <1>6 DEF PassCheck, Checks, StageAfter, OneIdOfAll, SameLayers, Inv, StageInv
<1>8. stage' \notin {"config", "exited"} => MakesConfig(env')
  BY DEF PassCheck, Inv, StageInv, Checks
<1>9. result' = "none" /\ stage' \notin {"config", "exited"}
  BY DEF PassCheck, Checks, StageAfter
<1> QED BY <1>2, <1>7, <1>8, <1>9 DEF Inv, StageInv

LEMMA FailCheckInv == ASSUME Inv, FailCheck PROVE Inv'
<1>1. CallInv' /\ TypeOK'
  BY SettleStage DEF FailCheck, Stages
<1>2. StageInv'
  BY DEF FailCheck, StageInv, Checks
<1> QED BY <1>1, <1>2 DEF Inv

(* Nothing of a call changes while none of its variables does.             *)
LEMMA CallRests == ASSUME CallInv, UNCHANGED requestVars PROVE CallInv'
  BY DEF requestVars, CallInv, RequestTypeOK, EndpointInv, OrderInv, LeftBehind, ResultInv, FailureIsTotal, Spent

(* The stage of a layer collects its ids before any check of it is behind. *)
LEMMA StartCheckInv == ASSUME Inv, StartCheck PROVE Inv'
<1>1. CallOf(stage) \in Kinds
  BY DEF CallOf, Kinds
<1>2. CallInv'
  BY <1>1, BeginInv DEF StartCheck, Inv
<1>3. \A l \in Layers : l \notin LayerOf(stage) => reported'[l] = reported[l]
  BY DEF StartCheck
<1>4. reported' \in [Layers -> [Endpoints -> Chains \cup {NaN}]]
  BY DEF StartCheck, Inv, TypeOK
<1>5. stage' = stage /\ env' = env /\ kind' = CallOf(stage) /\ stage \in Checks
  BY DEF StartCheck, Begin
<1>6. /\ stage \in {"clChain", "elSync", "clSync", "running"} => reported'["EL"] = reported["EL"]
      /\ stage \in {"elSync", "clSync", "running"} => reported'["CL"] = reported["CL"]
  BY <1>3 DEF LayerOf, Layers
<1>7. StageInv'
  BY <1>5, <1>6 DEF Inv, StageInv, OneIdOfAll, SameLayers, Differ, Checks
<1> QED BY <1>2, <1>4, <1>5, <1>7 DEF Inv, TypeOK, CallInv

LEMMA InvStep == Inv /\ [Next]_vars => Inv'
<1> SUFFICES ASSUME Inv, [Next]_vars PROVE Inv'
  OBVIOUS
<1> USE DEF Inv
<1>1. CASE StartCheck
  BY <1>1, StartCheckInv
<1>2. CASE PassCheck
  BY <1>2, PassCheckInv
<1>3. CASE FailCheck
  BY <1>3, FailCheckInv
<1>4. CASE JobCall
  <2>0. JobKinds \subseteq Kinds
    BY DEF JobKinds, Kinds
  <2>1. CallInv'
    BY <1>4, <2>0, BeginInv DEF JobCall
  <2>2. StageInv'
    BY <1>4 DEF JobCall, StageInv, OneIdOfAll, SameLayers, Checks
  <2> QED BY <1>4, <2>1, <2>2 DEF JobCall, TypeOK, CallInv
<1>5. CASE Restart
  <2>1. CallInv'
    BY <1>5, CallRests DEF Restart
  <2>2. TypeOK'
    BY <1>5, <2>1 DEF Restart, TypeOK, CallInv, Stages
  <2>3. StageInv'
    BY <1>5 DEF Restart, StageInv, Checks, requestVars
  <2> QED BY <2>1, <2>2, <2>3
<1>6. CASE CallNext
  <2>1. CallInv'
    BY <1>6, CallStepInv DEF CallNext
  <2>2. kind' = kind /\ result = "pending"
    BY <1>6, UnderWay DEF CallNext
  <2>3. StageInv'
    BY <1>6, <2>2 DEF CallNext, StageInv, OneIdOfAll, SameLayers
  <2> QED BY <1>6, <2>1, <2>3 DEF CallNext, TypeOK, CallInv
<1>7. CASE LoadConfig
  <2>1. CallInv'
    BY <1>7, CallRests DEF LoadConfig
  <2>2. TypeOK'
    BY <1>7, <2>1 DEF LoadConfig, TypeOK, CallInv, Stages
  <2>3. stage' \in {"elChain", "exited"} /\ (stage' = "elChain" => MakesConfig(env'))
    BY <1>7 DEF LoadConfig, makeAppModule
  <2>4. result' = result /\ kind' = kind
    BY <1>7 DEF LoadConfig, requestVars
  <2>5. StageInv'
    BY <2>3, <2>4, <1>7 DEF LoadConfig, StageInv, Checks
  <2> QED BY <2>1, <2>2, <2>5
<1>8. CASE UNCHANGED vars
  <2>1. UNCHANGED <<requestVars, env, stage, reported>>
    BY <1>8 DEF vars
  <2>2. CallInv'
    BY <2>1, CallRests
  <2> QED BY <2>1, <2>2 DEF requestVars, TypeOK, CallInv, StageInv, OneIdOfAll, SameLayers
<1> QED BY <1>1, <1>2, <1>3, <1>4, <1>5, <1>6, <1>7, <1>8 DEF Next

-----------------------------------------------------------------------------
THEOREM Invariance == Spec => []Inv
<1>1. Init => Inv
  BY InitInv
<1>2. Inv /\ [Next]_vars => Inv'
  BY InvStep
<1> QED BY <1>1, <1>2, PTL DEF Spec

(* The variables of a call and of the start stay in their sets; an         *)
(* endpoint is never asked more often than its retry allows.               *)
THEOREM TypeCorrect == Spec => []TypeOK
<1>1. Inv => TypeOK
  BY DEF Inv
<1> QED BY <1>1, Invariance, PTL

(* A backup URL is asked only after those before it are spent.             *)
THEOREM BackupWhenSpentAlways == Spec => []BackupWhenSpent
<1>1. Inv => BackupWhenSpent
  <2> SUFFICES ASSUME Inv, kind \in Fallback, NEW e \in Endpoints, NEW f \in Endpoints,
                      e < f, attempt[f] > 0
               PROVE  LeftBehind(e)
    BY DEF BackupWhenSpent, LeftBehind
  <2>1. phase[f] # "idle"
    BY DEF Inv, CallInv, EndpointInv
  <2>2. f <= cursor
    BY <2>1 DEF Inv, CallInv, OrderInv, RequestTypeOK, Endpoints
  <2>3. e < cursor
    BY <2>2 DEF Inv, CallInv, RequestTypeOK, Endpoints
  <2> QED BY <2>3 DEF Inv, CallInv, OrderInv
<1> QED BY <1>1, Invariance, PTL

(* A call fails only when it is spent at the URLs it may still ask; one to *)
(* the consensus client also when the body of a response breaks that the   *)
(* fallback had let through.                                               *)
THEOREM FailureIsTotalAlways == Spec => []FailureIsTotal
<1>1. Inv => FailureIsTotal
  BY DEF Inv, CallInv, ResultInv
<1> QED BY <1>1, Invariance, PTL

(* A reported success is one that a server has acted on and confirmed.     *)
THEOREM SuccessIsRealAlways == Spec => []SuccessIsReal
<1>1. Inv => SuccessIsReal
  BY DEF Inv, CallInv, EndpointInv, ResultInv, SuccessIsReal
<1> QED BY <1>1, Invariance, PTL

(* No job runs unless all URLs of both layers report one chain id.         *)
THEOREM RunsOnOneChainAlways == Spec => []RunsOnOneChain
<1>1. Inv => RunsOnOneChain
  <2> SUFFICES ASSUME Inv, stage = "running"
               PROVE  \E c \in Chains : \A l \in Layers : \A e \in Endpoints : reported[l][e] = c
    BY DEF RunsOnOneChain
  <2>1. OneIdOfAll("EL") /\ OneIdOfAll("CL") /\ SameLayers
    BY DEF Inv, StageInv
  <2>2. /\ reported["EL"][1] = reported["CL"][1]
        /\ reported["EL"][1] \in Chains
    BY <2>1, FirstEndpoint DEF SameLayers, Differ, Inv, TypeOK, Layers
  <2>3. \A l \in Layers : \A e \in Endpoints : reported[l][e] = reported["EL"][1]
    BY <2>1, <2>2, FirstEndpoint DEF OneIdOfAll, Layers
  <2> QED BY <2>2, <2>3
<1> QED BY <1>1, Invariance, PTL

-----------------------------------------------------------------------------
(* The configuration *)

LEMMA EntryPairs ==
  ASSUME NEW m \in Nat, NEW B \in SUBSET Nat, B # {}
  PROVE  {m} \X B # {} /\ {m} \X B \subseteq Nat \X Nat
<1>1. PICK b \in B : TRUE
  OBVIOUS
<1>2. <<m, b>> \in {m} \X B
  OBVIOUS
<1> QED BY <1>2

LEMMA ScopeServes ==
  ASSUME NEW e \in Environments, MakesConfig(e)
  PROVE  /\ DOMAIN EjectorScope(e) # {}
         /\ \A k \in DOMAIN EjectorScope(e) :
              EjectorScope(e)[k] # {} /\ EjectorScope(e)[k] \subseteq Nat \X Nat
         /\ Canonical(e) =>
              \A k, l \in DOMAIN EjectorScope(e) :
                k # l => EjectorScope(e)[k] \cap EjectorScope(e)[l] = {}
<1>1. IsEnvironment(e)
  BY EnvironmentsAssumption
<1>2. \A s \in Ids : IsId(s) => parsedId[s] \in Nat
  BY IdsAssumption DEF IsId
<1>3. CASE e.scope = Unset
  <2>1. /\ e.module \in Ids /\ parsedId[e.module] \in Nat
        /\ legacyOperators(e) # {} /\ legacyOperators(e) \subseteq Ids
        /\ \A o \in legacyOperators(e) : parsedId[o] \in Nat
    <3>1. legacyParses(e) /\ e.module # Unset /\ legacyOperators(e) # {}
      BY <1>3 DEF MakesConfig, useLegacyScope, makeLegacyEjectorScope
    <3>2. e.module \in Ids /\ IsId(e.module)
      BY <1>1, <3>1 DEF IsEnvironment, legacyParses
    <3>3. legacyOperators(e) \subseteq Ids
      BY <1>1, <3>1 DEF IsEnvironment, legacyParses, legacyOperators
    <3>4. \A o \in legacyOperators(e) : IsId(o)
      BY <3>1 DEF legacyParses, legacyOperators
    <3> QED BY <1>2, <3>1, <3>2, <3>3, <3>4
  <2>2. EjectorScope(e) = [k \in {e.module} |-> {parsedId[k]} \X parsedIds(legacyOperators(e))]
    BY <1>3 DEF EjectorScope, useLegacyScope
  <2>3. parsedIds(legacyOperators(e)) # {} /\ parsedIds(legacyOperators(e)) \subseteq Nat
    BY <2>1 DEF parsedIds
  <2>4. /\ DOMAIN EjectorScope(e) = {e.module}
        /\ EjectorScope(e)[e.module] = {parsedId[e.module]} \X parsedIds(legacyOperators(e))
    BY <2>2
  <2> QED BY <2>1, <2>3, <2>4, EntryPairs
<1>4. CASE e.scope # Unset
  <2>1. e.scope # Malformed /\ DOMAIN e.scope # {} /\ EntriesParse(e.scope)
    BY <1>4 DEF MakesConfig, useLegacyScope, ejector_scope
  <2>2. PICK K \in SUBSET Ids : e.scope \in [K -> SUBSET Ids]
    BY <1>1, <1>4, <2>1 DEF IsEnvironment
  <2>3. DOMAIN e.scope = K
    BY <2>2
  <2>4. ASSUME NEW k \in K
        PROVE  /\ parsedId[k] \in Nat
               /\ parsedIds(e.scope[k]) # {} /\ parsedIds(e.scope[k]) \subseteq Nat
    BY <1>2, <2>1, <2>2, <2>3 DEF EntriesParse, parsedIds
  <2>5. EjectorScope(e) = [k \in K |-> {parsedId[k]} \X parsedIds(e.scope[k])]
    BY <1>4, <2>3 DEF EjectorScope, useLegacyScope
  <2>6. /\ DOMAIN EjectorScope(e) = K
        /\ \A k \in K : EjectorScope(e)[k] = {parsedId[k]} \X parsedIds(e.scope[k])
    BY <2>5
  <2>7. \A k \in K : EjectorScope(e)[k] # {} /\ EjectorScope(e)[k] \subseteq Nat \X Nat
    BY <2>4, <2>6, EntryPairs
  <2>8. ASSUME Canonical(e), NEW k \in K, NEW l \in K, k # l
        PROVE  EjectorScope(e)[k] \cap EjectorScope(e)[l] = {}
    <3>1. parsedId[k] # parsedId[l]
      BY <2>6, <2>8 DEF Canonical
    <3> QED BY <2>6, <3>1
  <2> QED BY <2>1, <2>3, <2>6, <2>7, <2>8
<1> QED BY <1>3, <1>4

(* What the environment makes serves the scans of the exit log cache, for  *)
(* any settings that do not stop the process.                              *)
THEOREM ConfigServesAlways == Spec => []ConfigServes
<1>1. Inv => ConfigServes
  <2> SUFFICES ASSUME Inv, stage \notin {"config", "exited"} PROVE ConfigServes
    BY DEF ConfigServes
  <2>1. MakesConfig(env) /\ env \in Environments
    BY DEF Inv, StageInv, TypeOK
  <2>2. env.location # env.webhook
    BY <2>1 DEF MakesConfig
  <2>3. LOAD_LOGS_STEP(env) \in Nat \ {0}
    BY <2>1, EnvironmentsAssumption, StepAssumption DEF MakesConfig, IsEnvironment, LOAD_LOGS_STEP
  <2> QED BY <2>1, <2>2, <2>3, ScopeServes DEF ConfigServes
<1> QED BY <1>1, Invariance, PTL
=============================================================================
