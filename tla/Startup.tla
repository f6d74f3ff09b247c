------------------------------- MODULE Startup -------------------------------
(***************************************************************************)
(* index.ts and app/service.ts run() up to the first job: the settings     *)
(* become a configuration (Config), then, over the calls of Requests, the  *)
(* chain id check of services/consistency and both sync checks.  index.ts  *)
(* exits the process when one of them throws; whoever supervises it starts *)
(* it again.                                                               *)
(***************************************************************************)
EXTENDS Requests, Config

CONSTANTS
  Chains,  \* chain ids
  NaN,     \* what parseInt makes of a string that is no number
  Environments  \* the settings that the process may be started with

ASSUME NaNAssumption == NaN \notin Chains
ASSUME EnvironmentsAssumption == \A env \in Environments : IsEnvironment(env)

Layers == {"EL", "CL"}

VARIABLES
  env,       \* the settings of the process
  stage,     \* the call of run() that is next or under way
  reported   \* [Layers -> [Endpoints -> chain id that its URL has reported]]

vars == <<requestVars, env, stage, reported>>

Stages == {"config", "elChain", "clChain", "elSync", "clSync", "running", "exited"}

TypeOK ==
  /\ RequestTypeOK
  /\ env \in Environments
  /\ stage \in Stages
  /\ reported \in [Layers -> [Endpoints -> Chains \cup {NaN}]]

Init ==
  /\ RequestInit
  /\ env \in Environments
  /\ stage = "config"
  /\ reported = [l \in Layers |-> [e \in Endpoints |-> NaN]]

(* makeAppModule does not throw. *)
makeAppModule ==
  makeLoggerConfig(env) /\ MakesConfig(env) /\ initialize(env) /\ webhookToken(env)

LoadConfig ==
  /\ stage = "config"
  /\ stage' = IF makeAppModule THEN "elChain" ELSE "exited"
  /\ UNCHANGED <<requestVars, env, reported>>

Checks == {"elChain", "clChain", "elSync", "clSync"}

(* The layer whose chain ids a stage collects. *)
LayerOf(s) == IF s = "elChain" THEN {"EL"} ELSE IF s = "clChain" THEN {"CL"} ELSE {}

CallOf(s) == IF s = "elSync" THEN "el" ELSE IF s = "clSync" THEN "cl" ELSE "chain"

StartCheck ==
  /\ stage \in Checks
  /\ result = "none"
  /\ Begin(CallOf(stage))
  /\ \E ids \in [Endpoints -> Chains \cup {NaN}] :
       reported' = [l \in Layers |-> IF l \in LayerOf(stage) THEN ids ELSE reported[l]]
  /\ UNCHANGED <<env, stage>>

(* collect: the ids of the URLs that answered, in a Set, which takes NaN   *)
(* for equal to itself; !== between the two layers does not.               *)
Answered == {e \in Endpoints : outcome[e] = "value"}

Differ(a, b) == a # b \/ a = NaN

OneId(l) == \A e, f \in Answered : reported[l][e] = reported[l][f]
SameLayers == ~Differ(reported["EL"][1], reported["CL"][1])

(* What a stage asks of the answer of its call.  An execution node that    *)
(* syncs makes checkSync throw, a consensus node that does only a warning. *)
MayPass(s) ==
  /\ s = "elChain" => OneId("EL")
  /\ s = "clChain" => OneId("CL") /\ SameLayers

MayFail(s) == s = "elSync" \/ ~MayPass(s)

StageAfter(s) ==
  CASE s = "elChain" -> "clChain"
    [] s = "clChain" -> "elSync"
    [] s = "elSync" -> "clSync"
    [] s = "clSync" -> "running"

PassCheck ==
  /\ stage \in Checks
  /\ result = "value"
  /\ MayPass(stage)
  /\ stage' = StageAfter(stage)
  /\ result' = "none"
  /\ UNCHANGED <<kind, cursor, phase, attempt, status, outcome, acted, env, reported>>

FailCheck ==
  /\ stage \in Checks
  /\ result \in {"exhausted", "rejected"} \/ (result = "value" /\ MayFail(stage))
  /\ stage' = "exited"
  /\ result' = "none"
  /\ UNCHANGED <<kind, cursor, phase, attempt, status, outcome, acted, env, reported>>

(* The calls of the jobs: exits go out by one way of the two.              *)
JobKinds ==
  {"el", "cl", "validator"} \cup IF env.webhook THEN {"webhook"} ELSE {"exit"}

JobCall ==
  /\ stage = "running"
  /\ \E k \in JobKinds : Begin(k)
  /\ UNCHANGED <<env, stage, reported>>

(* A new process; the settings may have been mended.                       *)
Restart ==
  /\ stage = "exited"
  /\ stage' = "config"
  /\ env' \in Environments
  /\ reported' = [l \in Layers |-> [e \in Endpoints |-> NaN]]
  /\ UNCHANGED requestVars

CallNext ==
  /\ CallStep \/ \E e \in Endpoints : EndpointStep(e)
  /\ UNCHANGED <<env, stage, reported>>

Next == LoadConfig \/ StartCheck \/ PassCheck \/ FailCheck \/ JobCall \/ Restart \/ CallNext

Spec == Init /\ [][Next]_vars /\ RequestFairness /\ WF_vars(LoadConfig \/ StartCheck \/ PassCheck \/ FailCheck)

-----------------------------------------------------------------------------
(* Properties *)

(* Jobs run only when every URL of both lists has answered and all report  *)
(* one chain id; otherwise the process exits before it signs anything.     *)
RunsOnOneChain ==
  stage = "running" =>
    \E c \in Chains : \A l \in Layers : \A e \in Endpoints : reported[l][e] = c

(* Past the configuration, the settings serve what is built on them: exits *)
(* have one way out, and the exit log cache has what its scans assume (the *)
(* ScopeAssumption and the step of ExitLogs): entries to query, none of    *)
(* which repeats a pair of another one, and chunks that get somewhere.     *)
ConfigServes ==
  stage \notin {"config", "exited"} =>
    LET scope == EjectorScope(env) IN
      /\ env.location # env.webhook
      /\ DOMAIN scope # {}
      /\ \A k \in DOMAIN scope : scope[k] # {} /\ scope[k] \subseteq Nat \X Nat
      /\ Canonical(env) =>
           \A k, l \in DOMAIN scope : k # l => scope[k] \cap scope[l] = {}
      /\ LOAD_LOGS_STEP(env) \in Nat \ {0}

(* A process does not linger half started: it comes to run or exits, or    *)
(* waits for a body without a timer.                                       *)
StartDecides ==
  <>[](stage \in {"config"} \cup Checks) => <>[](\E e \in Endpoints : UntimedBody(e))
=============================================================================
