------------------------------- MODULE Config -------------------------------
(***************************************************************************)
(* services/config/service.ts: from the settings of the environment to     *)
(* what the daemon works with, or an error.  optional() turns only a       *)
(* setting that is absent into undefined; one that does not parse throws.  *)
(***************************************************************************)
EXTENDS Integers

CONSTANTS
  Ids,          \* spellings of an id: "1", "01", "abc"
  parsedId,     \* [Ids -> Nat \cup {NotAnId}], nonNegativeInteger
  NotAnId,      \* it throws
  Unset,        \* a setting that is absent
  Malformed,    \* one that does not parse
  DefaultStep   \* LOAD_LOGS_STEP when it is absent

ASSUME IdsAssumption ==
  /\ parsedId \in [Ids -> Nat \cup {NotAnId}]
  /\ NotAnId \notin Nat
  /\ Malformed # Unset

ASSUME StepAssumption == DefaultStep \in Nat \ {0}

(* A setting that may be given in a file, which is read if the setting is  *)
(* absent or empty.                                                        *)
Files == {"none", "readable", "unreadable"}
FileSettings == [value : BOOLEAN, file : Files]

(* The settings: EJECTOR_SCOPE maps spelled module ids to spelled operator *)
(* ids; secrets are those that LOGGER_SECRETS lists; rest says whether all *)
(* others parse.                                                           *)
Settings ==
  {"location", "webhook", "scope", "module", "operator", "identifiers", "step",
   "password", "token", "secrets", "jwt", "rest"}

IsEnvironment(env) ==
  /\ DOMAIN env = Settings
  /\ env.location \in BOOLEAN /\ env.webhook \in BOOLEAN /\ env.rest \in BOOLEAN
  /\ env.scope \in {Unset, Malformed} \cup UNION {[K -> SUBSET Ids] : K \in SUBSET Ids}
  /\ env.module \in {Unset} \cup Ids
  /\ env.operator \in {Unset} \cup Ids
  /\ env.identifiers \in {Unset, Malformed} \cup SUBSET Ids
  /\ env.step \in {Unset, Malformed} \cup Int
  /\ env.password \in FileSettings /\ env.token \in FileSettings
  /\ env.secrets \in {Malformed} \cup SUBSET {"password", "token"}
  /\ env.jwt \in Files

IsId(s) == parsedId[s] # NotAnId
parsedIds(S) == {parsedId[s] : s \in S}

useLegacyScope(env) == env.scope = Unset

-----------------------------------------------------------------------------
(* EJECTOR_SCOPE: an object with a module at least, each with an operator. *)

EntriesParse(scope) ==
  \A k \in DOMAIN scope :
    IsId(k) /\ scope[k] # {} /\ \A o \in scope[k] : IsId(o)

ejector_scope(scope) == scope # Malformed /\ DOMAIN scope # {} /\ EntriesParse(scope)

(* The deprecated settings: one module, OPERATOR_IDENTIFIERS before        *)
(* OPERATOR_ID.                                                            *)
legacyParses(env) ==
  /\ env.module # Unset => IsId(env.module)
  /\ env.operator # Unset => IsId(env.operator)
  /\ env.identifiers # Malformed
  /\ env.identifiers # Unset => \A o \in env.identifiers : IsId(o)

legacyOperators(env) ==
  IF env.identifiers \notin {Unset, {}} THEN env.identifiers
  ELSE IF env.operator # Unset THEN {env.operator}
  ELSE {}

makeLegacyEjectorScope(env) ==
  legacyParses(env) /\ env.module # Unset /\ legacyOperators(env) # {}

envOrFile(setting) == setting.value \/ setting.file # "unreadable"

(* makeConfig does not throw. *)
MakesConfig(env) ==
  /\ env.rest
  /\ env.step # Malformed
  /\ envOrFile(env.password)
  /\ IF useLegacyScope(env) THEN makeLegacyEjectorScope(env) ELSE ejector_scope(env.scope)
  /\ env.location # env.webhook

(* The secrets are resolved before anything is logged, files included.     *)
makeLoggerConfig(env) ==
  env.secrets # Malformed /\ \A s \in env.secrets : envOrFile(env[s])

(* The token is asked for without a webhook, too.                          *)
webhookToken(env) == env.token.value \/ env.token.file # "unreadable"

(* The secret of the execution client's JWT can be read.                   *)
initialize(env) == env.jwt # "unreadable"

-----------------------------------------------------------------------------
(* The configuration *)

(* The entries of EJECTOR_SCOPE, by the spelling of their module: the      *)
(* (staking module, node operator) pairs each one queries.                 *)
EjectorScope(env) ==
  IF useLegacyScope(env)
  THEN [k \in {env.module} |-> {parsedId[k]} \X parsedIds(legacyOperators(env))]
  ELSE [k \in DOMAIN env.scope |-> {parsedId[k]} \X parsedIds(env.scope[k])]

(* Mutation: the step is taken as it is written. *)
RawStep(env) == IF env.step = Unset THEN DefaultStep ELSE env.step

(* Zero is falsy, and what is below one becomes one. *)
LOAD_LOGS_STEP(env) ==
  IF env.step \in {Unset, 0} THEN DefaultStep ELSE IF env.step < 1 THEN 1 ELSE env.step

(* No two spellings of one module: JSON keeps the key "01" beside "1".     *)
Canonical(env) ==
  \A k, l \in DOMAIN EjectorScope(env) : parsedId[k] = parsedId[l] => k = l
=============================================================================
