------------------------------ MODULE MCStartup ------------------------------
(* An instance of Startup for TLC.                                         *)
EXTENDS Startup

MCIds == {"1", "01", "2", "abc"}
MCParsedId == [s \in MCIds |->
  CASE s \in {"1", "01"} -> 1 [] s = "2" -> 2 [] OTHER -> NotAnId]

(* Settings that are accepted: a scope of two modules, beside deprecated   *)
(* settings that do not parse; one module spelled twice; the deprecated    *)
(* settings alone.                                                         *)
TwoModules ==
  [location |-> TRUE, webhook |-> FALSE, rest |-> TRUE, step |-> -1,
   scope |-> [k \in {"1", "2"} |-> {"1", "01"}],
   module |-> "abc", operator |-> "abc", identifiers |-> Malformed,
   password |-> [value |-> TRUE, file |-> "unreadable"],
   token |-> [value |-> FALSE, file |-> "none"], secrets |-> {"password"}, jwt |-> "none"]
SpelledTwice == [TwoModules EXCEPT !.scope = [k \in {"1", "01"} |-> {"2"}], !.webhook = TRUE, !.location = FALSE]
Deprecated ==
  [location |-> FALSE, webhook |-> TRUE, rest |-> TRUE, step |-> 0,
   scope |-> Unset, module |-> "1", operator |-> "2", identifiers |-> {},
   password |-> [value |-> FALSE, file |-> "none"],
   token |-> [value |-> FALSE, file |-> "readable"], secrets |-> {"token"}, jwt |-> "readable"]

(* One of each error.                                                      *)
MCEnvironments ==
  {TwoModules, SpelledTwice, Deprecated,
   [TwoModules EXCEPT !.webhook = TRUE],
   [TwoModules EXCEPT !.location = FALSE],
   [TwoModules EXCEPT !.step = Malformed],
   [TwoModules EXCEPT !.scope = [k \in {"abc"} |-> {"1"}]],
   [TwoModules EXCEPT !.scope = [k \in {"1"} |-> {}]],
   [TwoModules EXCEPT !.scope = [k \in {} |-> {}]],
   [Deprecated EXCEPT !.scope = Malformed],
   [Deprecated EXCEPT !.module = Unset],
   [Deprecated EXCEPT !.operator = Unset],
   [Deprecated EXCEPT !.identifiers = {"abc"}],
   [Deprecated EXCEPT !.identifiers = Malformed],
   [Deprecated EXCEPT !.jwt = "unreadable"],
   [Deprecated EXCEPT !.token.file = "unreadable", !.secrets = {}],
   [Deprecated EXCEPT !.password.file = "unreadable"],
   [Deprecated EXCEPT !.secrets = Malformed],
   [Deprecated EXCEPT !.rest = FALSE]}
=============================================================================
