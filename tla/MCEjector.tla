----------------------------- MODULE MCEjector -----------------------------
(* Instances of Ejector for TLC. *)
EXTENDS Ejector, TLC

CONSTANTS v1, v2 \* validator indices

(* There is one request per validator, and it is named after it, so that   *)
(* swapping the validators swaps their requests with them.                 *)
MCValidators == {v1, v2}
MCEvents == {<<v>> : v \in MCValidators}
MCValidatorOf == [e \in MCEvents |-> e[1]]
MCSymmetry == Permutations(MCValidators)

MCConfigs ==
  {[mode |-> "messages", dryRun |-> FALSE],
   [mode |-> "webhook", dryRun |-> FALSE],
   [mode |-> "messages", dryRun |-> TRUE]}

(* One deployment, for the search of the reorganization. *)
MessagesConfigs == {[mode |-> "messages", dryRun |-> FALSE]}

(* Liveness is checked for one request, in every deployment that sends. *)
LiveEvents == {<<v1>>}
LiveValidators == {v1}
LiveConfigs == {[mode |-> "messages", dryRun |-> FALSE], [mode |-> "webhook", dryRun |-> FALSE]}
LiveValidatorOf == [e \in LiveEvents |-> v1]
=============================================================================
