----------------------------- MODULE MCExitLogs -----------------------------
(* Instances of ExitLogs for TLC.                                          *)
EXTENDS ExitLogs

CONSTANTS a, b, c,   \* events
          v, w,      \* validator indices
          o1, o2, o3 \* (staking module, node operator) pairs

MCEvents == {a, b, c}
MCValidators == {v, w}
MCOperators == {o1, o2, o3}
(* Two entries, as in EJECTOR_SCOPE = {"1":[o1],"2":[o2]}; o3 is not ours. *)
MCEjectorScope == [i \in 1 .. 2 |-> IF i = 1 THEN {o1} ELSE {o2}]

(* Two requests to fulfil, one per entry, and one that is forged for the   *)
(* validator of the first.                                                 *)
WorkGenuine == {a, b}
WorkKeyOk == {a, b, c}
WorkValidatorOf == [e \in MCEvents |-> IF e = b THEN w ELSE v]
WorkOperatorOf == [e \in MCEvents |-> IF e = b THEN o2 ELSE o1]

(* A request to fulfil, a genuine one with the wrong key for the same      *)
(* index, and a genuine one of an operator that is not ours.               *)
HostileGenuine == {a, b, c}
HostileKeyOk == {a, c}
HostileValidatorOf == [e \in MCEvents |-> IF e = c THEN w ELSE v]
HostileOperatorOf == [e \in MCEvents |-> IF e = a THEN o1 ELSE IF e = b THEN o2 ELSE o3]
=============================================================================
