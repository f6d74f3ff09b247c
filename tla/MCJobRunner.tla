---------------------------- MODULE MCJobRunner ----------------------------
(* Three runners for TLC; two of them are made with the same job name.     *)
EXTENDS JobRunner

CONSTANTS r1, r2, r3,      \* runners
          ejector, reload  \* job names

MCRunners == {r1, r2, r3}
MCNames == {ejector, reload}
MCNameOf == [r \in MCRunners |-> IF r = r3 THEN reload ELSE ejector]
=============================================================================
