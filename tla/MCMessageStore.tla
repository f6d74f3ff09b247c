--------------------------- MODULE MCMessageStore ---------------------------
(* Instances of MessageStore for TLC. *)
EXTENDS MessageStore

CONSTANTS f1, f2,        \* files
          m1, m2, m3,    \* messages
          junk, number,  \* contents that do not parse; number is JSON but no object
          none,          \* no file
          v1, v2         \* validators

MCFiles == {f1, f2}
MCMessages == {m1, m2, m3}
MCGarbage == {junk, number}
MCPoison == {number}
MCValidators == {v1, v2}
(* The other one has no validator on the beacon chain yet. *)
MCKnown == {v1}
(* Two messages of one validator, signed for Capella and for the fork before. *)
MCValidatorOf == [m \in MCMessages |-> IF m = m3 THEN v2 ELSE v1]
MCSignedFor == [m \in MCMessages |-> IF m = m2 THEN 0 ELSE 1]
=============================================================================
