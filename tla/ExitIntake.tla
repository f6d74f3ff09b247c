----------------------------- MODULE ExitIntake -----------------------------
(***************************************************************************)
(* What the exit-log cache promises to the job that reads it.              *)
(*                                                                         *)
(* The finalized execution chain only ever gains ValidatorExitRequest logs *)
(* above its finalized height.  The intake owns a frontier, the last block *)
(* it has consumed, and the requests it has taken so far.  It consumes the *)
(* chain one stretch of blocks at a time: a stretch starts above the       *)
(* frontier, a request is taken only with the stretch that contains its    *)
(* block, and a taken request is kept.  Only a restart of the process      *)
(* forgets: it empties the intake and puts the frontier back to -1.        *)
(*                                                                         *)
(* ExitLogs implements this specification and Ejector builds on it.        *)
(***************************************************************************)
EXTENDS Integers

CONSTANTS Events,    \* identities of ValidatorExitRequest logs
          Eligible   \* those of them the intake is allowed to take

VARIABLES blockOf,   \* finalized block of each event, Unmined before it has one
          height,    \* height of the finalized chain
          frontier,  \* last block the intake has consumed
          taken      \* events the intake holds

vars == <<blockOf, height, frontier, taken>>

Unmined == -1
NoBlock == -1        \* the frontier of an intake that has read nothing

Init ==
  /\ blockOf = [e \in Events |-> Unmined]
  /\ height = 0
  /\ frontier = NoBlock
  /\ taken = {}

(* A block is finalized, with the exit requests S in it. *)
Mine(S) ==
  /\ height' = height + 1
  /\ \A e \in S : blockOf[e] = Unmined
  /\ blockOf' = [e \in Events |-> IF e \in S THEN height + 1 ELSE blockOf[e]]
  /\ UNCHANGED <<frontier, taken>>

(* The blocks from..to are consumed, and the requests S of theirs taken. *)
Advance(from, to, S) ==
  /\ frontier < from
  /\ from <= to
  /\ to <= height
  /\ S \subseteq {e \in Eligible : blockOf[e] \in from .. to}
  /\ frontier' = to
  /\ taken' = taken \cup S
  /\ UNCHANGED <<blockOf, height>>

(* The process exits; the intake lived in its memory only. *)
Restart ==
  /\ frontier' = NoBlock
  /\ taken' = {}
  /\ UNCHANGED <<blockOf, height>>

Next ==
  \/ \E S \in SUBSET Events : Mine(S)
  \/ \E from, to \in 0 .. height : \E S \in SUBSET Eligible : Advance(from, to, S)
  \/ Restart

Spec == Init /\ [][Next]_vars
=============================================================================
