-------------------------- MODULE JobRunner_proofs --------------------------
(***************************************************************************)
(* Theorems about JobRunner, for any number of runners and job names.      *)
(***************************************************************************)
EXTENDS JobRunner, TLAPS

(* Mutual exclusion and the meaning of the lock need each other: the lock  *)
(* keeps a second handler out only if it is held while the first one runs, *)
(* and the end of a handler frees the lock rightly only if it was the last.*)
LockInv == TypeOK /\ MutualExclusion /\ LockIsHeld

(* A call that takes the lock keeps the invariant. *)
LEMMA EnterKeepsLockInv ==
  ASSUME LockInv, NEW r \in Runners, Enter(r),
         phase' \in [Runners -> {"booting", "initial", "polling", "stopped"}]
  PROVE  LockInv'
<1> USE NamesAssumption DEF LockInv
<1>1. /\ ~jobLockMap[NameOf[r]]
      /\ jobLockMap' = [jobLockMap EXCEPT ![NameOf[r]] = TRUE]
      /\ handling' = [handling EXCEPT ![r] = @ + 1]
  BY DEF Enter
<1>2. TypeOK'
  BY <1>1 DEF TypeOK
<1>3. \A s \in Runners : NameOf[s] = NameOf[r] => handling[s] = 0
  BY <1>1 DEF LockIsHeld, TypeOK
<1>4. \A s \in Runners : handling'[s] = IF s = r THEN 1 ELSE handling[s]
  BY <1>1, <1>3 DEF TypeOK
<1>5. \A n \in Names : jobLockMap'[n] = IF n = NameOf[r] THEN TRUE ELSE jobLockMap[n]
  BY <1>1 DEF TypeOK
<1>6. MutualExclusion'
  BY <1>3, <1>4 DEF MutualExclusion
<1>7. LockIsHeld'
  <2> SUFFICES ASSUME NEW n \in Names
               PROVE  jobLockMap'[n] <=> \E s \in Runners : NameOf[s] = n /\ handling'[s] > 0
    BY DEF LockIsHeld
  <2>1. CASE n = NameOf[r]
    <3>1. jobLockMap'[n] = TRUE
      BY <1>5, <2>1
    <3>2. handling'[r] = 1
      BY <1>4
    <3> QED BY <2>1, <3>1, <3>2
  <2>2. CASE n # NameOf[r]
    <3>1. jobLockMap'[n] <=> jobLockMap[n]
      BY <1>5, <2>2
    <3>2. \A s \in Runners : NameOf[s] = n => handling'[s] = handling[s]
      BY <1>4, <2>2
    <3> QED BY <3>1, <3>2 DEF LockIsHeld
  <2> QED BY <2>1, <2>2
<1> QED BY <1>2, <1>6, <1>7

(* The end of a handler keeps the invariant. *)
LEMMA SettleKeepsLockInv ==
  ASSUME LockInv, NEW r \in Runners, Settle(r)
  PROVE  LockInv'
<1> USE NamesAssumption DEF LockInv
<1>1. /\ handling[r] > 0
      /\ handling' = [handling EXCEPT ![r] = @ - 1]
      /\ jobLockMap' = [jobLockMap EXCEPT ![NameOf[r]] = FALSE]
      /\ phase' = phase
  BY DEF Settle, Release
<1>2. handling[r] = 1 /\ \A s \in Runners : NameOf[s] = NameOf[r] /\ s # r => handling[s] = 0
  BY <1>1 DEF MutualExclusion, TypeOK
<1>3. TypeOK'
  BY <1>1, <1>2 DEF TypeOK
<1>4. \A s \in Runners : handling'[s] = IF s = r THEN 0 ELSE handling[s]
  BY <1>1, <1>2 DEF TypeOK
<1>5. \A n \in Names : jobLockMap'[n] = IF n = NameOf[r] THEN FALSE ELSE jobLockMap[n]
  BY <1>1 DEF TypeOK
<1>6. MutualExclusion'
  BY <1>4 DEF MutualExclusion
<1>7. LockIsHeld'
  <2> SUFFICES ASSUME NEW n \in Names
               PROVE  jobLockMap'[n] <=> \E s \in Runners : NameOf[s] = n /\ handling'[s] > 0
    BY DEF LockIsHeld
  <2>1. CASE n = NameOf[r]
    <3>1. jobLockMap'[n] = FALSE
      BY <1>5, <2>1
    <3>2. \A s \in Runners : NameOf[s] = n => handling'[s] = 0
      BY <1>2, <1>4, <2>1
    <3> QED BY <3>1, <3>2
  <2>2. CASE n # NameOf[r]
    <3>1. jobLockMap'[n] <=> jobLockMap[n]
      BY <1>5, <2>2
    <3>2. \A s \in Runners : NameOf[s] = n => handling'[s] = handling[s]
      BY <1>4, <2>2
    <3> QED BY <3>1, <3>2 DEF LockIsHeld
  <2> QED BY <2>1, <2>2
<1> QED BY <1>3, <1>6, <1>7

(* The lock invariant holds in every reachable state. *)
LEMMA LockInvariant == Spec => []LockInv
<1> USE NamesAssumption
<1>1. Init => LockInv
  BY DEF Init, LockInv, TypeOK, MutualExclusion, LockIsHeld
<1>2. LockInv /\ [Next]_vars => LockInv'
  <2> SUFFICES ASSUME LockInv, [Next]_vars PROVE LockInv'
    OBVIOUS
  <2>1. ASSUME NEW r \in Runners, FirstOnce(r) PROVE LockInv'
    <3>1. phase' \in [Runners -> {"booting", "initial", "polling", "stopped"}]
      BY <2>1 DEF FirstOnce, LockInv, TypeOK
    <3>2. CASE Enter(r)
      BY <3>1, <3>2, EnterKeepsLockInv
    <3>3. CASE Skip(r)
      BY <3>1, <3>3 DEF Skip, LockInv, TypeOK, MutualExclusion, LockIsHeld
    <3> QED BY <2>1, <3>2, <3>3 DEF FirstOnce
  <2>2. ASSUME NEW r \in Runners, StartLoop(r) PROVE LockInv'
    BY <2>2 DEF StartLoop, LockInv, TypeOK, MutualExclusion, LockIsHeld
  <2>3. ASSUME NEW r \in Runners, Tick(r) PROVE LockInv'
    <3>1. phase' \in [Runners -> {"booting", "initial", "polling", "stopped"}]
      BY <2>3 DEF Tick, LockInv, TypeOK
    <3>2. CASE Enter(r)
      BY <3>1, <3>2, EnterKeepsLockInv
    <3>3. CASE Skip(r)
      BY <3>1, <3>3 DEF Skip, LockInv, TypeOK, MutualExclusion, LockIsHeld
    <3> QED BY <2>3, <3>2, <3>3 DEF Tick
  <2>4. ASSUME NEW r \in Runners, Settle(r) PROVE LockInv'
    BY <2>4, SettleKeepsLockInv
  <2>5. ASSUME NEW r \in Runners, Stop(r) PROVE LockInv'
    BY <2>5 DEF Stop, LockInv, TypeOK, MutualExclusion, LockIsHeld
  <2>6. CASE Restart
    BY <2>6 DEF Restart, LockInv, TypeOK, MutualExclusion, LockIsHeld
  <2>7. CASE UNCHANGED vars
    BY <2>7 DEF vars, LockInv, TypeOK, MutualExclusion, LockIsHeld
  <2> QED BY <2>1, <2>2, <2>3, <2>4, <2>5, <2>6, <2>7 DEF Next, Run
<1> QED BY <1>1, <1>2, PTL DEF Spec

(* Each runner is in a phase that run() can leave it in, with as many      *)
(* handlers in progress as its calls have begun and not ended.             *)
THEOREM TypeCorrect == Spec => []TypeOK
<1>1. LockInv => TypeOK
  BY DEF LockInv
<1> QED BY <1>1, LockInvariant, PTL

(* No two handlers of one job name are ever in progress together, however  *)
(* many runners share the name and however often their timers fire.        *)
THEOREM MutualExclusionAlways == Spec => []MutualExclusion
<1>1. LockInv => MutualExclusion
  BY DEF LockInv
<1> QED BY <1>1, LockInvariant, PTL

(* The lock of a name is held exactly while one of its handlers runs.      *)
THEOREM LockIsHeldAlways == Spec => []LockIsHeld
<1>1. LockInv => LockIsHeld
  BY DEF LockInv
<1> QED BY <1>1, LockInvariant, PTL
=============================================================================
