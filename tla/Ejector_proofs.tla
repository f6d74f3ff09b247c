--------------------------- MODULE Ejector_proofs ---------------------------
(***************************************************************************)
(* Theorems about Ejector, for every set of requests and validators, every *)
(* preload and acknowledgement age, and every bound on blocks and faults.  *)
(***************************************************************************)
EXTENDS Ejector, TLAPS

(* What the job has read is never ahead of the chains: its block is        *)
(* finalized, what it saw final stays final, what it holds is mined, and   *)
(* once it has reloaded it stores only messages that it found then.        *)
ReadInv ==
  /\ last <= height
  /\ finRec \subseteq exitFinal
  /\ \A e \in taken : blockOf[e] # Intake!Unmined
  /\ config.mode = "messages" /\ pc \notin {"idle", "reload"} => stored \subseteq reloaded

AckInv == TypeOK /\ ReadInv /\ YoungAckIsFinal

(* Consuming blocks keeps the intake well formed. *)
LEMMA ConsumeEffect ==
  ASSUME TypeOK, ReadInv, NEW to \in Nat, Consume(to)
  PROVE  /\ UNCHANGED <<blockOf, height>>
         /\ frontier' \in 0 .. MaxBlock
         /\ taken \subseteq taken' /\ taken' \subseteq Events
         /\ \A e \in taken' : blockOf[e] # Intake!Unmined
<1> USE NumbersAssumption, EventsAssumption
<1>1. /\ frontier < blockFrom /\ to <= height
      /\ frontier' = to
      /\ taken' = taken \cup {e \in Events : blockOf[e] \in blockFrom .. to}
      /\ UNCHANGED <<blockOf, height>>
  BY DEF Consume, Intake!Advance
<1>2. height \in 0 .. MaxBlock /\ frontier \in {Intake!NoBlock} \cup 0 .. MaxBlock
  BY DEF TypeOK
<1>3. blockFrom \in Int /\ 0 <= blockFrom
  BY <1>1, <1>2 DEF blockFrom, Max, Intake!NoBlock, TypeOK
<1>4. frontier' \in 0 .. MaxBlock
  BY <1>1, <1>2
<1>5. \A e \in taken' : e \in taken \/ 0 <= blockOf[e]
  BY <1>1, <1>3
<1>6. \A e \in taken' : blockOf[e] # Intake!Unmined
  BY <1>5 DEF ReadInv, Intake!Unmined
<1> QED BY <1>1, <1>4, <1>6 DEF TypeOK

(* A step of the intake by which blocks are consumed keeps the invariant.  *)
LEMMA ConsumeKeepsAckInv ==
  ASSUME AckInv, NEW to \in Nat, Consume(to),
         UNCHANGED <<clVars, folder, config, phase, last, recVars, todo, acked>>,
         stored' \in {stored, {}}, reloaded' \in {reloaded, {}}, faults' \in 0 .. MaxFaults,
         pc' = "idle" \/ (pc = "logs" /\ pc' = "head" /\ UNCHANGED reloaded)
  PROVE  AckInv'
<1>1. /\ UNCHANGED <<blockOf, height>>
      /\ frontier' \in 0 .. MaxBlock
      /\ taken \subseteq taken' /\ taken' \subseteq Events
      /\ \A e \in taken' : blockOf[e] # Intake!Unmined
  BY ConsumeEffect DEF AckInv
<1>2. TypeOK'
  BY <1>1 DEF AckInv, TypeOK, clVars, recVars
<1>3. ReadInv'
  BY <1>1 DEF AckInv, ReadInv, clVars, recVars
<1>4. YoungAckIsFinal'
  BY <1>1 DEF AckInv, YoungAckIsFinal, clVars
<1> QED BY <1>2, <1>3, <1>4 DEF AckInv

(* The invariant is inductive. *)
LEMMA AckInvInductive == AckInv /\ [Next]_vars => AckInv'
<1> SUFFICES ASSUME AckInv, [Next]_vars PROVE AckInv'
  OBVIOUS
<1> USE NumbersAssumption, EventsAssumption, ConfigsAssumption
<1> USE DEF AckInv, TypeOK, ReadInv, YoungAckIsFinal,
            elVars, clVars, intakeVars, recVars, jobVars
<1>1. CASE MineBlock
  <2>1. PICK S \in SUBSET Events : Intake!Mine(S)
    BY <1>1 DEF MineBlock
  <2>2. /\ height < MaxBlock /\ height' = height + 1
        /\ \A e \in S : blockOf[e] = Intake!Unmined
        /\ blockOf' = [e \in Events |-> IF e \in S THEN height + 1 ELSE blockOf[e]]
        /\ UNCHANGED <<frontier, taken, exitHead, exitFinal, pool, reorgs, folder, config, phase,
                      pc, stored, reloaded, last, headRec, finRec, todo, acked, faults>>
    BY <1>1, <2>1 DEF MineBlock, Intake!Mine
  <2>3. height + 1 \in 1 .. MaxBlock
    BY <2>2
  <2>4. \A e \in taken : blockOf'[e] = blockOf[e]
    BY <2>2
  <2>5. TypeOK'
    BY <2>2, <2>3
  <2>6. ReadInv'
    BY <2>2, <2>4
  <2>7. YoungAckIsFinal'
    <3>1. \A e \in acked : blockOf[e] \in Int /\ blockOf'[e] = blockOf[e]
      BY <2>4 DEF Intake!Unmined
    <3> QED BY <2>2, <3>1
  <2> QED BY <2>5, <2>6, <2>7
<1>2. CASE Finalize
  BY <1>2 DEF Finalize
<1>3. CASE Reorg
  BY <1>3 DEF Reorg
<1>4. ASSUME NEW v \in Validators, Include(v) PROVE AckInv'
  BY <1>4 DEF Include
<1>5. ASSUME NEW v \in Validators, PoolLoses(v) PROVE AckInv'
  BY <1>5 DEF PoolLoses
<1>6. ASSUME NEW v \in Validators, ExitElsewhere(v) PROVE AckInv'
  BY <1>6 DEF ExitElsewhere
<1>7. ASSUME NEW v \in Validators, AddMessage(v) \/ RemoveMessage(v) PROVE AckInv'
  BY <1>7 DEF AddMessage, RemoveMessage
<1>8. CASE StartJob
  BY <1>8 DEF StartJob
<1>9. CASE StartLoop
  BY <1>9 DEF StartLoop
<1>10. CASE Reload
  BY <1>10 DEF Reload, AfterReload
<1>11. CASE LatestBlock
  BY <1>11 DEF LatestBlock, FinalizedAnswers
<1>12. CASE GetLogs
  <2>1. /\ UNCHANGED <<clVars, folder, config, phase, stored, reloaded, last, recVars, todo, acked, faults>>
        /\ pc = "logs" /\ pc' = "head"
    BY <1>12 DEF GetLogs
  <2>2. CASE Consume(last)
    <3>1. last \in Nat /\ faults' \in 0 .. MaxFaults
      BY <2>1
    <3> HIDE DEF AckInv
    <3> QED BY <2>1, <2>2, <3>1, ConsumeKeepsAckInv
  <2>3. CASE UNCHANGED <<intakeVars, elVars>>
    BY <2>1, <2>3
  <2> QED BY <1>12, <2>2, <2>3 DEF GetLogs
<1>13. CASE FetchHead
  BY <1>13 DEF FetchHead
<1>14. CASE FetchFinalized
  BY <1>14 DEF FetchFinalized
<1>15. ASSUME NEW e \in Events, Skip(e) PROVE AckInv'
  <2>1. /\ e \in todo /\ e \in taken
        /\ acked' = acked \/ (Settled(e) /\ acked' = acked \cup {e})
        /\ todo' = todo \ {e}
        /\ UNCHANGED <<blockOf, height, frontier, taken, exitHead, exitFinal, pool, reorgs, folder,
                      config, phase, pc, stored, reloaded, last, headRec, finRec, faults>>
    BY <1>15 DEF Skip
  <2>2. YoungAckIsFinal'
    <3>1. last \in Int /\ height \in Int /\ blockOf[e] \in Int
      BY DEF Intake!Unmined
    <3>2. Settled(e) => (height - blockOf[e] <= AckAge => ValidatorOf[e] \in exitFinal)
      BY <3>1 DEF Settled
    <3> QED BY <2>1, <3>2
  <2>3. TypeOK' /\ ReadInv'
    BY <2>1
  <2> QED BY <2>2, <2>3
<1>16. ASSUME NEW e \in Events, Send(e) PROVE AckInv'
  BY <1>16 DEF Send, MustSend
<1>17. ASSUME NEW e \in Events, SendFails(e) PROVE AckInv'
  BY <1>17 DEF SendFails, MustSend
<1>18. CASE FinishJob
  BY <1>18 DEF FinishJob
<1>19. CASE FailJob
  <2>1. /\ UNCHANGED <<clVars, folder, config, phase, last, recVars, todo, acked>>
        /\ stored' \in {stored, {}} /\ reloaded' = {}
        /\ pc' = "idle" /\ faults' \in 0 .. MaxFaults
    BY <1>19 DEF FailJob
  <2>2. CASE UNCHANGED <<intakeVars, elVars>>
    BY <2>1, <2>2
  <2>3. ASSUME NEW to \in blockFrom .. last - 1, Consume(to) PROVE AckInv'
    <3>1. blockFrom \in Int /\ 0 <= blockFrom
      BY DEF blockFrom, Max, Intake!NoBlock
    <3>2. to \in Nat
      BY <3>1
    <3> HIDE DEF AckInv
    <3> QED BY <2>1, <2>3, <3>2, ConsumeKeepsAckInv
  <2> QED BY <1>19, <2>2, <2>3 DEF FailJob
<1>20. CASE Crash
  <2>1. /\ frontier' = Intake!NoBlock /\ taken' = {}
        /\ UNCHANGED <<blockOf, height>>
    BY <1>20 DEF Crash, Intake!Restart
  <2> QED BY <1>20, <2>1 DEF Crash
<1>21. CASE UNCHANGED vars
  BY <1>21 DEF vars
<1> QED BY <1>1, <1>2, <1>3, <1>4, <1>5, <1>6, <1>7, <1>8, <1>9, <1>10, <1>11, <1>12, <1>13,
           <1>14, <1>15, <1>16, <1>17, <1>18, <1>19, <1>20, <1>21
        DEF Next, Job, Environment

(* Types, readings and acknowledgements are right in every state. *)
LEMMA AckInvariant == Spec => []AckInv
<1>1. Init => AckInv
  BY NumbersAssumption, EventsAssumption, ConfigsAssumption
     DEF Init, Intake!Init, AckInv, TypeOK, ReadInv, YoungAckIsFinal, Intake!Unmined, Intake!NoBlock
<1> QED BY <1>1, AckInvInductive, PTL DEF Spec

(* The job's block is one of the chain, what it has read speaks of         *)
(* validators that exist, and only cached requests are worked on or        *)
(* acknowledged.                                                           *)
THEOREM TypeCorrect == Spec => []TypeOK
<1>1. AckInv => TypeOK
  BY DEF AckInv
<1> QED BY <1>1, AckInvariant, PTL

(* A request that is acknowledged within the acknowledgement age has a     *)
(* final exit, whatever was reorganized, lost or restarted on the way.     *)
THEOREM YoungAckIsFinalAlways == Spec => []YoungAckIsFinal
<1>1. AckInv => YoungAckIsFinal
  BY DEF AckInv
<1> QED BY <1>1, AckInvariant, PTL

-----------------------------------------------------------------------------
(* What is submitted, and when. *)

(* An iteration that sends submits the exit of a request the intake holds  *)
(* and the job has not acknowledged, as the deployment permits.            *)
LEMMA SendIsAllowed ==
  ASSUME AckInv, NEW e \in Events, Send(e)
  PROVE  /\ ~config.dryRun
         /\ e \in taken \ acked
         /\ config.mode = "messages" => ValidatorOf[e] \in reloaded
         /\ Submitted \subseteq {ValidatorOf[e]}
<1>1. pc = "loop" /\ MustSend(e) /\ pool' \subseteq pool \cup {ValidatorOf[e]}
  BY DEF Send
<1>2. Submitted \subseteq {ValidatorOf[e]}
  BY <1>1 DEF Submitted
<1> QED BY <1>1, <1>2 DEF MustSend, AckInv, TypeOK, ReadInv

(* Exits are submitted only on a request that is not acknowledged, never   *)
(* in a dry run, and in messages mode only with a message that the job in   *)
(* hand found in the operator's folder.                                    *)
THEOREM SentOnRequestAlways == Spec => SentOnRequest
<1> DEFINE Allowed(v) == /\ ~config.dryRun
                         /\ \E e \in taken \ acked : ValidatorOf[e] = v
                         /\ config.mode = "messages" => v \in reloaded
<1>1. AckInv /\ [Next]_vars => [\A v \in Submitted : Allowed(v)]_vars
  <2> SUFFICES ASSUME AckInv, Next, NEW v \in Submitted PROVE Allowed(v)
    OBVIOUS
  <2>1. ASSUME NEW e \in Events, Send(e) PROVE Allowed(v)
    BY <2>1, SendIsAllowed
  <2>2. exitHead' = exitHead /\ pool' # pool /\ ~(pool' \subseteq pool)
    BY DEF Submitted
  <2>3. ~(MineBlock \/ Finalize \/ FailJob \/ Crash)
    BY <2>2 DEF MineBlock, Finalize, FailJob, Crash, clVars
  <2>4. ~Reorg
    BY <2>2 DEF Reorg
  <2>5. ASSUME NEW w \in Validators PROVE ~(\/ Include(w) \/ PoolLoses(w) \/ ExitElsewhere(w)
                                                \/ AddMessage(w) \/ RemoveMessage(w))
    BY <2>2 DEF Include, PoolLoses, ExitElsewhere, AddMessage, RemoveMessage, clVars
  <2>6. ~(StartJob \/ StartLoop \/ Reload \/ LatestBlock \/ GetLogs \/ FetchHead \/ FetchFinalized \/ FinishJob)
    BY <2>2 DEF StartJob, StartLoop, Reload, LatestBlock, GetLogs, FetchHead, FetchFinalized,
                FinishJob, clVars
  <2>7. ASSUME NEW e \in Events PROVE ~(Skip(e) \/ SendFails(e))
    BY <2>2 DEF Skip, SendFails, clVars
  <2> QED BY <2>1, <2>3, <2>4, <2>5, <2>6, <2>7 DEF Next, Job, Environment
<1> QED BY <1>1, AckInvariant, PTL DEF Spec, SentOnRequest

-----------------------------------------------------------------------------
(* The job runs as the runner schedules it. *)

(* The runner's functions have one argument: an update replaces the value. *)
LEMMA SingletonUpdate ==
  ASSUME NEW x, NEW a, NEW b
  PROVE  /\ [y \in {x} |-> a][x] = a
         /\ [[y \in {x} |-> a] EXCEPT ![x] = b] = [y \in {x} |-> b]
OBVIOUS

(* Every step of the job and its surroundings is a step of the runner.     *)
LEMMA RunnerSimulation ==
  ASSUME [Next]_vars PROVE [Runner!Next]_(Runner!vars)
<1> DEFINE name == "validator-ejector"
<1>1. ASSUME UNCHANGED <<phase, pc>> PROVE UNCHANGED Runner!vars
  BY <1>1 DEF Runner!vars
<1>2. ASSUME pc \notin {"idle"}, pc' # "idle", UNCHANGED phase PROVE UNCHANGED Runner!vars
  BY <1>2 DEF Runner!vars
<1>3. ASSUME pc # "idle", pc' = "idle", UNCHANGED phase PROVE Runner!Settle(name)
  <2>1. /\ (pc # "idle") = TRUE /\ (pc' # "idle") = FALSE
        /\ (IF pc = "idle" THEN 0 ELSE 1) = 1 /\ (IF pc' = "idle" THEN 0 ELSE 1) = 0
    BY <1>3
  <2>2. Runner!Release(name)
    BY <2>1, SingletonUpdate DEF Runner!Release
  <2>3. [r \in {name} |-> IF pc = "idle" THEN 0 ELSE 1]'
          = [[r \in {name} |-> IF pc = "idle" THEN 0 ELSE 1] EXCEPT ![name] = @ - 1]
    BY <2>1, SingletonUpdate
  <2> QED BY <1>3, <2>1, <2>2, <2>3, SingletonUpdate DEF Runner!Settle
<1>4. CASE StartJob
  <2>1. Runner!Enter(name)
    <3>1. /\ (pc # "idle") = FALSE /\ (pc' # "idle") = TRUE
          /\ (IF pc = "idle" THEN 0 ELSE 1) = 0 /\ (IF pc' = "idle" THEN 0 ELSE 1) = 1
      BY <1>4 DEF StartJob
    <3>2. [r \in {name} |-> IF pc = "idle" THEN 0 ELSE 1]'
            = [[r \in {name} |-> IF pc = "idle" THEN 0 ELSE 1] EXCEPT ![name] = @ + 1]
      BY <3>1, SingletonUpdate
    <3>3. [n \in {name} |-> pc # "idle"]' = [[n \in {name} |-> pc # "idle"] EXCEPT ![name] = TRUE]
      BY <3>1, SingletonUpdate
    <3> QED BY <3>1, <3>2, <3>3, SingletonUpdate DEF Runner!Enter
  <2>2. CASE phase = "booting"
    <3>1. Runner!FirstOnce(name)
      BY <1>4, <2>1, <2>2 DEF StartJob, Runner!FirstOnce
    <3> QED BY <3>1 DEF Runner!Next, Runner!Run
  <2>3. CASE phase = "polling"
    <3>1. Runner!Tick(name)
      BY <1>4, <2>1, <2>3 DEF StartJob, Runner!Tick
    <3> QED BY <3>1 DEF Runner!Next, Runner!Run
  <2> QED BY <1>4, <2>2, <2>3 DEF StartJob
<1>5. CASE StartLoop
  <2>1. Runner!StartLoop(name)
    BY <1>5 DEF StartLoop, Runner!StartLoop
  <2> QED BY <2>1 DEF Runner!Next, Runner!Run
<1>6. CASE Reload \/ LatestBlock \/ GetLogs \/ FetchHead \/ FetchFinalized
  BY <1>2, <1>6 DEF Reload, LatestBlock, GetLogs, FetchHead, FetchFinalized
<1>7. CASE FinishJob \/ FailJob
  BY <1>3, <1>7 DEF FinishJob, FailJob, Runner!Next
<1>8. CASE Crash
  <2>1. Runner!Restart
    BY <1>8 DEF Crash, Runner!Restart
  <2> QED BY <2>1 DEF Runner!Next
<1>9. ASSUME NEW e \in Events, Skip(e) \/ Send(e) \/ SendFails(e) PROVE UNCHANGED Runner!vars
  BY <1>1, <1>9 DEF Skip, Send, SendFails
<1>10. CASE MineBlock \/ Finalize \/ Reorg
  BY <1>1, <1>10 DEF MineBlock, Finalize, Reorg, jobVars
<1>11. ASSUME NEW v \in Validators,
              \/ Include(v) \/ PoolLoses(v) \/ ExitElsewhere(v)
              \/ AddMessage(v) \/ RemoveMessage(v)
       PROVE  UNCHANGED Runner!vars
  BY <1>1, <1>11 DEF Include, PoolLoses, ExitElsewhere, AddMessage, RemoveMessage, jobVars
<1>12. CASE UNCHANGED vars
  BY <1>1, <1>12 DEF vars
<1> QED BY <1>4, <1>5, <1>6, <1>7, <1>8, <1>9, <1>10, <1>11, <1>12 DEF Next, Job, Environment

(* Jobs run the way the runner promises: the first one awaited, the others *)
(* by the timer, one at a time, whatever fails in them.                    *)
THEOREM RunsAsScheduled == Spec => RunnerSpec
<1>1. Init => Runner!Init
  BY DEF Init, Runner!Init
<1>2. [Next]_vars => [Runner!Next]_(Runner!vars)
  BY RunnerSimulation
<1> QED BY <1>1, <1>2, PTL DEF Spec, RunnerSpec, Runner!Spec
=============================================================================
