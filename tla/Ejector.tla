------------------------------ MODULE Ejector ------------------------------
(***************************************************************************)
(* services/job-processor: the job that turns the requests of the intake   *)
(* into voluntary exits, with the two chains it works against.             *)
(*                                                                         *)
(* A job reloads the exit messages, resolves contracts, asks for the       *)
(* finalized block, lets the intake catch up with it, reads the validators *)
(* of all requests at "head" and then at "finalized", and walks over the   *)
(* requests: it acknowledges those whose exit it considers settled and     *)
(* sends the exits of the others.  Between any two of its awaits blocks    *)
(* are finalized, exits are included, finalized or reorganized away, and   *)
(* the process may die, which empties everything it holds.                 *)
(***************************************************************************)
EXTENDS Integers

CONSTANTS
  Events,          \* requests that pass scope, key check and verification
  Validators,      \* validator indices
  ValidatorOf,     \* [Events -> Validators]
  Preload,         \* BLOCKS_PRELOAD
  AckAge,          \* FINALIZED_BLOCK_EQUIVALENT
  HeadLag,         \* how far behind the endpoint answering "finalized" may be
  Configs,         \* deployments: a mode, and a value of DRY_RUN
  MaxBlock,        \* bound: the finalized height the model stops at
  MaxReorgs,       \* bound: reorganizations, exits a pool loses, messages taken away
  MaxFaults        \* bound: failed calls and restarts

ASSUME NumbersAssumption ==
  /\ Preload \in Nat
  /\ AckAge \in Nat
  /\ HeadLag \in Nat
  /\ MaxBlock \in Nat
  /\ MaxReorgs \in Nat
  /\ MaxFaults \in Nat

ASSUME EventsAssumption == ValidatorOf \in [Events -> Validators]

ASSUME ConfigsAssumption ==
  Configs \subseteq [mode : {"messages", "webhook"}, dryRun : BOOLEAN]

VARIABLES
  blockOf,    \* execution chain: finalized block of each event
  height,     \* execution chain: finalized height
  frontier,   \* exit logs: last block consumed
  taken,      \* exit logs: the cached events
  exitHead,   \* beacon chain: validators exiting in the head state
  exitFinal,  \* beacon chain: validators exiting in the finalized state
  pool,       \* beacon chain: exits submitted and not yet included
  folder,     \* the validators with a valid message in MESSAGES_LOCATION
  config,     \* the mode and the DRY_RUN of this deployment
  phase,      \* app/service: booting, then the initial job, then polling
  pc,         \* handleJob: the step it is suspended in, "idle" between jobs
  stored,     \* message storage: validators with a message
  reloaded,   \* history: the folder as the job in hand found it, {} before; no guard reads it
  last,       \* handleJob: lastBlockNumber
  headRec,    \* handleJob: exitingValidatorsRecord
  finRec,     \* handleJob: exitingValidatorsFinalizedRecord
  todo,       \* handleJob: events the loop has not reached
  acked,      \* the cached events with acknowledged = true
  reorgs,     \* bound counter
  faults      \* bound counter

elVars == <<blockOf, height>>
clVars == <<exitHead, exitFinal, pool, reorgs>>
intakeVars == <<frontier, taken>>
recVars == <<headRec, finRec>>
vars == <<blockOf, height, frontier, taken, exitHead, exitFinal, pool, folder, config,
          phase, pc, stored, reloaded, last, headRec, finRec, todo, acked, reorgs, faults>>

Intake == INSTANCE ExitIntake WITH Eligible <- Events

Max(a, b) == IF a > b THEN a ELSE b

Init ==
  /\ Intake!Init
  /\ exitHead = {} /\ exitFinal = {} /\ pool = {}
  /\ folder = {}
  /\ config \in Configs
  /\ phase = "booting"
  /\ pc = "idle"
  /\ stored = {} /\ reloaded = {}
  /\ last = 0
  /\ headRec = {} /\ finRec = {} /\ todo = {}
  /\ acked = {}
  /\ reorgs = 0 /\ faults = 0

-----------------------------------------------------------------------------
(* The chains and the operator. *)

MineBlock ==
  /\ height < MaxBlock
  /\ \E S \in SUBSET Events : Intake!Mine(S)
  /\ UNCHANGED <<clVars, folder, config, phase, pc, stored, reloaded, last, recVars, todo, acked, faults>>

jobVars == <<phase, pc, stored, reloaded, last, headRec, finRec, todo, acked, faults>>

(* An exit submitted to the pool is included in a block of the head. *)
Include(v) ==
  /\ v \in pool
  /\ pool' = pool \ {v}
  /\ exitHead' = exitHead \cup {v}
  /\ UNCHANGED <<elVars, intakeVars, exitFinal, reorgs, folder, config, jobVars>>

(* Finality reaches the head. *)
Finalize ==
  /\ exitFinal' = exitHead
  /\ UNCHANGED <<elVars, intakeVars, exitHead, pool, reorgs, folder, config, jobVars>>

(* The head is reorganized: exits that are not final leave it, and return  *)
(* to the pool or are lost.                                                *)
Reorg ==
  /\ reorgs < MaxReorgs
  /\ reorgs' = reorgs + 1
  /\ \E S \in SUBSET (exitHead \ exitFinal) :
       /\ S # {}
       /\ exitHead' = exitHead \ S
       /\ pool' \in {pool, pool \cup S}
  /\ UNCHANGED <<elVars, intakeVars, exitFinal, folder, config, jobVars>>

(* The pool forgets a submitted exit: its nodes restart or prune it. *)
PoolLoses(v) ==
  /\ reorgs < MaxReorgs
  /\ v \in pool
  /\ reorgs' = reorgs + 1
  /\ pool' = pool \ {v}
  /\ UNCHANGED <<elVars, intakeVars, exitHead, exitFinal, folder, config, jobVars>>

(* A validator exits or is slashed without this ejector. *)
ExitElsewhere(v) ==
  /\ reorgs < MaxReorgs
  /\ v \notin exitHead
  /\ reorgs' = reorgs + 1
  /\ exitHead' = exitHead \cup {v}
  /\ pool' = pool \ {v}
  /\ UNCHANGED <<elVars, intakeVars, exitFinal, folder, config, jobVars>>

(* The operator adds the message of a validator to the folder. *)
AddMessage(v) ==
  /\ config.mode = "messages"
  /\ v \notin folder
  /\ folder' = folder \cup {v}
  /\ UNCHANGED <<elVars, intakeVars, clVars, config, jobVars>>

(* The operator takes the message of a validator out of the folder.  The   *)
(* process learns of it by its next reload: a job past it still sends it.  *)
RemoveMessage(v) ==
  /\ config.mode = "messages"
  /\ reorgs < MaxReorgs
  /\ v \in folder
  /\ reorgs' = reorgs + 1
  /\ folder' = folder \ {v}
  /\ UNCHANGED <<elVars, intakeVars, exitHead, exitFinal, pool, config, jobVars>>

-----------------------------------------------------------------------------
(* The job runner and the application around handleJob. *)

(* once(): by run() for the first time, by the timer afterwards.  Ticks    *)
(* during a job find the lock taken and return.                            *)
StartJob ==
  /\ phase \in {"booting", "polling"}
  /\ pc = "idle"
  /\ phase' = IF phase = "booting" THEN "initial" ELSE phase
  /\ pc' = "reload"
  /\ UNCHANGED <<elVars, intakeVars, clVars, folder, config, stored, reloaded, last, recVars, todo, acked, faults>>

(* Mutation: the first once() is not awaited. *)
LoopAtOnce ==
  /\ phase = "initial"
  /\ phase' = "polling"
  /\ UNCHANGED <<elVars, intakeVars, clVars, folder, config, pc, stored, reloaded, last, recVars, todo, acked, faults>>

(* The first once() is over, with success or error: job.loop(). *)
StartLoop ==
  /\ phase = "initial"
  /\ pc = "idle"
  /\ phase' = "polling"
  /\ UNCHANGED <<elVars, intakeVars, clVars, folder, config, pc, stored, reloaded, last, recVars, todo, acked, faults>>

-----------------------------------------------------------------------------
(* handleJob *)

(* Mutation: messages of removed files stay in the storage. *)
RemovedStay(kept) == kept \cup (folder \ exitHead)

(* What the storage holds after a reload that found "kept" in it. *)
AfterReload(kept) == {v \in folder : v \in kept \/ v \notin exitHead}

(* reloadAndVerifyMessages: messages of removed files go, and after a fork *)
(* all of them do; a message that is not in the storage then is verified,  *)
(* which skips validators that are already exiting.  Webhook mode has no   *)
(* messages.  MessageStore is the detail.                                  *)
Reload ==
  /\ pc = "reload"
  /\ \E kept \in {stored, {}} :
       stored' = IF config.mode = "messages" THEN AfterReload(kept) ELSE stored
  /\ reloaded' = folder
  /\ pc' = "block"
  /\ UNCHANGED <<elVars, intakeVars, clVars, folder, config, phase, last, recVars, todo, acked, faults>>

(* Mutation: the head of the chain instead of its finalized block. *)
HeadAnswers == {height + 1}

(* latestBlockNumber: "finalized" as the endpoint that answers knows it. *)
FinalizedAnswers == {n \in 0 .. height : n >= height - HeadLag}

(* resolveExitBusAddress, resolveConsensusAddress, latestBlockNumber. *)
LatestBlock ==
  /\ pc = "block"
  /\ last' \in FinalizedAnswers
  /\ pc' = "logs"
  /\ UNCHANGED <<elVars, intakeVars, clVars, folder, config, phase, stored, reloaded, recVars, todo, acked, faults>>

blockFrom == Max(frontier + 1, last - Preload)

(* The intake consumes blockFrom..to with every request in it. *)
Consume(to) ==
  Intake!Advance(blockFrom, to, {e \in Events : blockOf[e] \in blockFrom .. to})

(* exitLogs.getLogs resolves. *)
GetLogs ==
  /\ pc = "logs"
  /\ IF blockFrom <= last THEN Consume(last) ELSE UNCHANGED <<intakeVars, elVars>>
  /\ pc' = "head"
  /\ UNCHANGED <<clVars, folder, config, phase, stored, reloaded, last, recVars, todo, acked, faults>>

(* fetchValidatorsBatch(..., 'head') *)
FetchHead ==
  /\ pc = "head"
  /\ headRec' = exitHead
  /\ pc' = "final"
  /\ UNCHANGED <<elVars, intakeVars, clVars, folder, config, phase, stored, reloaded, last, finRec, todo, acked, faults>>

(* fetchValidatorsBatch(..., 'finalized'), and the loop begins. *)
FetchFinalized ==
  /\ pc = "final"
  /\ finRec' = exitFinal
  /\ todo' = taken
  /\ pc' = "loop"
  /\ UNCHANGED <<elVars, intakeVars, clVars, folder, config, phase, stored, reloaded, last, headRec, acked, faults>>

(* Mutations: off by one; exiting is enough; only the age counts. *)
SettledAtAge(e) == last - blockOf[e] >= AckAge \/ ValidatorOf[e] \in finRec
SettledAtOnce(e) == TRUE
SettledByAge(e) == last - blockOf[e] > AckAge

(* The condition under which the request of an exiting validator is acked. *)
Settled(e) == last - blockOf[e] > AckAge \/ ValidatorOf[e] \in finRec

(* One iteration without an await: acknowledged before, exiting, dry run,  *)
(* or no message to send.                                                  *)
Skip(e) ==
  LET v == ValidatorOf[e] IN
  /\ pc = "loop"
  /\ e \in todo
  /\ \/ /\ e \notin acked
        /\ v \in headRec
        /\ acked' = IF Settled(e) THEN acked \cup {e} ELSE acked
     \/ /\ \/ e \in acked
           \/ /\ v \notin headRec
              /\ config.dryRun \/ (config.mode = "messages" /\ v \notin stored)
        /\ UNCHANGED acked
  /\ todo' = todo \ {e}
  /\ UNCHANGED <<elVars, intakeVars, clVars, folder, config, phase, pc, stored, reloaded, last, recVars, faults>>

(* The loop reaches the call that sends the exit. *)
MustSend(e) ==
  LET v == ValidatorOf[e] IN
  /\ e \in todo
  /\ e \notin acked
  /\ v \notin headRec
  /\ ~config.dryRun
  /\ config.mode = "messages" => v \in stored

(* One iteration that sends: the message is broadcast to the beacon nodes, *)
(* which refuse it for a validator that exits already, or the webhook is   *)
(* called.  Either way the iteration ends; what came of it is a metric.    *)
Send(e) ==
  LET v == ValidatorOf[e] IN
  /\ pc = "loop"
  /\ MustSend(e)
  /\ pool' = IF v \in exitHead THEN pool ELSE pool \cup {v}
  /\ todo' = todo \ {e}
  /\ UNCHANGED <<elVars, intakeVars, exitHead, exitFinal, reorgs, folder, config, phase, pc,
                 stored, reloaded, last, recVars, acked, faults>>

(* No endpoint took the message.  The error is logged, the loop goes on. *)
SendFails(e) ==
  /\ pc = "loop"
  /\ MustSend(e)
  /\ faults < MaxFaults
  /\ faults' = faults + 1
  /\ todo' = todo \ {e}
  /\ UNCHANGED <<elVars, intakeVars, clVars, folder, config, phase, pc, stored, reloaded, last, recVars, acked>>

(* The loop is through; the metrics are updated and the lock released. *)
FinishJob ==
  /\ pc = "loop"
  /\ todo = {}
  /\ pc' = "idle"
  /\ reloaded' = {}
  /\ UNCHANGED <<elVars, intakeVars, clVars, folder, config, phase, stored, last, recVars, todo, acked, faults>>

(* A call before the loop rejects, and the job with it.  A reload may have *)
(* dropped the messages of an older fork already: all of them, as they are *)
(* of one fork.  A scan may have consumed some of its chunks.              *)
FailJob ==
  /\ pc \in {"reload", "block", "logs", "head", "final"}
  /\ faults < MaxFaults
  /\ faults' = faults + 1
  /\ pc' = "idle"
  /\ reloaded' = {}
  /\ \/ UNCHANGED <<intakeVars, elVars>>
     \/ /\ pc = "logs"
        /\ \E to \in blockFrom .. last - 1 : Consume(to)
  /\ stored' \in IF pc = "reload" /\ config.mode = "messages" THEN {stored, {}} ELSE {stored}
  /\ UNCHANGED <<clVars, folder, config, phase, last, recVars, todo, acked>>

(* The process dies and is started again. *)
Crash ==
  /\ faults < MaxFaults
  /\ faults' = faults + 1
  /\ Intake!Restart
  /\ phase' = "booting"
  /\ pc' = "idle"
  /\ stored' = {} /\ reloaded' = {} /\ acked' = {} /\ todo' = {}
  /\ last' = 0
  /\ headRec' = {} /\ finRec' = {}
  /\ UNCHANGED <<clVars, folder, config>>

Job ==
  \/ StartJob \/ StartLoop
  \/ Reload \/ LatestBlock \/ GetLogs \/ FetchHead \/ FetchFinalized
  \/ \E e \in Events : Skip(e) \/ Send(e)
  \/ FinishJob

Environment ==
  \/ MineBlock
  \/ Finalize
  \/ Reorg
  \/ \E v \in Validators :
       Include(v) \/ PoolLoses(v) \/ ExitElsewhere(v) \/ AddMessage(v) \/ RemoveMessage(v)

Next ==
  \/ Job
  \/ \E e \in Events : SendFails(e)
  \/ FailJob
  \/ Crash
  \/ Environment

Spec == Init /\ [][Next]_vars

(* Timers fire and requests settle, and an endpoint that is behind does    *)
(* not answer every single time; the beacon chain includes what is in the  *)
(* pool and finalizes its head.                                            *)
Fairness ==
  /\ WF_vars(Job)
  /\ SF_vars(LatestBlock /\ last' = height)
  /\ \A v \in Validators : WF_vars(Include(v))
  /\ WF_vars(Finalize)

FairSpec == Spec /\ Fairness

-----------------------------------------------------------------------------
(* Properties *)

TypeOK ==
  /\ blockOf \in [Events -> {Intake!Unmined} \cup 1 .. MaxBlock]
  /\ height \in 0 .. MaxBlock
  /\ frontier \in {Intake!NoBlock} \cup 0 .. MaxBlock
  /\ taken \subseteq Events /\ acked \subseteq taken /\ todo \subseteq taken
  /\ exitHead \subseteq Validators /\ exitFinal \subseteq exitHead
  /\ pool \subseteq Validators /\ folder \subseteq Validators
  /\ stored \subseteq Validators /\ reloaded \subseteq Validators
  /\ config \in Configs
  /\ phase \in {"booting", "initial", "polling"}
  /\ pc \in {"idle", "reload", "block", "logs", "head", "final", "loop"}
  /\ last \in 0 .. MaxBlock
  /\ headRec \subseteq Validators /\ finRec \subseteq Validators
  /\ reorgs \in 0 .. MaxReorgs /\ faults \in 0 .. MaxFaults

(* An acknowledged request is never looked at again, so acknowledging it   *)
(* is right only while its exit cannot be undone: the validator of an      *)
(* acknowledged request is exiting, whatever the chain did since the job   *)
(* read its state.  The code ensures it only for requests that are not     *)
(* older than AckAge when they are handled, see YoungAckIsFinal.           *)
NoMissedReorg == \A e \in acked : ValidatorOf[e] \in exitHead

(* A request still within AckAge of the finalized height was acknowledged  *)
(* because its exit is final, so no reorganization can take it back.       *)
YoungAckIsFinal ==
  \A e \in acked : height - blockOf[e] <= AckAge => ValidatorOf[e] \in exitFinal

(* The pool gains an exit other than by a reorganization. *)
Submitted == IF exitHead' = exitHead THEN pool' \ pool ELSE {}

(* The exit of a validator is submitted only for a request that the intake *)
(* holds and that is not acknowledged; never in a dry run, and in messages *)
(* mode only if the job in hand found its message in the folder, whatever  *)
(* it held in earlier cycles or the operator takes away meanwhile.         *)
SentOnRequest ==
  [][\A v \in Submitted :
       /\ ~config.dryRun
       /\ \E e \in taken \ acked : ValidatorOf[e] = v
       /\ config.mode = "messages" => v \in reloaded]_vars

(* Every request whose exit can be sent is fulfilled: its validator's exit *)
(* is finalized, through lost sends, pools that forget, reorganizations    *)
(* and restarts.  Three ways out: the request is acknowledged for its age, *)
(* see NoMissedReorg, or it is older than BLOCKS_PRELOAD blocks, when a    *)
(* restart may no longer see it, or the operator takes its message away.   *)
RequestsFulfilled ==
  \A e \in Events :
    /\ blockOf[e] > 0
    /\ ~config.dryRun
    /\ config.mode = "messages" => ValidatorOf[e] \in folder
    ~> \/ ValidatorOf[e] \in exitFinal
       \/ e \in acked /\ height - blockOf[e] > AckAge
       \/ blockOf[e] < height - Preload
       \/ config.mode = "messages" /\ ValidatorOf[e] \notin folder

(* A fulfilled request is settled for good: the running process comes to   *)
(* acknowledge it and stops reading its state into decisions.              *)
FulfilledIsAcked ==
  \A e \in Events :
    (e \in taken /\ ValidatorOf[e] \in exitFinal) ~> (e \in acked \/ e \notin taken)

Runner == INSTANCE JobRunner WITH
  Runners <- {"validator-ejector"}, Names <- {"validator-ejector"},
  NameOf <- [r \in {"validator-ejector"} |-> r],
  jobLockMap <- [n \in {"validator-ejector"} |-> pc # "idle"],
  phase <- [r \in {"validator-ejector"} |-> phase],
  handling <- [r \in {"validator-ejector"} |-> IF pc = "idle" THEN 0 ELSE 1]

(* The job runs the way the runner schedules it: first once, awaited, then *)
(* by the timer, one at a time, also across errors and restarts.           *)
RunnerSpec == Runner!Spec
=============================================================================
