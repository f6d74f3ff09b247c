------------------------------ MODULE ExitLogs ------------------------------
(***************************************************************************)
(* services/exit-logs: the incremental, in-memory cache of                 *)
(* ValidatorExitRequest events.                                            *)
(*                                                                         *)
(* Every job calls getLogs(lastBlockNumber).  It scans the blocks that the *)
(* cache header has not covered yet in chunks of LOAD_LOGS_STEP; for each  *)
(* chunk it queries the logs of every entry of EJECTOR_SCOPE, drops those  *)
(* whose public key the beacon state does not confirm, verifies the rest   *)
(* one by one, pushes the survivors and moves the header.  A request that  *)
(* fails anywhere rejects getLogs: the chunk in hand is discarded and the  *)
(* chunks before it stay.  A process restart loses everything.             *)
(***************************************************************************)
EXTENDS Integers, FiniteSets

CONSTANTS
  Events,          \* identities of the ValidatorExitRequest logs
  Validators,      \* validator indices
  Genuine,         \* events a verifier with a working node accepts
  KeyOk,           \* events whose pubkey is the one of their validator
  ValidatorOf,     \* [Events -> Validators]
  Operators,       \* (staking module, node operator) pairs
  OperatorOf,      \* [Events -> Operators]
  EjectorScope,    \* the entries of EJECTOR_SCOPE, as a function on 1..ScopeSize
  ScopeSize,       \* number of entries
  Preload,         \* BLOCKS_PRELOAD
  Step,            \* LOAD_LOGS_STEP
  TrustMode,       \* TRUST_MODE
  HeadLag,         \* how far behind the endpoint answering "finalized" may be
  LogsLag,         \* how far behind the endpoint answering eth_getLogs may be
  LateValidators,  \* validators that a consensus endpoint may not know yet
  VerifyFaults,    \* may a verification fail because a node does?
  MaxBlock,        \* bound: the finalized height the model stops at
  MaxFaults        \* bound: failed scans and restarts

ASSUME NumbersAssumption ==
  /\ ScopeSize \in Nat \ {0}
  /\ Preload \in Nat
  /\ Step \in Nat \ {0}
  /\ HeadLag \in Nat
  /\ LogsLag \in Nat
  /\ MaxBlock \in Nat
  /\ MaxFaults \in Nat

ASSUME EventsAssumption ==
  /\ Genuine \subseteq Events
  /\ KeyOk \subseteq Events
  /\ ValidatorOf \in [Events -> Validators]
  /\ OperatorOf \in [Events -> Operators]

ASSUME LateAssumption == LateValidators \subseteq Validators

ASSUME ModesAssumption == TrustMode \in BOOLEAN /\ VerifyFaults \in BOOLEAN

(* Module ids are the keys of one JSON object and operator ids are made    *)
(* unique, so with ids in canonical form no pair is in two entries.        *)
ASSUME ScopeAssumption ==
  /\ EjectorScope \in [1 .. ScopeSize -> SUBSET Operators]
  /\ \A i, j \in 1 .. ScopeSize : i # j => EjectorScope[i] \cap EjectorScope[j] = {}

VARIABLES
  blockOf,    \* chain: finalized block of each event, Unmined before it has one
  height,     \* chain: height of the finalized chain
  cache,      \* cache.ts: how many entries of the array hold each event
  endBlock,   \* cache.ts: header.endBlock
  pc,         \* where getLogs is suspended
  block,      \* getLogs: first block of the chunk in hand
  blockTo,    \* getLogs: lastBlockNumber of this call
  entry,      \* fetcher: the scope entry to query next
  logs,       \* fetcher: events of the chunk, not yet verified
  verified,   \* fetcher: validatorsToEject, the events that passed
  faults,     \* bound counter of failed calls and restarts
  newest,     \* history: newest lastBlockNumber asked for since the start
  missed      \* history: requests a node kept out of the blocks scanned so far

chainVars == <<blockOf, height>>
scanVars == <<block, blockTo>>
chunkVars == <<entry, logs, verified>>
vars == <<blockOf, height, cache, endBlock, pc, block, blockTo, entry, logs,
          verified, faults, newest, missed>>

Unmined == -1
NoBlock == -1
NoEvents == [e \in Events |-> 0]

Max(a, b) == IF a > b THEN a ELSE b
Min(a, b) == IF a < b THEN a ELSE b

(* Mutation: the last chunk is not cut at the last block. *)
UncappedBlockTo == block + Step - 1

(* Last block of the chunk in hand. *)
currentBlockTo == Min(block + Step - 1, blockTo)

InScope(e) == \E i \in 1 .. ScopeSize : OperatorOf[e] \in EjectorScope[i]

(* Who the verifier accepts when every node it asks answers. *)
Accepted(e) == TrustMode \/ e \in Genuine

Init ==
  /\ blockOf = [e \in Events |-> Unmined]
  /\ height = 0
  /\ cache = NoEvents
  /\ endBlock = NoBlock
  /\ pc = "idle"
  /\ block = 0 /\ blockTo = 0
  /\ entry = 1
  /\ logs = NoEvents
  /\ verified = NoEvents
  /\ faults = 0
  /\ newest = NoBlock
  /\ missed = {}

-----------------------------------------------------------------------------
(* The finalized chain, as the execution endpoints show it. *)

Mine ==
  /\ height < MaxBlock
  /\ height' = height + 1
  /\ \E S \in SUBSET {e \in Events : blockOf[e] = Unmined} :
       blockOf' = [e \in Events |-> IF e \in S THEN height + 1 ELSE blockOf[e]]
  /\ UNCHANGED <<cache, endBlock, pc, scanVars, chunkVars, faults, newest, missed>>

(* latestBlockNumber: "finalized" as the endpoint that answers knows it. *)
FinalizedAnswers == {n \in 0 .. height : n >= height - HeadLag}

-----------------------------------------------------------------------------
(* getLogs *)

(* Mutation: only the initial load scans. *)
AnyHeader(last) == endBlock >= 0

(* The early return: the header is at the last block already. *)
FullyCached(last) == endBlock = last

(* Mutation: the header's end is taken for the first block not scanned. *)
RescanFrom(last) == Max(endBlock, last - Preload)

(* Where a scan up to last begins. *)
blockFrom(last) == Max(endBlock + 1, last - Preload)

(* getLogs(lastBlockNumber).  With a block behind the header the loop has  *)
(* no iteration, and the cache is returned as it is.                       *)
Start(last) ==
  /\ pc = "idle"
  /\ newest' = Max(newest, last)
  /\ IF ~FullyCached(last) /\ blockFrom(last) <= last
     THEN /\ pc' = "fetch"
          /\ block' = blockFrom(last)
          /\ blockTo' = last
          /\ entry' = 1
          /\ logs' = NoEvents
          /\ verified' = NoEvents
     ELSE UNCHANGED <<pc, scanVars, chunkVars>>
  /\ UNCHANGED <<chainVars, cache, endBlock, faults, missed>>

(* What the filter of one query matches: a chunk and a scope entry.        *)
Matching == {e \in Events : /\ OperatorOf[e] \in EjectorScope[entry]
                            /\ blockOf[e] \in block .. currentBlockTo}

(* One iteration of the scope loop: el.getLogs for the chunk and one entry.*)
(* An endpoint behind the chain answers with the blocks it has.            *)
FetchEntry ==
  /\ pc = "fetch"
  /\ entry <= ScopeSize
  /\ \E lag \in 0 .. LogsLag :
       /\ logs' = [e \in Events |-> IF e \in Matching /\ blockOf[e] <= height - lag
                                    THEN logs[e] + 1 ELSE logs[e]]
       /\ missed' = missed \cup {e \in Matching : blockOf[e] > height - lag}
  /\ entry' = entry + 1
  /\ UNCHANGED <<chainVars, cache, endBlock, pc, scanVars, verified, faults, newest>>

(* Mutation: an index is valid once the beacon state knows it. *)
KnownIndices == {ValidatorOf[e] : e \in {k \in Events : logs[k] > 0}}

(* validatePublicKeys: the indices whose key matched for at least one      *)
(* event of the chunk, as long as the endpoint knows the validator.        *)
validIndices == {ValidatorOf[e] : e \in {k \in KeyOk : logs[k] > 0}}

(* The filter keeps every event of a valid index.  An endpoint behind the  *)
(* chain answers without the validators it does not know.                  *)
ValidatePublicKeys ==
  /\ pc = "fetch"
  /\ entry > ScopeSize
  /\ \E unknown \in SUBSET LateValidators :
       /\ logs' = [e \in Events |-> IF ValidatorOf[e] \in validIndices \ unknown
                                    THEN logs[e] ELSE 0]
       /\ missed' = missed \cup {e \in Events : /\ logs[e] > 0
                                                /\ ValidatorOf[e] \in validIndices \cap unknown}
  /\ pc' = "verify"
  /\ UNCHANGED <<chainVars, cache, endBlock, scanVars, entry, verified, faults, newest>>

(* verifyEvent resolves, or rejects and the event is skipped: because it   *)
(* is not genuine, or because a node the verifier asked did not answer.    *)
VerifyEvent(e) ==
  /\ pc = "verify"
  /\ logs[e] > 0
  /\ logs' = [logs EXCEPT ![e] = @ - 1]
  /\ \/ /\ Accepted(e)
        /\ verified' = [verified EXCEPT ![e] = @ + 1]
        /\ UNCHANGED missed
     \/ /\ ~TrustMode
        /\ e \notin Genuine \/ VerifyFaults
        /\ missed' = IF e \in Genuine THEN missed \cup {e} ELSE missed
        /\ UNCHANGED verified
  /\ UNCHANGED <<chainVars, cache, endBlock, pc, scanVars, entry, faults, newest>>

(* Mutations: setHeader is forgotten; it is told the end of the scan. *)
ForgetHeader == UNCHANGED endBlock
HeaderAtScanEnd == endBlock' = blockTo

(* cache.setHeader(block, currentBlockTo) *)
SetHeader == endBlock' = currentBlockTo

(* cache.push for each event that passed the verifier *)
Push == cache' = [e \in Events |-> cache[e] + verified[e]]

(* fetcher.getLogs has resolved: push, setHeader, and the next iteration   *)
(* or the end of the loop, with no await between them.                     *)
CommitChunk ==
  /\ pc = "verify"
  /\ \A e \in Events : logs[e] = 0
  /\ Push
  /\ SetHeader
  /\ block' = block + Step
  /\ pc' = IF block + Step <= blockTo THEN "fetch" ELSE "idle"
  /\ entry' = 1
  /\ verified' = NoEvents
  /\ UNCHANGED <<chainVars, blockTo, logs, faults, newest, missed>>

(* A request of the log query or of the key validation rejects, and with   *)
(* it getLogs.                                                             *)
FailScan ==
  /\ pc = "fetch"
  /\ faults < MaxFaults
  /\ faults' = faults + 1
  /\ pc' = "idle"
  /\ missed' = {e \in missed : blockOf[e] <= endBlock}
  /\ UNCHANGED <<chainVars, cache, endBlock, scanVars, chunkVars, newest>>

(* The process exits, at any point, and is started again. *)
Restart ==
  /\ faults < MaxFaults
  /\ faults' = faults + 1
  /\ cache' = NoEvents
  /\ endBlock' = NoBlock
  /\ pc' = "idle"
  /\ block' = 0 /\ blockTo' = 0
  /\ entry' = 1
  /\ logs' = NoEvents
  /\ verified' = NoEvents
  /\ newest' = NoBlock
  /\ missed' = {}
  /\ UNCHANGED chainVars

Scan ==
  \/ FetchEntry
  \/ ValidatePublicKeys
  \/ \E e \in Events : VerifyEvent(e)
  \/ CommitChunk

Next ==
  \/ Mine
  \/ \E last \in FinalizedAnswers : Start(last)
  \/ Scan
  \/ FailScan
  \/ Restart

Spec == Init /\ [][Next]_vars

(* The job keeps calling getLogs and its requests settle: one that gets no *)
(* response in time is aborted, and a response is assumed to have an end.  *)
(* An endpoint that is behind does not answer every single time.           *)
Fairness ==
  /\ WF_vars(Scan)
  /\ SF_vars(Start(height))

FairSpec == Spec /\ Fairness

-----------------------------------------------------------------------------
(* Properties *)

TypeOK ==
  /\ blockOf \in [Events -> {Unmined} \cup 1 .. MaxBlock]
  /\ height \in 0 .. MaxBlock
  /\ cache \in [Events -> Nat]
  /\ endBlock \in {NoBlock} \cup 0 .. MaxBlock
  /\ pc \in {"idle", "fetch", "verify"}
  /\ block \in Nat
  /\ blockTo \in 0 .. MaxBlock
  /\ entry \in 1 .. ScopeSize + 1
  /\ logs \in [Events -> Nat]
  /\ verified \in [Events -> Nat]
  /\ faults \in 0 .. MaxFaults
  /\ newest \in {NoBlock} \cup 0 .. MaxBlock
  /\ missed \subseteq Events

(* The job walks the cached array and acts on every entry, so an event     *)
(* pushed twice would be sent twice in each job.  However chunks, failed   *)
(* scans, endpoints that fall behind and restarts interleave, no event is  *)
(* in the array twice.                                                     *)
NoDuplicates == \A e \in Events : cache[e] <= 1

(* An event the job may act on is in the scope of this ejector, passed the *)
(* verifier, lies in the blocks the header claims, and its index is one    *)
(* whose key the beacon state confirmed for a request of the same blocks.  *)
(* (Not necessarily its own key: the filter works per index.)              *)
CacheAuthentic ==
  \A e \in Events : cache[e] > 0 =>
    /\ InScope(e) /\ Accepted(e)
    /\ blockOf[e] \in 0 .. endBlock
    /\ \E k \in KeyOk : /\ ValidatorOf[k] = ValidatorOf[e]
                        /\ InScope(k)
                        /\ blockOf[k] \in 0 .. endBlock

(* A request this ejector has to fulfil. *)
Valid(e) == InScope(e) /\ Accepted(e) /\ e \in KeyOk

(* Wherever the header stands, every request this ejector has to fulfil is *)
(* in the cache, unless it is more than BLOCKS_PRELOAD blocks behind the   *)
(* newest block a job has asked for since the start.  Chunk boundaries,    *)
(* scans that fail half way and answers that go back in time leave no gap. *)
NoRequestLost ==
  \A e \in Events :
    (/\ Valid(e)
     /\ blockOf[e] # Unmined
     /\ newest - Preload <= blockOf[e] /\ blockOf[e] <= endBlock) => cache[e] = 1

(* The only way to lose a request is a node, whatever nodes do: one the    *)
(* header has passed, within the preload window, is in the cache unless an *)
(* endpoint behind the chain answered for its block or for its validator,  *)
(* or a node failed its verification, in the scan that passed it.  A chunk *)
(* that was discarded half way takes its losses with it.                   *)
LostToNodesOnly ==
  \A e \in Events :
    (/\ Valid(e) /\ e \notin missed
     /\ blockOf[e] # Unmined
     /\ newest - Preload <= blockOf[e] /\ blockOf[e] <= endBlock) => cache[e] = 1

(* Every request of the chain ends up in the cache of the running process  *)
(* or falls out of the preload window.                                     *)
RequestsTaken ==
  \A e \in Events :
    (Valid(e) /\ blockOf[e] # Unmined)
      ~> (cache[e] = 1 \/ blockOf[e] < newest - Preload)

Intake == INSTANCE ExitIntake WITH
  Eligible <- {e \in Events : InScope(e) /\ Accepted(e)},
  frontier <- endBlock,
  taken <- {e \in Events : cache[e] > 0}

(* The cache is an intake: header and array move together and only        *)
(* forward, each event is taken with the chunk that holds its block.       *)
IntakeSpec == Intake!Spec

-----------------------------------------------------------------------------
(* Inductive strengthening of the safety properties. *)

(* The event is in the hands of the fetcher. *)
InHand(e) == logs[e] + verified[e] > 0

(* It is a log of the chunk in hand. *)
InChunk(e) == blockOf[e] \in block .. currentBlockTo

(* Nothing is ahead of the chain, and the scan is ahead of the header. *)
ScanRange ==
  /\ \A e \in Events : blockOf[e] <= height
  /\ endBlock <= height
  /\ pc # "idle" => endBlock < block /\ block <= blockTo /\ blockTo <= height

(* The fetcher holds each event of the chunk at most once, because at most *)
(* one scope entry matches it, and only accepted events get through.       *)
ChunkInv ==
  pc # "idle" =>
    \A e \in Events :
      /\ logs[e] + verified[e] <= 1
      /\ InHand(e) => InChunk(e) /\ InScope(e)
      /\ verified[e] > 0 => Accepted(e)
      /\ pc = "fetch" =>
           /\ verified[e] = 0
           /\ logs[e] > 0 => \E i \in 1 .. entry - 1 : OperatorOf[e] \in EjectorScope[i]

(* After the filter, a key of the same index and chunk was confirmed. *)
KeyInv ==
  pc = "verify" =>
    \A e \in Events : InHand(e) =>
      \E k \in KeyOk : ValidatorOf[k] = ValidatorOf[e] /\ InScope(k) /\ InChunk(k)

SafetyInv == ScanRange /\ ChunkInv /\ KeyInv /\ NoDuplicates /\ CacheAuthentic

(* What makes the scan complete but for what nodes keep out of it: the     *)
(* scan skips no block of the window, the queries made so far returned     *)
(* every log of the chunk, and the filter and the verifier kept the valid  *)
(* ones.                                                                   *)
CompletenessInv ==
  /\ pc # "idle" =>
       /\ blockTo <= newest
       /\ block = endBlock + 1 \/ block <= newest - Preload
       /\ \A e \in Events : Valid(e) /\ e \notin missed /\ InChunk(e) =>
            /\ pc = "verify" => logs[e] + verified[e] = 1
            /\ pc = "fetch" =>
                 \A i \in 1 .. entry - 1 : OperatorOf[e] \in EjectorScope[i] => logs[e] = 1
  /\ LostToNodesOnly
=============================================================================
