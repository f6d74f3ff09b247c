------------------------------ MODULE Verifier ------------------------------
(***************************************************************************)
(* services/exit-logs/verifier.ts: may an exit request be trusted?         *)
(*                                                                         *)
(* verifyEvent looks at the transaction that emitted the request.  The     *)
(* data of an oracle report is traced to the consensus transaction that    *)
(* reported its hash, whose signer must be an allowlisted oracle; other    *)
(* submissions must be allowlisted themselves.  Both lookups go through an *)
(* LRU cache, filled before anything is verified, and any answer may be    *)
(* false.                                                                  *)
(*                                                                         *)
(* A transaction stands for its signed content and is its own hash; a      *)
(* report stands for its data (refSlot included) and is its own hash.      *)
(***************************************************************************)
EXTENDS Integers, FiniteSets

CONSTANTS
  Txs,               \* the transactions that exist
  fnOf,              \* [Txs -> Functions], inside an execute() if there is one
  executeTarget,     \* [Txs -> Targets], "none" without an execute()
  reportOf,          \* [Txs -> Reports], the report it submits or names
  signerOf,          \* [Txs -> addresses]
  Rebuildable,       \* those whose hash the kept fields reproduce
  Reports,
  pubkeysIn,         \* [Reports -> sets of public keys]
  ReachedBy,         \* [Reports -> SUBSET Txs], the ConsensusReached logs
  minedIn,           \* [Txs -> block]
  Events,            \* exit requests, as the log query reported them
  validatorPubkey,   \* [Events -> public keys]
  transactionHash,   \* [Events -> Txs]
  blockNumber,       \* [Events -> blocks]
  OracleAllowlist,   \* ORACLE_ADDRESSES_ALLOWLIST
  SubmitAllowlist,   \* entries of SUBMIT_TX_HASH_ALLOWLIST in lower case; others match nothing
  FrameBlocks,       \* ORACLE_FRAME_BLOCKS
  Step,              \* LOAD_LOGS_STEP
  CacheSize,         \* LRU_CACHE_MAX_SIZE
  None,              \* no transaction
  MaxLies            \* bound: false answers in the life of a process

Functions == {"submitReportData", "submitExitRequestsData", "submitReport", "other"}
Targets == {"none", "exitBus", "consensus", "elsewhere"}

ASSUME TxsAssumption ==
  /\ None \notin Txs
  /\ fnOf \in [Txs -> Functions]
  /\ executeTarget \in [Txs -> Targets]
  /\ reportOf \in [Txs -> Reports]
  /\ Rebuildable \subseteq Txs
  /\ minedIn \in [Txs -> Nat]
  /\ ReachedBy \in [Reports -> SUBSET Txs]

ASSUME EventsAssumption ==
  /\ transactionHash \in [Events -> Txs]
  /\ blockNumber \in [Events -> Nat]

ASSUME NumbersAssumption ==
  /\ FrameBlocks \in Nat
  /\ Step \in Nat \ {0}
  /\ CacheSize \in Nat \ {0}
  /\ MaxLies \in Nat

VARIABLES
  transactionCache,  \* [Txs -> Txs \cup {None}], content kept under each hash
  consensusCache,    \* [blocks \X Reports -> Txs \cup {None}]
  pc,                \* where verifyEvent is suspended
  event,             \* its event
  wanted,            \* hash that getTransaction is asked for
  report,            \* report that the event's transaction holds
  from,              \* first block of the next eth_getLogs
  found,             \* transaction of the first matching log, None before
  verdict,           \* how the last verification ended
  failed,            \* history: a request of this verification has failed
  lies               \* history: false answers since the process started

cacheVars == <<transactionCache, consensusCache>>
searchVars == <<report, from, found>>
vars == <<cacheVars, pc, event, wanted, searchVars, verdict, failed, lies>>

Blocks == {blockNumber[e] : e \in Events}
Keys == Blocks \X Reports

TypeOK ==
  /\ transactionCache \in [Txs -> Txs \cup {None}]
  /\ consensusCache \in [Keys -> Txs \cup {None}]
  /\ pc \in {"idle", "transaction", "consensus", "search", "origin"}
  /\ event \in Events
  /\ wanted \in Txs
  /\ report \in Reports
  /\ from \in 0 .. blockNumber[event] + Step
  /\ found \in Txs \cup {None}
  /\ verdict \in {"none", "accepted", "rejected"}
  /\ failed \in BOOLEAN
  /\ lies \in 0 .. MaxLies

Init ==
  /\ transactionCache = [t \in Txs |-> None]
  /\ consensusCache = [k \in Keys |-> None]
  /\ pc = "idle"
  /\ event \in Events
  /\ wanted = transactionHash[event]
  /\ report = reportOf[wanted]
  /\ from = 0
  /\ found = None
  /\ verdict = "none"
  /\ failed = FALSE
  /\ lies = 0

-----------------------------------------------------------------------------
(* Caches and answers *)

Filled(cache) == {k \in DOMAIN cache : cache[k] # None}

(* A cache with an entry more.  Which one a full cache gives up is left    *)
(* open here; lru-cache takes the one not used for longest.                *)
Stored(cache, key, value) ==
  IF key \in Filled(cache) \/ Cardinality(Filled(cache)) < CacheSize
  THEN {[cache EXCEPT ![key] = value]}
  ELSE {[cache EXCEPT ![key] = value, ![old] = None] : old \in Filled(cache)}

(* An answer that is not what the chain holds. *)
Lie(isFalse) ==
  /\ isFalse => lies < MaxLies
  /\ lies' = IF isFalse THEN lies + 1 ELSE lies

-----------------------------------------------------------------------------
(* Checks *)

(* The hash of the transaction that is rebuilt from the fields of the      *)
(* answer: access lists, blobs and authorizations are not among them.      *)
prepareTransactionData(tx) == IF tx \in Rebuildable THEN tx ELSE None

(* Mutation: the signature is taken for a check of the hash. *)
AnyRebuildable(tx, hash) == prepareTransactionData(tx) # None

verifyTransactionIntegrity(tx, hash) == prepareTransactionData(tx) = hash

(* Who signed the transaction that is rebuilt; asked of transactions whose *)
(* integrity is verified.                                                  *)
recoverAddress(tx) == signerOf[tx]

(* The function gate: what the transaction calls, directly or through an   *)
(* execute() on the exit bus.                                              *)
EmittedBy(fn, tx) == fnOf[tx] = fn /\ executeTarget[tx] \in {"none", "exitBus"}

(* decodeSubmitReport does not throw. *)
decodesSubmitReport(tx) ==
  fnOf[tx] = "submitReport" /\ executeTarget[tx] \in {"none", "consensus"}

Names(e, r) == validatorPubkey[e] \in pubkeysIn[r]

(* What verifyOracleEvent asks of the consensus transaction. *)
OriginOk(tx) ==
  /\ verifyTransactionIntegrity(tx, wanted)
  /\ decodesSubmitReport(tx)
  /\ reportOf[tx] = report
  /\ recoverAddress(tx) \in OracleAllowlist

SubmissionOk(tx) ==
  /\ wanted \in SubmitAllowlist
  /\ verifyTransactionIntegrity(tx, wanted)
  /\ Names(event, reportOf[tx])

-----------------------------------------------------------------------------
(* verifyEvent *)

Conclude(ok) ==
  /\ verdict' = IF ok THEN "accepted" ELSE "rejected"
  /\ pc' = "idle"
  /\ UNCHANGED <<event, wanted, searchVars>>

verifyEvent(e) ==
  /\ pc = "idle"
  /\ pc' = "transaction"
  /\ event' = e
  /\ wanted' = transactionHash[e]
  /\ from' = 0
  /\ found' = None
  /\ verdict' = "none"
  /\ failed' = FALSE
  /\ UNCHANGED <<cacheVars, report, lies>>

(* The transaction of the event is at hand. *)
GateTransaction(tx) ==
  IF EmittedBy("submitReportData", tx) /\ Names(event, reportOf[tx])
  THEN /\ pc' = "consensus"
       /\ report' = reportOf[tx]
       /\ UNCHANGED <<event, wanted, from, found, verdict>>
  ELSE Conclude(EmittedBy("submitExitRequestsData", tx) /\ SubmissionOk(tx))

TransactionArrives(tx) ==
  IF pc = "transaction" THEN GateTransaction(tx) ELSE Conclude(OriginOk(tx))

AtTransaction == pc \in {"transaction", "origin"}

CachedTransaction ==
  /\ AtTransaction
  /\ transactionCache[wanted] # None
  /\ TransactionArrives(transactionCache[wanted])
  /\ UNCHANGED <<cacheVars, failed, lies>>

(* The answer is cached under the hash that it names itself. *)
FetchTransaction ==
  /\ AtTransaction
  /\ transactionCache[wanted] = None
  /\ \E hash, tx \in Txs :
       /\ Lie(hash # wanted \/ tx # wanted)
       /\ transactionCache' \in Stored(transactionCache, hash, tx)
       /\ TransactionArrives(tx)
  /\ UNCHANGED <<consensusCache, failed>>

(* Mutation: the search stops short of the oldest block of the frame. *)
LateFrame == blockNumber[event] - FrameBlocks + 1

frameStart == blockNumber[event] - FrameBlocks

(* Mutation: a negative block is searched. *)
Searchable == FALSE

(* getLogs refuses a negative block. *)
Refused == frameStart < 0

(* Mutation: the report alone is the key. *)
ReportKey == <<CHOOSE b \in Blocks : TRUE, report>>

(* What consensusReachedTransactionHash keeps its finding under.           *)
consensusKey == <<blockNumber[event], report>>

(* consensusReachedTransactionHash up to its first request.                *)
LookUpConsensus ==
  /\ pc = "consensus"
  /\ LET cached == consensusCache[consensusKey] IN
     IF cached # None
     THEN /\ pc' = "origin"
          /\ wanted' = cached
          /\ UNCHANGED <<event, searchVars, verdict>>
     ELSE IF Refused
     THEN Conclude(FALSE)
     ELSE /\ pc' = "search"
          /\ from' = frameStart
          /\ UNCHANGED <<event, wanted, report, found, verdict>>
  /\ UNCHANGED <<cacheVars, failed, lies>>

(* Mutation: the loop asks for its first range again. *)
SameRange == from

NextRange == from + Step

(* The logs of the report in the range that is asked for.                  *)
LogsInRange ==
  {t \in ReachedBy[report] :
     minedIn[t] \in from .. from + Step - 1 /\ minedIn[t] <= blockNumber[event]}

(* One eth_getLogs of the frame.  The first matching log counts; the order *)
(* of the logs within a range is left open.                                *)
SearchRange ==
  /\ pc = "search"
  /\ from <= blockNumber[event]
  /\ \E t \in Txs \cup {None} :
       /\ Lie(IF t = None THEN LogsInRange # {} ELSE t \notin LogsInRange)
       /\ found' = IF found = None THEN t ELSE found
  /\ from' = NextRange
  /\ UNCHANGED <<cacheVars, pc, event, wanted, report, verdict, failed>>

(* All ranges are read. *)
EndSearch ==
  /\ pc = "search"
  /\ from > blockNumber[event]
  /\ IF found = None
     THEN Conclude(FALSE) /\ UNCHANGED consensusCache
     ELSE /\ consensusCache' \in Stored(consensusCache, consensusKey, found)
          /\ pc' = "origin"
          /\ wanted' = found
          /\ UNCHANGED <<event, searchVars, verdict>>
  /\ UNCHANGED <<transactionCache, failed, lies>>

(* A request fails, or has no such transaction; verifyEvent rejects. *)
RequestFails ==
  /\ \/ AtTransaction /\ transactionCache[wanted] = None
     \/ pc = "search" /\ from <= blockNumber[event]
  /\ failed' = TRUE
  /\ Conclude(FALSE)
  /\ UNCHANGED <<cacheVars, lies>>

Restart ==
  /\ transactionCache' = [t \in Txs |-> None]
  /\ consensusCache' = [k \in Keys |-> None]
  /\ pc' = "idle"
  /\ verdict' = "none"
  /\ failed' = FALSE
  /\ lies' = 0
  /\ UNCHANGED <<event, wanted, searchVars>>

Answered ==
  \/ CachedTransaction
  \/ FetchTransaction
  \/ LookUpConsensus
  \/ SearchRange
  \/ EndSearch

Next == (\E e \in Events : verifyEvent(e)) \/ Answered \/ RequestFails \/ Restart

(* A request is answered unless it fails, which ends the verification. *)
Spec == Init /\ [][Next]_vars /\ WF_vars(Answered)

-----------------------------------------------------------------------------
(* Properties *)

(* Some key of the oracle allowlist has signed a report of this data. *)
SignedReport(r) ==
  \E t \in Txs : /\ signerOf[t] \in OracleAllowlist
                 /\ decodesSubmitReport(t)
                 /\ reportOf[t] = r

GenuineSubmission(e) ==
  LET t == transactionHash[e] IN
    /\ t \in SubmitAllowlist
    /\ EmittedBy("submitExitRequestsData", t)
    /\ Names(e, reportOf[t])

(* The validator is named by data that the operator's allowlists vouch for.*)
Genuine(e) ==
  \/ \E r \in Reports : Names(e, r) /\ SignedReport(r)
  \/ GenuineSubmission(e)

(* Whatever the nodes answered, in this verification or in one before it   *)
(* that left its answers in the caches, a request is accepted only when    *)
(* an allowlisted oracle or submission names its validator.                *)
AcceptedIsGenuine == verdict = "accepted" => Genuine(event)

(* The logs of the report in the frame before block b. *)
LogsInFrame(b, r) == {t \in ReachedBy[r] : minedIn[t] \in b - FrameBlocks .. b}

(* An allowlisted oracle has reported the hash of r with transaction t.    *)
Reporting(t, r) ==
  /\ t \in Rebuildable
  /\ decodesSubmitReport(t)
  /\ reportOf[t] = r
  /\ signerOf[t] \in OracleAllowlist

(* With true answers each consensus transaction the search may find passes.*)
ConfirmedReport(e) ==
  LET r == reportOf[transactionHash[e]] IN
    /\ EmittedBy("submitReportData", transactionHash[e])
    /\ Names(e, r)
    /\ blockNumber[e] >= FrameBlocks
    /\ LogsInFrame(blockNumber[e], r) # {}
    /\ \A t \in LogsInFrame(blockNumber[e], r) : Reporting(t, r)

Confirmed(e) ==
  \/ ConfirmedReport(e)
  \/ GenuineSubmission(e) /\ transactionHash[e] \in Rebuildable

(* A request that the chain confirms is rejected only for a cause: a       *)
(* request of this verification failed, or some node has lied since the    *)
(* process started.  Caching, evictions and earlier verifications that     *)
(* failed half way reject nothing by themselves.                           *)
RejectedForCause ==
  verdict = "rejected" /\ Confirmed(event) => failed \/ lies > 0

(* The request came with its data: a report whose hash an oracle reported  *)
(* in the frame of the request's own block, or an allowlisted submission.  *)
SubmittedInFrame(e) ==
  LET t == transactionHash[e] IN
    \/ GenuineSubmission(e) /\ t \in Rebuildable
    \/ /\ EmittedBy("submitReportData", t)
       /\ Names(e, reportOf[t])
       /\ \E c \in LogsInFrame(blockNumber[e], reportOf[t]) : Reporting(c, reportOf[t])

(* With true answers, what is accepted was submitted with the request, by  *)
(* its own transaction.  What earlier requests left in the caches, for the *)
(* same report too, stands in for none of it.                              *)
AcceptedInFrame == verdict = "accepted" /\ lies = 0 => SubmittedInFrame(event)

(* A verification ends, whatever it is answered and however the frame is   *)
(* cut into ranges: the events behind it are waiting.                      *)
VerificationEnds == pc # "idle" ~> pc = "idle"
=============================================================================
