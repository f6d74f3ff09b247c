--------------------------- MODULE Verifier_proofs ---------------------------
(***************************************************************************)
(* Proofs about Verifier: what lets no false answer through, and what lets *)
(* every true one.                                                         *)
(***************************************************************************)
EXTENDS Verifier, TLAPS

InOracleBranch == pc \in {"consensus", "search", "origin"}

(* What is checked before the consensus report is looked for.              *)
GenuineInv ==
  /\ pc = "transaction" => wanted = transactionHash[event]
  /\ pc \in {"transaction", "consensus"} => found = None
  /\ InOracleBranch => Names(event, report)
  /\ AcceptedIsGenuine

(* Caches that were never lied to hold what the chain holds.               *)
CachesTrue ==
  /\ \A t \in Txs : transactionCache[t] \in {t, None}
  /\ \A b \in Blocks, r \in Reports :
       consensusCache[<<b, r>>] \in LogsInFrame(b, r) \cup {None}

(* The search has passed over no log of the report.                        *)
SearchTrue ==
  /\ 0 <= frameStart /\ frameStart <= from
  /\ found # None => found \in LogsInFrame(blockNumber[event], report)
  /\ found = None => \A t \in LogsInFrame(blockNumber[event], report) : minedIn[t] >= from

(* What a verdict means without a lie.                                     *)
VerdictTrue ==
  /\ verdict = "rejected" /\ Confirmed(event) => failed
  /\ verdict = "accepted" => SubmittedInFrame(event)

(* Without a lie the verification is about the event's own report.         *)
TruthInv ==
  lies = 0 =>
    /\ CachesTrue
    /\ InOracleBranch => /\ EmittedBy("submitReportData", transactionHash[event])
                         /\ report = reportOf[transactionHash[event]]
    /\ pc = "search" => SearchTrue
    /\ pc = "origin" => wanted \in LogsInFrame(blockNumber[event], report)
    /\ VerdictTrue

Inv == TypeOK /\ GenuineInv /\ TruthInv

-----------------------------------------------------------------------------
(* A cache takes the new entry and keeps or gives up the others.           *)
LEMMA StoredEntries ==
  ASSUME NEW K, NEW cache \in [K -> Txs \cup {None}], NEW key \in K,
         NEW value \in Txs, NEW next \in Stored(cache, key, value)
  PROVE  /\ next \in [K -> Txs \cup {None}]
         /\ \A k \in K : \/ next[k] = cache[k]
                         \/ next[k] = None
                         \/ k = key /\ next[k] = value
<1>1. CASE next = [cache EXCEPT ![key] = value]
  BY <1>1
<1>2. CASE \E old \in Filled(cache) : next = [cache EXCEPT ![key] = value, ![old] = None]
  <2>1. PICK old \in Filled(cache) : next = [cache EXCEPT ![key] = value, ![old] = None]
    BY <1>2
  <2>2. old \in K
    BY DEF Filled
  <2> QED BY <2>1, <2>2
<1> QED BY <1>1, <1>2 DEF Stored

LEMMA KeysOfEvents ==
  \A e \in Events, r \in Reports : blockNumber[e] \in Blocks /\ <<blockNumber[e], r>> \in Keys
  BY DEF Blocks, Keys

LEMMA LieSteps ==
  ASSUME TypeOK, NEW isFalse \in BOOLEAN, Lie(isFalse)
  PROVE  lies' \in 0 .. MaxLies /\ (lies' = 0 => lies = 0 /\ ~isFalse)
  BY NumbersAssumption DEF TypeOK, Lie

LEMMA InitInv == Init => Inv
<1> SUFFICES ASSUME Init PROVE Inv
  OBVIOUS
<1>1. TypeOK
  <2>1. wanted \in Txs /\ report \in Reports /\ blockNumber[event] \in Nat
    BY TxsAssumption, EventsAssumption DEF Init
  <2>2. /\ transactionCache \in [Txs -> Txs \cup {None}]
        /\ consensusCache \in [Keys -> Txs \cup {None}]
    BY DEF Init
  <2>3. 0 \in 0 .. blockNumber[event] + Step /\ 0 \in 0 .. MaxLies
    BY <2>1, NumbersAssumption
  <2>4. pc = "idle" /\ event \in Events /\ from = 0 /\ found = None /\ verdict = "none"
        /\ failed = FALSE /\ lies = 0
    BY DEF Init
  <2> QED BY <2>1, <2>2, <2>3, <2>4 DEF TypeOK
<1>2. CachesTrue
  BY DEF Init, CachesTrue, Keys
<1> QED BY <1>1, <1>2 DEF Init, Inv, GenuineInv, TruthInv, VerdictTrue, InOracleBranch, AcceptedIsGenuine

-----------------------------------------------------------------------------
(* Type correctness of the parts that several steps share *)

LEMMA ArrivesType ==
  ASSUME TypeOK, NEW tx \in Txs, AtTransaction, TransactionArrives(tx)
  PROVE  /\ pc' \in {"idle", "consensus"}
         /\ UNCHANGED <<event, wanted, from, found>>
         /\ report' \in Reports
         /\ verdict' \in {"none", "accepted", "rejected"}
  BY TxsAssumption
  DEF TypeOK, AtTransaction, TransactionArrives, GateTransaction, Conclude, searchVars

LEMMA ArrivesGenuine ==
  ASSUME TypeOK, GenuineInv, NEW tx \in Txs, AtTransaction, TransactionArrives(tx)
  PROVE  GenuineInv'
<1>1. CASE pc = "transaction"
  <2>1. CASE EmittedBy("submitReportData", tx) /\ Names(event, reportOf[tx])
    <3>1. /\ pc' = "consensus" /\ report' = reportOf[tx]
          /\ UNCHANGED <<event, wanted, found, verdict>>
      BY <1>1, <2>1 DEF TransactionArrives, GateTransaction
    <3> QED BY <1>1, <2>1, <3>1
            DEF GenuineInv, InOracleBranch, Names, AcceptedIsGenuine, Genuine,
                GenuineSubmission, SignedReport, EmittedBy
  <2>2. CASE ~(EmittedBy("submitReportData", tx) /\ Names(event, reportOf[tx]))
    <3> DEFINE ok == EmittedBy("submitExitRequestsData", tx) /\ SubmissionOk(tx)
    <3>1. Conclude(ok)
      BY <1>1, <2>2 DEF TransactionArrives, GateTransaction
    <3>2. ok => GenuineSubmission(event)
      BY <1>1, TxsAssumption DEF TypeOK, SubmissionOk, verifyTransactionIntegrity, prepareTransactionData, GenuineInv, GenuineSubmission
    <3>3. verdict' = "accepted" => Genuine(event)
      BY <3>1, <3>2 DEF Conclude, Genuine
    <3>4. Genuine(event) => Genuine(event')
      BY <3>1 DEF Conclude
    <3> QED BY <3>1, <3>3, <3>4 DEF Conclude, GenuineInv, InOracleBranch, AcceptedIsGenuine
  <2> QED BY <2>1, <2>2
<1>2. CASE pc = "origin"
  <2>1. Conclude(OriginOk(tx))
    BY <1>2 DEF TransactionArrives
  <2>2. OriginOk(tx) => Genuine(event)
    BY <1>2 DEF OriginOk, recoverAddress, GenuineInv, InOracleBranch, Genuine, SignedReport, TypeOK
  <2>3. event' = event /\ pc' = "idle" /\ (verdict' = "accepted" => OriginOk(tx))
    BY <2>1 DEF Conclude
  <2> QED BY <2>2, <2>3 DEF GenuineInv, InOracleBranch, AcceptedIsGenuine
<1> QED BY <1>1, <1>2 DEF AtTransaction

(* What TruthInv says beside the caches.                                   *)
VerificationTrue ==
  /\ InOracleBranch => /\ EmittedBy("submitReportData", transactionHash[event])
                       /\ report = reportOf[transactionHash[event]]
  /\ pc = "search" => SearchTrue
  /\ pc = "origin" => wanted \in LogsInFrame(blockNumber[event], report)
  /\ VerdictTrue

LEMMA SameEvent ==
  ASSUME event' = event
  PROVE  /\ Confirmed(event)' = Confirmed(event)
         /\ SubmittedInFrame(event)' = SubmittedInFrame(event)
         /\ EmittedBy("submitReportData", transactionHash[event])'
              = EmittedBy("submitReportData", transactionHash[event])
  BY DEF Confirmed, ConfirmedReport, SubmittedInFrame, GenuineSubmission, Names, EmittedBy

LEMMA SameVerdict ==
  ASSUME UNCHANGED <<event, verdict, failed>>
  PROVE  VerdictTrue' = VerdictTrue
  BY SameEvent DEF VerdictTrue

(* A request of an oracle report is confirmed through the report only.     *)
LEMMA ConfirmedByReport ==
  ASSUME NEW e \in Events, EmittedBy("submitReportData", transactionHash[e]), Confirmed(e)
  PROVE  ConfirmedReport(e)
  BY DEF Confirmed, GenuineSubmission, EmittedBy

LEMMA ArrivesTrue ==
  ASSUME TypeOK, GenuineInv, VerificationTrue, AtTransaction,
         TransactionArrives(wanted), failed' = failed
  PROVE  VerificationTrue'
<1>1. CASE pc = "transaction"
  <2>1. wanted = transactionHash[event] /\ event \in Events
    BY <1>1 DEF GenuineInv, TypeOK
  <2>2. CASE EmittedBy("submitReportData", wanted) /\ Names(event, reportOf[wanted])
    <3>1. /\ pc' = "consensus" /\ report' = reportOf[wanted]
          /\ UNCHANGED <<event, verdict>>
      BY <1>1, <2>2 DEF TransactionArrives, GateTransaction
    <3>2. VerdictTrue' = VerdictTrue
      BY <3>1, SameVerdict
    <3>3. EmittedBy("submitReportData", transactionHash[event'])
      BY <2>1, <2>2, <3>1
    <3>4. report' = reportOf[transactionHash[event']]
      BY <2>1, <3>1
    <3>5. EmittedBy("submitReportData", transactionHash[event])'
      BY <3>3 DEF EmittedBy
    <3>6. pc' # "search" /\ pc' # "origin"
      BY <3>1
    <3> QED BY <3>2, <3>4, <3>5, <3>6 DEF VerificationTrue
  <2>3. CASE ~(EmittedBy("submitReportData", wanted) /\ Names(event, reportOf[wanted]))
    <3> DEFINE ok == EmittedBy("submitExitRequestsData", wanted) /\ SubmissionOk(wanted)
    <3>1. Conclude(ok)
      BY <1>1, <2>3 DEF TransactionArrives, GateTransaction
    <3>2. Confirmed(event) => ok
      BY <2>1, <2>3
      DEF Confirmed, ConfirmedReport, GenuineSubmission, SubmissionOk,
          verifyTransactionIntegrity, prepareTransactionData
    <3>3. ok => SubmittedInFrame(event)
      BY <2>1, TxsAssumption
      DEF TypeOK, SubmittedInFrame, GenuineSubmission, SubmissionOk,
          verifyTransactionIntegrity, prepareTransactionData
    <3>4. /\ pc' = "idle" /\ event' = event
          /\ verdict' = "rejected" => ~ok
          /\ verdict' = "accepted" => ok
      BY <3>1 DEF Conclude
    <3>5. VerdictTrue'
      BY <3>2, <3>3, <3>4, SameEvent DEF VerdictTrue
    <3> QED BY <3>4, <3>5 DEF VerificationTrue, InOracleBranch
  <2> QED BY <2>2, <2>3
<1>2. CASE pc = "origin"
  <2>1. Conclude(OriginOk(wanted))
    BY <1>2 DEF TransactionArrives
  <2>2. /\ EmittedBy("submitReportData", transactionHash[event])
        /\ report = reportOf[transactionHash[event]]
        /\ wanted \in LogsInFrame(blockNumber[event], report)
    BY <1>2 DEF VerificationTrue, InOracleBranch
  <2>3. Confirmed(event) => OriginOk(wanted)
    BY <2>2, ConfirmedByReport
    DEF TypeOK, ConfirmedReport, Reporting, OriginOk, verifyTransactionIntegrity, prepareTransactionData, recoverAddress
  <2>4. OriginOk(wanted) => SubmittedInFrame(event)
    <3>1. OriginOk(wanted) => Reporting(wanted, report)
      BY TxsAssumption
      DEF TypeOK, OriginOk, Reporting, verifyTransactionIntegrity, prepareTransactionData, recoverAddress
    <3>2. Names(event, report)
      BY <1>2 DEF GenuineInv, InOracleBranch
    <3> QED BY <2>2, <3>1, <3>2 DEF SubmittedInFrame
  <2>5. /\ pc' = "idle" /\ event' = event
        /\ verdict' = "rejected" => ~OriginOk(wanted)
        /\ verdict' = "accepted" => OriginOk(wanted)
    BY <2>1 DEF Conclude
  <2>6. VerdictTrue'
    BY <2>3, <2>4, <2>5, SameEvent DEF VerdictTrue
  <2> QED BY <2>5, <2>6 DEF VerificationTrue, InOracleBranch
<1> QED BY <1>1, <1>2 DEF AtTransaction

-----------------------------------------------------------------------------
(* One lemma per action *)

LEMMA VerifyEventInv ==
  ASSUME Inv, NEW e \in Events, verifyEvent(e) PROVE Inv'
<1>1. TypeOK'
  <2>1. transactionHash[e] \in Txs /\ 0 \in 0 .. blockNumber[e] + Step
    BY EventsAssumption, NumbersAssumption
  <2> QED BY <2>1 DEF Inv, TypeOK, verifyEvent, cacheVars
<1>2. GenuineInv'
  BY DEF verifyEvent, GenuineInv, InOracleBranch, AcceptedIsGenuine
<1>3. TruthInv'
  <2>1. CachesTrue => CachesTrue'
    BY DEF verifyEvent, cacheVars, CachesTrue
  <2> QED BY <2>1 DEF Inv, verifyEvent, TruthInv, VerdictTrue, InOracleBranch
<1> QED BY <1>1, <1>2, <1>3 DEF Inv

LEMMA CachedTransactionInv ==
  ASSUME Inv, CachedTransaction PROVE Inv'
<1> DEFINE tx == transactionCache[wanted]
<1>1. tx \in Txs /\ AtTransaction /\ TransactionArrives(tx) /\ TypeOK /\ GenuineInv
  BY DEF CachedTransaction, Inv, TypeOK
<1>2. TypeOK'
  BY <1>1, ArrivesType DEF CachedTransaction, cacheVars, TypeOK
<1>3. GenuineInv'
  BY <1>1, ArrivesGenuine
<1>4. ASSUME lies' = 0 PROVE CachesTrue' /\ VerificationTrue'
  <2>1. lies = 0 /\ CachesTrue /\ VerificationTrue
    BY <1>4 DEF CachedTransaction, Inv, TruthInv, VerificationTrue
  <2>2. tx = wanted
    BY <1>1, <2>1, TxsAssumption DEF CachesTrue, TypeOK
  <2>3. VerificationTrue'
    BY <1>1, <2>1, <2>2, ArrivesTrue DEF CachedTransaction
  <2> QED BY <2>1, <2>3 DEF CachedTransaction, cacheVars, CachesTrue
<1> QED BY <1>2, <1>3, <1>4 DEF Inv, TruthInv, VerificationTrue

LEMMA FetchTransactionInv ==
  ASSUME Inv, FetchTransaction PROVE Inv'
<1>1. PICK hash \in Txs, tx \in Txs :
        /\ Lie(hash # wanted \/ tx # wanted)
        /\ transactionCache' \in Stored(transactionCache, hash, tx)
        /\ TransactionArrives(tx)
  BY DEF FetchTransaction
<1>2. /\ TypeOK /\ GenuineInv /\ AtTransaction
      /\ consensusCache' = consensusCache /\ failed' = failed
  BY DEF FetchTransaction, Inv
<1>3. /\ lies' \in 0 .. MaxLies
      /\ lies' = 0 => lies = 0 /\ hash = wanted /\ tx = wanted
  BY <1>1, <1>2, LieSteps
<1>4. /\ transactionCache' \in [Txs -> Txs \cup {None}]
      /\ \A t \in Txs : \/ transactionCache'[t] = transactionCache[t]
                        \/ transactionCache'[t] = None
                        \/ t = hash /\ transactionCache'[t] = tx
  <2>1. transactionCache \in [Txs -> Txs \cup {None}]
    BY <1>2 DEF TypeOK
  <2> QED BY <1>1, <2>1, StoredEntries
<1>5. TypeOK'
  BY <1>1, <1>2, <1>3, <1>4, ArrivesType DEF TypeOK
<1>6. GenuineInv'
  BY <1>1, <1>2, ArrivesGenuine
<1>7. ASSUME lies' = 0 PROVE CachesTrue' /\ VerificationTrue'
  <2>1. lies = 0 /\ CachesTrue /\ VerificationTrue
    BY <1>3, <1>7 DEF Inv, TruthInv, VerificationTrue
  <2>2. VerificationTrue'
    BY <1>1, <1>2, <1>3, <1>7, <2>1, ArrivesTrue
  <2>3. \A t \in Txs : transactionCache'[t] \in {t, None}
    BY <1>3, <1>4, <1>7, <2>1 DEF CachesTrue
  <2> QED BY <1>2, <2>1, <2>2, <2>3 DEF CachesTrue
<1> QED BY <1>5, <1>6, <1>7 DEF Inv, TruthInv, VerificationTrue

(* A verification that concludes without an arrival is a rejection.        *)
LEMMA RejectInv ==
  ASSUME Inv, Conclude(FALSE), UNCHANGED cacheVars, lies' = lies,
         failed' \in BOOLEAN,
         lies = 0 /\ Confirmed(event) => failed'
  PROVE  Inv'
<1>1. TypeOK'
  BY DEF Inv, TypeOK, Conclude, searchVars, cacheVars
<1>2. pc' = "idle" /\ event' = event /\ verdict' = "rejected"
  BY DEF Conclude
<1>3. GenuineInv'
  BY <1>2 DEF GenuineInv, InOracleBranch, AcceptedIsGenuine
<1>4. CachesTrue => CachesTrue'
  BY DEF cacheVars, CachesTrue
<1>5. lies = 0 => VerdictTrue'
  BY <1>2, SameEvent DEF VerdictTrue
<1>6. TruthInv'
  BY <1>2, <1>4, <1>5 DEF Inv, TruthInv, InOracleBranch
<1> QED BY <1>1, <1>3, <1>6 DEF Inv

LEMMA RequestFailsInv ==
  ASSUME Inv, RequestFails PROVE Inv'
  BY RejectInv DEF RequestFails

LEMMA LookUpConsensusInv ==
  ASSUME Inv, LookUpConsensus PROVE Inv'
<1> DEFINE cached == consensusCache[<<blockNumber[event], report>>]
<1>1. /\ TypeOK /\ pc = "consensus" /\ event \in Events /\ report \in Reports
      /\ UNCHANGED <<transactionCache, consensusCache, failed, lies>>
  BY DEF LookUpConsensus, Inv, TypeOK, cacheVars
<1>2. CASE cached # None
  <2>1. /\ pc' = "origin" /\ wanted' = cached
        /\ UNCHANGED <<event, report, from, found, verdict>>
    BY <1>2 DEF LookUpConsensus, consensusKey, searchVars
  <2>2. cached \in Txs
    BY <1>1, <1>2, KeysOfEvents DEF TypeOK
  <2>3. TypeOK'
    BY <1>1, <2>1, <2>2 DEF TypeOK
  <2>4. GenuineInv'
    BY <1>1, <2>1
    DEF Inv, GenuineInv, InOracleBranch, Names, AcceptedIsGenuine, Genuine,
        GenuineSubmission, SignedReport, EmittedBy
  <2>5. TruthInv'
    <3>1. ASSUME lies = 0
          PROVE  /\ CachesTrue
                 /\ EmittedBy("submitReportData", transactionHash[event])
                 /\ report = reportOf[transactionHash[event]]
                 /\ VerdictTrue
      BY <1>1, <3>1 DEF Inv, TruthInv, InOracleBranch
    <3>2. lies = 0 => cached \in LogsInFrame(blockNumber[event], report)
      BY <1>1, <1>2, <3>1, KeysOfEvents DEF CachesTrue
    <3>3. VerdictTrue' = VerdictTrue
      BY <1>1, <2>1, SameVerdict
    <3>4. CachesTrue => CachesTrue'
      BY <1>1 DEF CachesTrue
    <3>5. EmittedBy("submitReportData", transactionHash[event])'
            = EmittedBy("submitReportData", transactionHash[event])
      BY <2>1, SameEvent
    <3> QED BY <1>1, <2>1, <3>1, <3>2, <3>3, <3>4, <3>5 DEF TruthInv
  <2> QED BY <2>3, <2>4, <2>5 DEF Inv
<1>3. CASE cached = None /\ Refused
  <2>1. Conclude(FALSE)
    BY <1>3 DEF LookUpConsensus, consensusKey
  <2>2. ASSUME lies = 0, Confirmed(event) PROVE FALSE
    <3>1. ConfirmedReport(event)
      BY <1>1, <2>2, ConfirmedByReport DEF Inv, TruthInv, InOracleBranch
    <3> QED BY <1>1, <1>3, <3>1, EventsAssumption, NumbersAssumption
            DEF ConfirmedReport, Refused, frameStart
  <2> QED BY <1>1, <2>1, <2>2, RejectInv DEF TypeOK, cacheVars
<1>4. CASE cached = None /\ ~Refused
  <2>1. /\ pc' = "search" /\ from' = frameStart
        /\ UNCHANGED <<event, wanted, report, found, verdict>>
    BY <1>4 DEF LookUpConsensus, consensusKey
  <2>2. blockNumber[event] \in Nat
    BY <1>1, EventsAssumption
  <2>3. frameStart \in 0 .. blockNumber[event] + Step
    BY <1>4, <2>2, NumbersAssumption DEF Refused, frameStart
  <2>4. TypeOK'
    BY <1>1, <2>1, <2>3 DEF TypeOK
  <2>5. GenuineInv'
    BY <1>1, <2>1
    DEF Inv, GenuineInv, InOracleBranch, Names, AcceptedIsGenuine, Genuine,
        GenuineSubmission, SignedReport, EmittedBy
  <2>6. TruthInv'
    <3>1. ASSUME lies = 0
          PROVE  /\ CachesTrue
                 /\ EmittedBy("submitReportData", transactionHash[event])
                 /\ report = reportOf[transactionHash[event]]
                 /\ VerdictTrue
      BY <1>1, <3>1 DEF Inv, TruthInv, InOracleBranch
    <3>2. VerdictTrue' = VerdictTrue
      BY <1>1, <2>1, SameVerdict
    <3>3. CachesTrue => CachesTrue'
      BY <1>1 DEF CachesTrue
    <3>4. EmittedBy("submitReportData", transactionHash[event])'
            = EmittedBy("submitReportData", transactionHash[event])
      BY <2>1, SameEvent
    <3>5. SearchTrue'
      <4>1. found' = None /\ frameStart' = frameStart /\ from' = frameStart
        BY <1>1, <2>1 DEF Inv, GenuineInv, frameStart
      <4>2. \A t \in LogsInFrame(blockNumber[event], report) : minedIn[t] >= frameStart
        BY DEF LogsInFrame, frameStart
      <4> QED BY <2>1, <2>3, <4>1, <4>2 DEF SearchTrue
    <3> QED BY <1>1, <2>1, <3>1, <3>2, <3>3, <3>4, <3>5 DEF TruthInv
  <2> QED BY <2>4, <2>5, <2>6 DEF Inv
<1> QED BY <1>2, <1>3, <1>4

LEMMA SearchRangeInv ==
  ASSUME Inv, SearchRange PROVE Inv'
<1>1. PICK t \in Txs \cup {None} :
        /\ Lie(IF t = None THEN LogsInRange # {} ELSE t \notin LogsInRange)
        /\ found' = IF found = None THEN t ELSE found
  BY DEF SearchRange
<1>2. /\ TypeOK /\ event \in Events /\ pc = "search" /\ from \in Nat
      /\ from <= blockNumber[event] /\ from' = from + Step
      /\ UNCHANGED <<transactionCache, consensusCache, pc, event, wanted, report, verdict, failed>>
  BY DEF SearchRange, Inv, TypeOK, NextRange, cacheVars
<1>3. /\ lies' \in 0 .. MaxLies
      /\ lies' = 0 => /\ lies = 0
                      /\ t = None => LogsInRange = {}
                      /\ t # None => t \in LogsInRange
  BY <1>1, <1>2, LieSteps
<1>4. blockNumber[event] \in Nat /\ Step \in Nat \ {0}
  BY <1>2, EventsAssumption, NumbersAssumption
<1>5. from' \in 0 .. blockNumber[event] + Step
  BY <1>2, <1>4
<1>6. TypeOK'
  BY <1>1, <1>2, <1>3, <1>5 DEF TypeOK
<1>7. GenuineInv'
  BY <1>2
  DEF Inv, GenuineInv, InOracleBranch, Names, AcceptedIsGenuine, Genuine,
      GenuineSubmission, SignedReport, EmittedBy
<1>8. TruthInv'
  <2>1. ASSUME lies' = 0
        PROVE  /\ CachesTrue /\ SearchTrue
               /\ EmittedBy("submitReportData", transactionHash[event])
               /\ report = reportOf[transactionHash[event]]
               /\ VerdictTrue
    BY <1>2, <1>3, <2>1 DEF Inv, TruthInv, InOracleBranch
  <2>2. VerdictTrue' = VerdictTrue
    BY <1>2, SameVerdict
  <2>3. CachesTrue => CachesTrue'
    BY <1>2 DEF CachesTrue
  <2>4. EmittedBy("submitReportData", transactionHash[event])'
          = EmittedBy("submitReportData", transactionHash[event])
    BY <1>2, SameEvent
  <2>5. ASSUME lies' = 0 PROVE SearchTrue'
    <3>1. 0 <= frameStart /\ frameStart <= from' /\ frameStart' = frameStart
      BY <1>2, <1>4, <2>1, <2>5, NumbersAssumption DEF SearchTrue, frameStart
    <3>2. LogsInFrame(blockNumber[event], report)' = LogsInFrame(blockNumber[event], report)
      BY <1>2 DEF LogsInFrame
    <3>3. ReachedBy[report] \subseteq Txs /\ minedIn \in [Txs -> Nat]
      BY <1>2, TxsAssumption DEF TypeOK
    <3>4. CASE found = None /\ t # None
      <4>1. t \in LogsInRange /\ found' = t
        BY <1>1, <1>3, <2>5, <3>4
      <4>2. from >= frameStart
        BY <2>1, <2>5, <3>1 DEF SearchTrue, frameStart
      <4>3. t \in LogsInFrame(blockNumber[event], report)
        BY <1>2, <1>4, <3>3, <4>1, <4>2, NumbersAssumption
        DEF LogsInRange, LogsInFrame, frameStart
      <4> QED BY <3>1, <3>2, <3>4, <4>1, <4>3 DEF SearchTrue
    <3>5. CASE found = None /\ t = None
      <4>1. LogsInRange = {} /\ found' = None
        BY <1>1, <1>3, <2>5, <3>5
      <4>2. \A u \in LogsInFrame(blockNumber[event], report) : minedIn[u] >= from
        BY <2>1, <2>5, <3>5 DEF SearchTrue
      <4>3. \A u \in LogsInFrame(blockNumber[event], report) : minedIn[u] >= from'
        BY <1>2, <1>4, <3>3, <4>1, <4>2 DEF LogsInFrame, LogsInRange
      <4> QED BY <3>1, <3>2, <4>1, <4>3, <1>2 DEF SearchTrue
    <3>6. CASE found # None
      BY <1>1, <2>1, <2>5, <3>1, <3>2, <3>6 DEF SearchTrue
    <3> QED BY <3>4, <3>5, <3>6
  <2> QED BY <1>2, <2>1, <2>2, <2>3, <2>4, <2>5 DEF TruthInv
<1> QED BY <1>6, <1>7, <1>8 DEF Inv

LEMMA EndSearchInv ==
  ASSUME Inv, EndSearch PROVE Inv'
<1>1. /\ TypeOK /\ event \in Events /\ report \in Reports
      /\ pc = "search" /\ from > blockNumber[event]
      /\ UNCHANGED <<transactionCache, failed, lies>>
  BY DEF EndSearch, Inv, TypeOK
<1>2. ASSUME lies = 0
      PROVE  /\ CachesTrue /\ SearchTrue
             /\ EmittedBy("submitReportData", transactionHash[event])
             /\ report = reportOf[transactionHash[event]]
             /\ VerdictTrue
  BY <1>1, <1>2 DEF Inv, TruthInv, InOracleBranch
<1>3. CASE found = None
  <2>1. Conclude(FALSE) /\ UNCHANGED cacheVars
    BY <1>1, <1>3 DEF EndSearch, cacheVars
  <2>2. ASSUME lies = 0, Confirmed(event) PROVE FALSE
    <3>1. ConfirmedReport(event)
      BY <1>1, <1>2, <2>2, ConfirmedByReport
    <3>2. PICK u \in LogsInFrame(blockNumber[event], report) : TRUE
      BY <1>2, <2>2, <3>1 DEF ConfirmedReport
    <3>3. minedIn[u] >= from /\ minedIn[u] <= blockNumber[event] /\ minedIn[u] \in Nat
      BY <1>1, <1>2, <1>3, <2>2, <3>2, TxsAssumption DEF SearchTrue, LogsInFrame
    <3> QED BY <1>1, <3>3, EventsAssumption DEF TypeOK
  <2> QED BY <1>1, <2>1, <2>2, RejectInv DEF TypeOK
<1>4. CASE found # None
  <2> DEFINE key == <<blockNumber[event], report>>
  <2>1. /\ consensusCache' \in Stored(consensusCache, key, found)
        /\ pc' = "origin" /\ wanted' = found
        /\ UNCHANGED <<event, report, from, found, verdict>>
    BY <1>4 DEF EndSearch, consensusKey, searchVars
  <2>2. found \in Txs /\ key \in Keys /\ consensusCache \in [Keys -> Txs \cup {None}]
    BY <1>1, <1>4, KeysOfEvents DEF TypeOK
  <2>3. /\ consensusCache' \in [Keys -> Txs \cup {None}]
        /\ \A k \in Keys : \/ consensusCache'[k] = consensusCache[k]
                           \/ consensusCache'[k] = None
                           \/ k = key /\ consensusCache'[k] = found
    BY <2>1, <2>2, StoredEntries
  <2>4. TypeOK'
    BY <1>1, <2>1, <2>2, <2>3 DEF TypeOK
  <2>5. GenuineInv'
    BY <1>1, <2>1
    DEF Inv, GenuineInv, InOracleBranch, Names, AcceptedIsGenuine, Genuine,
        GenuineSubmission, SignedReport, EmittedBy
  <2>6. TruthInv'
    <3>1. lies = 0 => found \in LogsInFrame(blockNumber[event], report)
      BY <1>2, <1>4 DEF SearchTrue
    <3>2. ASSUME lies = 0 PROVE CachesTrue'
      <4>1. ASSUME NEW b \in Blocks, NEW r \in Reports
            PROVE  consensusCache'[<<b, r>>] \in LogsInFrame(b, r) \cup {None}
        <5>1. <<b, r>> \in Keys /\ consensusCache[<<b, r>>] \in LogsInFrame(b, r) \cup {None}
          BY <1>2, <3>2 DEF CachesTrue, Keys
        <5>2. CASE <<b, r>> = key /\ consensusCache'[<<b, r>>] = found
          <6>1. b = blockNumber[event] /\ r = report
            BY <5>2
          <6> QED BY <3>1, <3>2, <5>2, <6>1
        <5> QED BY <2>3, <5>1, <5>2
      <4> QED BY <1>1, <1>2, <3>2, <4>1 DEF CachesTrue
    <3>3. VerdictTrue' = VerdictTrue
      BY <1>1, <2>1, SameVerdict
    <3>4. EmittedBy("submitReportData", transactionHash[event])'
            = EmittedBy("submitReportData", transactionHash[event])
      BY <2>1, SameEvent
    <3> QED BY <1>1, <1>2, <2>1, <3>1, <3>2, <3>3, <3>4 DEF TruthInv
  <2> QED BY <2>4, <2>5, <2>6 DEF Inv
<1> QED BY <1>3, <1>4

LEMMA RestartInv ==
  ASSUME Inv, Restart PROVE Inv'
<1>1. TypeOK'
  <2>1. 0 \in 0 .. MaxLies
    BY NumbersAssumption
  <2>2. /\ transactionCache' \in [Txs -> Txs \cup {None}]
        /\ consensusCache' \in [Keys -> Txs \cup {None}]
    BY DEF Restart
  <2> QED BY <2>1, <2>2 DEF Inv, TypeOK, Restart, searchVars
<1>2. GenuineInv'
  BY DEF Restart, GenuineInv, InOracleBranch, AcceptedIsGenuine
<1>3. CachesTrue'
  BY DEF Restart, CachesTrue, Keys
<1> QED BY <1>1, <1>2, <1>3 DEF Inv, Restart, TruthInv, VerdictTrue, InOracleBranch

LEMMA StepInv == Inv /\ [Next]_vars => Inv'
<1> SUFFICES ASSUME Inv, [Next]_vars PROVE Inv'
  OBVIOUS
<1>1. ASSUME NEW e \in Events, verifyEvent(e) PROVE Inv'
  BY <1>1, VerifyEventInv
<1>2. CASE Answered
  BY <1>2, CachedTransactionInv, FetchTransactionInv, LookUpConsensusInv,
     SearchRangeInv, EndSearchInv DEF Answered
<1>3. CASE RequestFails
  BY <1>3, RequestFailsInv
<1>4. CASE Restart
  BY <1>4, RestartInv
<1>5. CASE UNCHANGED vars
  <2>1. TypeOK'
    BY <1>5 DEF vars, cacheVars, searchVars, Inv, TypeOK
  <2>2. GenuineInv'
    BY <1>5
    DEF vars, cacheVars, searchVars, Inv, GenuineInv, InOracleBranch, Names,
        AcceptedIsGenuine, Genuine, GenuineSubmission, SignedReport, EmittedBy
  <2>3. TruthInv'
    BY <1>5
    DEF vars, cacheVars, searchVars, Inv, TruthInv, CachesTrue, SearchTrue, frameStart,
        LogsInFrame, InOracleBranch, VerdictTrue, Confirmed, ConfirmedReport,
        SubmittedInFrame, GenuineSubmission, Names, EmittedBy
  <2> QED BY <2>1, <2>2, <2>3 DEF Inv
<1> QED BY <1>1, <1>2, <1>3, <1>4, <1>5 DEF Next

LEMMA InvAlways == Spec => []Inv
  BY InitInv, StepInv, PTL DEF Spec

(* Every variable stays in its set: no search begins below block zero, and *)
(* none reads more than one range behind the block of the event.           *)
THEOREM TypeCorrect == Spec => []TypeOK
<1>1. Inv => TypeOK
  BY DEF Inv
<1> QED BY <1>1, InvAlways, PTL

(* However nodes lie, and whatever is left of it in the caches, what       *)
(* verifyEvent accepts an allowlisted oracle or submission vouches for.    *)
THEOREM AcceptedIsGenuineAlways == Spec => []AcceptedIsGenuine
<1>1. Inv => AcceptedIsGenuine
  BY DEF Inv, GenuineInv
<1> QED BY <1>1, InvAlways, PTL

(* For any frame, range and cache size, a request that the chain confirms  *)
(* is rejected only when a request failed or a node lied.                  *)
THEOREM RejectedForCauseAlways == Spec => []RejectedForCause
<1>1. Inv => RejectedForCause
  BY NumbersAssumption DEF Inv, TruthInv, VerdictTrue, RejectedForCause, TypeOK
<1> QED BY <1>1, InvAlways, PTL

(* For any frame, cache size and order of requests: while no node lies,    *)
(* what is accepted came with data that was reported in the frame of its   *)
(* own block, or that is allowlisted.                                      *)
THEOREM AcceptedInFrameAlways == Spec => []AcceptedInFrame
<1>1. Inv => AcceptedInFrame
  BY DEF Inv, TruthInv, VerdictTrue, AcceptedInFrame
<1> QED BY <1>1, InvAlways, PTL
=============================================================================
