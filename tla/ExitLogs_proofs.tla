-------------------------- MODULE ExitLogs_proofs --------------------------
(***************************************************************************)
(* Theorems about ExitLogs, for every set of events, every scope, preload, *)
(* step and chain height, and every lag and fault its constants allow.     *)
(***************************************************************************)
EXTENDS ExitLogs, TLAPS

(* Every variable stays in its set: in particular the scan never computes  *)
(* a negative block, nor a header beyond the finalized chain.              *)
THEOREM TypeCorrect == Spec => []TypeOK
<1> USE NumbersAssumption, EventsAssumption, ModesAssumption, ScopeAssumption
<1>1. Init => TypeOK
  BY DEF Init, TypeOK, NoEvents, Unmined, NoBlock
<1>2. TypeOK /\ [Next]_vars => TypeOK'
  <2> SUFFICES ASSUME TypeOK, [Next]_vars PROVE TypeOK'
    OBVIOUS
  <2> USE DEF TypeOK
  <2>1. CASE Mine
    BY <2>1 DEF Mine, scanVars, chunkVars, Unmined
  <2>2. ASSUME NEW last \in FinalizedAnswers, Start(last) PROVE TypeOK'
    <3>1. last \in 0 .. MaxBlock
      BY <2>2 DEF FinalizedAnswers
    <3>2. blockFrom(last) \in Nat
      BY <3>1 DEF blockFrom, Max, NoBlock
    <3>3. Max(newest, last) \in {NoBlock} \cup 0 .. MaxBlock
      BY <3>1 DEF Max, NoBlock
    <3>4. CASE ~FullyCached(last) /\ blockFrom(last) <= last
      BY <2>2, <3>1, <3>2, <3>3, <3>4 DEF Start, chainVars, NoEvents
    <3>5. CASE ~(~FullyCached(last) /\ blockFrom(last) <= last)
      BY <2>2, <3>3, <3>5 DEF Start, chainVars, scanVars, chunkVars
    <3> QED BY <3>4, <3>5
  <2>3. CASE FetchEntry
    <3>1. logs' \in [Events -> Nat] /\ missed' \subseteq Events
      <4>1. PICK lag \in 0 .. LogsLag :
              /\ logs' = [e \in Events |-> IF e \in Matching /\ blockOf[e] <= height - lag
                                          THEN logs[e] + 1 ELSE logs[e]]
              /\ missed' = missed \cup {e \in Matching : blockOf[e] > height - lag}
        BY <2>3 DEF FetchEntry
      <4>2. Matching \subseteq Events
        BY DEF Matching
      <4> QED BY <4>1, <4>2
    <3> QED BY <2>3, <3>1 DEF FetchEntry, chainVars, scanVars
  <2>4. CASE ValidatePublicKeys
    <3>1. PICK unknown \in SUBSET LateValidators :
            /\ logs' = [e \in Events |-> IF ValidatorOf[e] \in validIndices \ unknown THEN logs[e] ELSE 0]
            /\ missed' = missed \cup {e \in Events : /\ logs[e] > 0
                                                     /\ ValidatorOf[e] \in validIndices \cap unknown}
      BY <2>4 DEF ValidatePublicKeys
    <3>2. logs' \in [Events -> Nat] /\ missed' \subseteq Events
      BY <3>1
    <3>3. pc' = "verify" /\ UNCHANGED <<blockOf, height, cache, endBlock, block, blockTo, entry,
                                        verified, faults, newest>>
      BY <2>4 DEF ValidatePublicKeys, chainVars, scanVars
    <3> QED BY <3>2, <3>3
  <2>5. ASSUME NEW e \in Events, VerifyEvent(e) PROVE TypeOK'
    BY <2>5 DEF VerifyEvent, chainVars, scanVars
  <2>6. CASE CommitChunk
    <3>1. currentBlockTo \in 0 .. MaxBlock
      BY DEF currentBlockTo, Min
    <3>2. block + Step \in Nat
      OBVIOUS
    <3> QED BY <2>6, <3>1, <3>2 DEF CommitChunk, Push, SetHeader, chainVars, NoEvents
  <2>7. CASE FailScan
    BY <2>7 DEF FailScan, chainVars, scanVars, chunkVars
  <2>8. CASE Restart
    BY <2>8 DEF Restart, chainVars, NoEvents, NoBlock
  <2>9. CASE UNCHANGED vars
    BY <2>9 DEF vars
  <2> QED BY <2>1, <2>2, <2>3, <2>4, <2>5, <2>6, <2>7, <2>8, <2>9 DEF Next, Scan
<1> QED BY <1>1, <1>2, PTL DEF Spec

-----------------------------------------------------------------------------
(* The chunk in hand lies within the scan, and at least one block of it is *)
(* left: what every step of the fetcher relies on.                         *)
LEMMA ChunkBounds ==
  ASSUME TypeOK, ScanRange, pc # "idle"
  PROVE  /\ currentBlockTo \in block .. blockTo
         /\ currentBlockTo \in 0 .. height
         /\ currentBlockTo < block + Step
BY NumbersAssumption DEF TypeOK, ScanRange, currentBlockTo, Min

(* A scan that starts at all starts above the header, whatever block the   *)
(* answering endpoint takes for the finalized one.                         *)
LEMMA StartBounds ==
  ASSUME TypeOK, NEW last \in FinalizedAnswers
  PROVE  /\ last \in 0 .. height
         /\ blockFrom(last) \in Nat
         /\ endBlock < blockFrom(last)
BY NumbersAssumption DEF TypeOK, FinalizedAnswers, blockFrom, Max, NoBlock

(* What the invariant says of one event while a chunk is in hand. *)
LEMMA OneEvent ==
  ASSUME TypeOK, SafetyInv, pc # "idle", NEW e \in Events
  PROVE  /\ logs[e] \in Nat /\ verified[e] \in Nat /\ cache[e] \in Nat
         /\ logs[e] + verified[e] <= 1
         /\ InHand(e) => InChunk(e) /\ InScope(e)
         /\ verified[e] > 0 => Accepted(e)
         /\ cache[e] <= 1
         /\ cache[e] > 0 => blockOf[e] \in 0 .. endBlock
BY DEF TypeOK, SafetyInv, ChunkInv, NoDuplicates, CacheAuthentic

(* The safety invariant is inductive.                                      *)
LEMMA SafetyInvInductive ==
  ASSUME TypeOK, TypeOK', SafetyInv, [Next]_vars
  PROVE  SafetyInv'
<1> USE NumbersAssumption, EventsAssumption, ModesAssumption, ScopeAssumption
<1> USE DEF TypeOK, SafetyInv, ScanRange, ChunkInv, KeyInv, NoDuplicates, CacheAuthentic,
            InHand, InChunk, Unmined, NoBlock
<1>1. CASE Mine
  <2>1. PICK S \in SUBSET {e \in Events : blockOf[e] = Unmined} :
          blockOf' = [e \in Events |-> IF e \in S THEN height + 1 ELSE blockOf[e]]
    BY <1>1 DEF Mine
  <2>2. \A e \in Events : blockOf[e] >= 0 => blockOf'[e] = blockOf[e]
    BY <2>1 DEF Unmined
  <2>3. /\ height' = height + 1
        /\ UNCHANGED <<cache, endBlock, pc, block, blockTo, entry, logs, verified>>
    BY <1>1 DEF Mine, scanVars, chunkVars
  <2>4. currentBlockTo' = currentBlockTo
    BY <2>3 DEF currentBlockTo
  <2>5. ScanRange'
    BY <2>1, <2>3
  <2>6. ChunkInv'
    <3>1. ASSUME pc # "idle", NEW e \in Events, InHand(e) PROVE InChunk(e)'
      <4>1. blockOf[e] \in block .. currentBlockTo
        BY <3>1
      <4>2. blockOf'[e] = blockOf[e]
        BY <2>2, <4>1
      <4> QED BY <2>3, <2>4, <4>1, <4>2
    <3> QED BY <2>3, <3>1 DEF InScope, Accepted
  <2>7. KeyInv'
    BY <2>2, <2>3, <2>4 DEF InScope
  <2>8. NoDuplicates' /\ CacheAuthentic'
    BY <2>2, <2>3 DEF InScope, Accepted
  <2> QED BY <2>5, <2>6, <2>7, <2>8
<1>2. ASSUME NEW last \in FinalizedAnswers, Start(last) PROVE SafetyInv'
  <2>1. UNCHANGED <<blockOf, height, cache, endBlock>>
    BY <1>2 DEF Start, chainVars
  <2>2. NoDuplicates' /\ CacheAuthentic'
    BY <2>1 DEF InScope, Accepted
  <2>3. CASE ~FullyCached(last) /\ blockFrom(last) <= last
    <3>1. /\ pc' = "fetch" /\ block' = blockFrom(last) /\ blockTo' = last
          /\ entry' = 1 /\ logs' = NoEvents /\ verified' = NoEvents
      BY <1>2, <2>3 DEF Start
    <3>2. ScanRange'
      BY <2>1, <2>3, <3>1, StartBounds
    <3>3. ChunkInv' /\ KeyInv'
      BY <3>1 DEF NoEvents
    <3> QED BY <2>2, <3>2, <3>3
  <2>4. CASE ~(~FullyCached(last) /\ blockFrom(last) <= last)
    <3>1. UNCHANGED <<pc, block, blockTo, entry, logs, verified>>
      BY <1>2, <2>4 DEF Start, scanVars, chunkVars
    <3> QED BY <2>1, <2>2, <3>1 DEF currentBlockTo, InScope, Accepted
  <2> QED BY <2>3, <2>4
<1>3. CASE FetchEntry
  <2>1. PICK lag \in 0 .. LogsLag :
          /\ logs' = [e \in Events |-> IF e \in Matching /\ blockOf[e] <= height - lag
                                      THEN logs[e] + 1 ELSE logs[e]]
          /\ missed' = missed \cup {e \in Matching : blockOf[e] > height - lag}
    BY <1>3 DEF FetchEntry
  <2>2. /\ pc = "fetch" /\ entry <= ScopeSize /\ entry' = entry + 1
        /\ UNCHANGED <<blockOf, height, cache, endBlock, pc, block, blockTo, verified>>
    BY <1>3 DEF FetchEntry, chainVars, scanVars
  <2>3. currentBlockTo' = currentBlockTo
    BY <2>2 DEF currentBlockTo
  <2>4. ASSUME NEW e \in Events
        PROVE  /\ logs'[e] + verified'[e] <= 1
               /\ InHand(e)' => InChunk(e)' /\ InScope(e)
               /\ verified'[e] = 0
               /\ logs'[e] > 0 => \E i \in 1 .. entry' - 1 : OperatorOf[e] \in EjectorScope[i]
    <3>1. CASE /\ OperatorOf[e] \in EjectorScope[entry]
               /\ blockOf[e] \in block .. currentBlockTo
               /\ blockOf[e] <= height - lag
      <4> e \in Matching
        BY <3>1 DEF Matching
      <4>1. \A i \in 1 .. entry - 1 : OperatorOf[e] \notin EjectorScope[i]
        BY <2>2, <3>1
      <4>2. logs[e] = 0 /\ verified[e] = 0
        BY <2>2, <4>1
      <4>3. logs'[e] = 1 /\ entry \in 1 .. entry' - 1
        BY <2>1, <2>2, <3>1, <4>2
      <4>4. InScope(e)
        BY <2>2, <3>1 DEF InScope
      <4>5. InChunk(e)'
        BY <2>2, <2>3, <3>1
      <4>6. logs'[e] + verified'[e] <= 1 /\ verified'[e] = 0
        BY <2>2, <4>2, <4>3
      <4> QED BY <3>1, <4>3, <4>4, <4>5, <4>6
    <3>2. CASE ~(/\ OperatorOf[e] \in EjectorScope[entry]
                 /\ blockOf[e] \in block .. currentBlockTo
                 /\ blockOf[e] <= height - lag)
      <4>1. logs'[e] = logs[e]
        BY <2>1, <3>2 DEF Matching
      <4> QED BY <2>2, <2>3, <4>1
    <3> QED BY <3>1, <3>2
  <2>5. ScanRange'
    BY <2>2
  <2>6. ChunkInv'
    BY <2>2, <2>4 DEF InScope
  <2>7. KeyInv' /\ NoDuplicates' /\ CacheAuthentic'
    BY <2>2 DEF InScope, Accepted
  <2> QED BY <2>5, <2>6, <2>7
<1>4. CASE ValidatePublicKeys
  <2>0. PICK unknown \in SUBSET LateValidators :
          /\ logs' = [e \in Events |-> IF ValidatorOf[e] \in validIndices \ unknown THEN logs[e] ELSE 0]
          /\ missed' = missed \cup {e \in Events : /\ logs[e] > 0
                                                   /\ ValidatorOf[e] \in validIndices \cap unknown}
    BY <1>4 DEF ValidatePublicKeys
  <2>1. /\ pc = "fetch" /\ pc' = "verify"
        /\ logs' = [e \in Events |-> IF ValidatorOf[e] \in validIndices \ unknown THEN logs[e] ELSE 0]
        /\ UNCHANGED <<blockOf, height, cache, endBlock, block, blockTo, entry, verified>>
    BY <1>4, <2>0 DEF ValidatePublicKeys, chainVars, scanVars
  <2>2. currentBlockTo' = currentBlockTo
    BY <2>1 DEF currentBlockTo
  <2>3. ScanRange' /\ NoDuplicates' /\ CacheAuthentic'
    BY <2>1 DEF InScope, Accepted
  <2>4. \A e \in Events : logs'[e] <= logs[e] /\ verified'[e] = 0
    BY <2>1
  <2>5. ChunkInv'
    BY <2>1, <2>2, <2>4 DEF InScope
  <2>6. ASSUME NEW e \in Events, InHand(e)'
        PROVE  \E k \in KeyOk :
                 ValidatorOf[k] = ValidatorOf[e] /\ InScope(k) /\ InChunk(k)'
    <3>1. ValidatorOf[e] \in validIndices
      BY <2>1, <2>4, <2>6
    <3>2. PICK k \in KeyOk : logs[k] > 0 /\ ValidatorOf[k] = ValidatorOf[e]
      BY <3>1 DEF validIndices
    <3>3. InChunk(k) /\ InScope(k)
      BY <2>1, <3>2
    <3> QED BY <2>1, <2>2, <3>2, <3>3
  <2>7. KeyInv'
    BY <2>6 DEF InScope
  <2> QED BY <2>3, <2>5, <2>7
<1>5. ASSUME NEW x \in Events, VerifyEvent(x) PROVE SafetyInv'
  <2>1. /\ pc = "verify" /\ logs[x] > 0
        /\ logs' = [logs EXCEPT ![x] = @ - 1]
        /\ UNCHANGED <<blockOf, height, cache, endBlock, pc, block, blockTo, entry>>
    BY <1>5 DEF VerifyEvent, chainVars, scanVars
  <2>2. \/ Accepted(x) /\ verified' = [verified EXCEPT ![x] = @ + 1]
        \/ UNCHANGED verified
    BY <1>5 DEF VerifyEvent
  <2>3. currentBlockTo' = currentBlockTo
    BY <2>1 DEF currentBlockTo
  <2>4. ScanRange' /\ NoDuplicates' /\ CacheAuthentic'
    BY <2>1 DEF InScope, Accepted
  <2>5. /\ logs \in [Events -> Nat] /\ verified \in [Events -> Nat]
        /\ logs' \in [Events -> Nat] /\ verified' \in [Events -> Nat]
    OBVIOUS
  <2>6. \A e \in Events : InHand(e) =>
          \E k \in KeyOk : ValidatorOf[k] = ValidatorOf[e] /\ InScope(k) /\ InChunk(k)
    BY <2>1
  <2> HIDE DEF TypeOK, SafetyInv, ScanRange, ChunkInv, KeyInv, NoDuplicates, CacheAuthentic,
               InHand, InChunk
  <2>7. \A e \in Events : InChunk(e)' <=> InChunk(e)
    BY <2>1, <2>3 DEF InChunk
  <2>8. ASSUME NEW e \in Events
        PROVE  /\ logs'[e] + verified'[e] <= logs[e] + verified[e]
               /\ verified'[e] > 0 => Accepted(e)
    <3>1. logs[e] \in Nat /\ verified[e] \in Nat /\ (verified[e] > 0 => Accepted(e))
      BY <2>1, OneEvent
    <3>2. CASE e = x
      <4>1. logs'[e] = logs[e] - 1
        BY <2>1, <2>5, <3>2
      <4>2. CASE Accepted(x) /\ verified' = [verified EXCEPT ![x] = @ + 1]
        <5>1. verified'[e] = verified[e] + 1
          BY <2>5, <3>2, <4>2
        <5> QED BY <3>1, <3>2, <4>1, <4>2, <5>1
      <4>3. CASE UNCHANGED verified
        BY <3>1, <4>1, <4>3
      <4> QED BY <2>2, <4>2, <4>3
    <3>3. CASE e # x
      <4>1. logs'[e] = logs[e] /\ verified'[e] = verified[e]
        BY <2>1, <2>2, <2>5, <3>3
      <4> QED BY <3>1, <4>1
    <3> QED BY <3>2, <3>3
  <2>9. ASSUME NEW e \in Events
        PROVE  /\ logs'[e] + verified'[e] <= 1
               /\ InHand(e)' => InHand(e)
    <3>1. /\ logs[e] \in Nat /\ verified[e] \in Nat
          /\ logs'[e] \in Nat /\ verified'[e] \in Nat
      BY <2>5
    <3>2. logs[e] + verified[e] <= 1
      BY <2>1, OneEvent
    <3> QED BY <2>8, <3>1, <3>2 DEF InHand
  <2>10. ChunkInv'
    <3>1. \A e \in Events : InHand(e) => InChunk(e) /\ InScope(e)
      BY <2>1, OneEvent
    <3> QED BY <2>1, <2>7, <2>8, <2>9, <3>1 DEF ChunkInv, InScope, Accepted
  <2>11. KeyInv'
    BY <2>6, <2>7, <2>9 DEF KeyInv, InScope
  <2> QED BY <2>4, <2>10, <2>11 DEF SafetyInv
<1>6. CASE CommitChunk
  <2>1. /\ pc = "verify" /\ \A e \in Events : logs[e] = 0
        /\ cache' = [e \in Events |-> cache[e] + verified[e]]
        /\ endBlock' = currentBlockTo
        /\ block' = block + Step
        /\ pc' = IF block + Step <= blockTo THEN "fetch" ELSE "idle"
        /\ verified' = NoEvents
        /\ UNCHANGED <<blockOf, height, blockTo, logs>>
    BY <1>6 DEF CommitChunk, Push, SetHeader, chainVars
  <2>2. /\ currentBlockTo \in block .. blockTo /\ currentBlockTo \in 0 .. height
        /\ currentBlockTo < block + Step
    BY <2>1, ChunkBounds
  <2>3. ScanRange'
    BY <2>1, <2>2
  <2>4. \A e \in Events : InHand(e) =>
          \E k \in KeyOk : ValidatorOf[k] = ValidatorOf[e] /\ InScope(k) /\ InChunk(k)
    BY <2>1
  <2>5. \A e \in Events : cache[e] > 0 =>
          /\ InScope(e) /\ Accepted(e)
          /\ blockOf[e] \in 0 .. endBlock
          /\ \E k \in KeyOk : /\ ValidatorOf[k] = ValidatorOf[e]
                              /\ InScope(k)
                              /\ blockOf[k] \in 0 .. endBlock
    OBVIOUS
  <2>6. endBlock < block /\ endBlock < endBlock' /\ block \in Nat /\ endBlock \in Int
    BY <2>1, <2>2
  <2> HIDE DEF TypeOK, SafetyInv, ScanRange, ChunkInv, KeyInv, NoDuplicates, CacheAuthentic,
               InHand, InChunk
  <2>7. ChunkInv' /\ KeyInv'
    <3>1. \A e \in Events : logs'[e] = 0 /\ verified'[e] = 0
      BY <2>1 DEF NoEvents
    <3> QED BY <2>1, <3>1 DEF ChunkInv, KeyInv, InHand
  <2>8. ASSUME NEW e \in Events
        PROVE  /\ cache'[e] <= 1
               /\ cache'[e] > 0 =>
                    /\ InScope(e) /\ Accepted(e)
                    /\ blockOf[e] \in 0 .. endBlock'
                    /\ \E k \in KeyOk : /\ ValidatorOf[k] = ValidatorOf[e]
                                        /\ InScope(k)
                                        /\ blockOf[k] \in 0 .. endBlock'
    <3>1. /\ logs[e] \in Nat /\ verified[e] \in Nat /\ cache[e] \in Nat
          /\ logs[e] + verified[e] <= 1
          /\ InHand(e) => InChunk(e) /\ InScope(e)
          /\ verified[e] > 0 => Accepted(e)
          /\ cache[e] <= 1
          /\ cache[e] > 0 => blockOf[e] \in 0 .. endBlock
      BY <2>1, OneEvent
    <3>2. cache'[e] = cache[e] + verified[e]
      BY <2>1
    <3>3. CASE verified[e] = 0
      <4>1. cache'[e] = cache[e]
        BY <3>1, <3>2, <3>3
      <4>2. CASE cache[e] > 0
        <5>1. PICK k \in KeyOk : /\ ValidatorOf[k] = ValidatorOf[e]
                                /\ InScope(k)
                                /\ blockOf[k] \in 0 .. endBlock
          BY <2>5, <4>2
        <5>2. endBlock' \in Int
          BY <2>1, <2>2
        <5>3. blockOf[e] \in 0 .. endBlock' /\ blockOf[k] \in 0 .. endBlock'
          BY <2>6, <3>1, <4>2, <5>1, <5>2
        <5> QED BY <2>5, <3>1, <4>1, <4>2, <5>1, <5>3
      <4>3. CASE ~(cache[e] > 0)
        BY <3>1, <4>1, <4>3
      <4> QED BY <4>2, <4>3
    <3>4. CASE verified[e] > 0
      <4>1. InHand(e)
        BY <3>1, <3>4 DEF InHand
      <4>2. blockOf[e] \in block .. currentBlockTo
        BY <3>1, <4>1 DEF InChunk
      <4>3. cache[e] = 0
        BY <2>6, <3>1, <4>2
      <4>4. cache'[e] = 1
        BY <3>1, <3>2, <3>4, <4>3
      <4>5. PICK k \in KeyOk : ValidatorOf[k] = ValidatorOf[e] /\ InScope(k) /\ InChunk(k)
        BY <2>4, <4>1
      <4>6. blockOf[e] \in 0 .. endBlock' /\ blockOf[k] \in 0 .. endBlock'
        BY <2>1, <2>6, <4>2, <4>5 DEF InChunk
      <4> QED BY <3>1, <3>4, <4>1, <4>4, <4>5, <4>6
    <3> QED BY <3>1, <3>3, <3>4
  <2>9. NoDuplicates' /\ CacheAuthentic'
    BY <2>1, <2>8 DEF NoDuplicates, CacheAuthentic, InScope, Accepted
  <2> QED BY <2>3, <2>7, <2>9 DEF SafetyInv
<1>7. CASE FailScan
  <2>1. pc' = "idle" /\ UNCHANGED <<blockOf, height, cache, endBlock>>
    BY <1>7 DEF FailScan, chainVars
  <2> QED BY <2>1 DEF InScope, Accepted
<1>8. CASE Restart
  <2>1. pc' = "idle" /\ cache' = NoEvents /\ endBlock' = NoBlock /\ UNCHANGED <<blockOf, height>>
    BY <1>8 DEF Restart, chainVars
  <2> QED BY <2>1 DEF NoEvents, NoBlock
<1>9. CASE UNCHANGED vars
  BY <1>9 DEF vars, currentBlockTo, InScope, Accepted
<1> QED BY <1>1, <1>2, <1>3, <1>4, <1>5, <1>6, <1>7, <1>8, <1>9 DEF Next, Scan

(* Type correctness and the safety invariant hold in every reachable state. *)
LEMMA SafetyInvariant == Spec => [](TypeOK /\ SafetyInv)
<1>1. Init /\ TypeOK => SafetyInv
  BY DEF Init, TypeOK, SafetyInv, ScanRange, ChunkInv, KeyInv, NoDuplicates, CacheAuthentic,
         NoEvents, NoBlock, Unmined
<1>2. TypeOK /\ TypeOK' /\ SafetyInv /\ [Next]_vars => SafetyInv'
  BY SafetyInvInductive
<1> QED BY <1>1, <1>2, TypeCorrect, PTL DEF Spec

(* No event is in the cached array twice, so that no job handles it twice: *)
(* because scans start above the header, chunks of a scan are disjoint and *)
(* no two scope entries match one event.                                   *)
THEOREM NoDuplicatesAlways == Spec => []NoDuplicates
<1>1. SafetyInv => NoDuplicates
  BY DEF SafetyInv
<1> QED BY <1>1, SafetyInvariant, PTL

(* Every cached event is in scope, accepted by the verifier and below the  *)
(* header, and the beacon state confirmed the key of its index for a       *)
(* request of the same blocks.                                             *)
THEOREM CacheAuthenticAlways == Spec => []CacheAuthentic
<1>1. SafetyInv => CacheAuthentic
  BY DEF SafetyInv
<1> QED BY <1>1, SafetyInvariant, PTL

-----------------------------------------------------------------------------
(* The cache implements the abstract intake. *)

(* A chunk that is committed is an advance of the intake over its blocks.  *)
LEMMA CommitAdvances ==
  ASSUME TypeOK, SafetyInv, CommitChunk
  PROVE  \E from, to \in 0 .. height :
           \E S \in SUBSET {e \in Events : InScope(e) /\ Accepted(e)} :
             Intake!Advance(from, to, S)
<1> DEFINE S == {e \in Events : verified[e] > 0}
<1>1. /\ pc = "verify"
      /\ cache' = [e \in Events |-> cache[e] + verified[e]]
      /\ endBlock' = currentBlockTo
      /\ UNCHANGED <<blockOf, height>>
  BY DEF CommitChunk, Push, SetHeader, chainVars
<1>2. ScanRange
  BY DEF SafetyInv
<1>3. /\ currentBlockTo \in block .. blockTo
      /\ currentBlockTo \in 0 .. height
  BY <1>1, <1>2, ChunkBounds
<1>4. endBlock < block /\ block \in 0 .. height
  BY <1>1, <1>2, <1>3, NumbersAssumption DEF ScanRange, TypeOK
<1>5. ASSUME NEW e \in S
      PROVE  InScope(e) /\ Accepted(e) /\ blockOf[e] \in block .. currentBlockTo
  <2>1. /\ logs[e] \in Nat /\ verified[e] \in Nat
        /\ InHand(e) => InChunk(e) /\ InScope(e)
        /\ verified[e] > 0 => Accepted(e)
    BY <1>1, OneEvent
  <2>2. verified[e] > 0
    OBVIOUS
  <2>3. InHand(e)
    BY <2>1, <2>2 DEF InHand
  <2> QED BY <2>1, <2>2, <2>3 DEF InChunk
<1>6. {e \in Events : cache'[e] > 0} = {e \in Events : cache[e] > 0} \cup S
  <2>1. \A e \in Events : cache'[e] > 0 <=> cache[e] > 0 \/ verified[e] > 0
    <3> SUFFICES ASSUME NEW e \in Events
                 PROVE  cache'[e] > 0 <=> cache[e] > 0 \/ verified[e] > 0
      OBVIOUS
    <3>1. cache[e] \in Nat /\ verified[e] \in Nat
      BY <1>1, OneEvent
    <3>2. cache'[e] = cache[e] + verified[e]
      BY <1>1
    <3> QED BY <3>1, <3>2
  <2> QED BY <2>1
<1> HIDE DEF S
<1>7. S \in SUBSET {e \in Events : InScope(e) /\ Accepted(e)}
  BY <1>5 DEF S
<1>8. PICK from \in 0 .. height, to \in 0 .. height : from = block /\ to = currentBlockTo
  BY <1>3, <1>4
<1>9. PICK T \in SUBSET {e \in Events : InScope(e) /\ Accepted(e)} : T = S
  BY <1>7
<1>10. Intake!Advance(from, to, T)
  BY <1>1, <1>3, <1>4, <1>5, <1>6, <1>7, <1>8, <1>9 DEF Intake!Advance
<1> QED BY <1>10

(* Every step of the cache is a step of the intake or leaves it alone.     *)
LEMMA StepSimulation ==
  ASSUME TypeOK, SafetyInv, [Next]_vars
  PROVE  [Intake!Next]_(Intake!vars)
<1> USE DEF Intake!vars
<1>1. CASE Mine
  <2>1. PICK S \in SUBSET {e \in Events : blockOf[e] = Unmined} :
          blockOf' = [e \in Events |-> IF e \in S THEN height + 1 ELSE blockOf[e]]
    BY <1>1 DEF Mine
  <2>2. Intake!Mine(S)
    BY <1>1, <2>1 DEF Mine, Intake!Mine, Unmined, Intake!Unmined
  <2>3. S \in SUBSET Events
    BY <2>1
  <2> QED BY <2>2, <2>3 DEF Intake!Next
<1>2. ASSUME NEW last \in FinalizedAnswers, Start(last) PROVE UNCHANGED Intake!vars
  BY <1>2 DEF Start, chainVars
<1>3. CASE FetchEntry
  BY <1>3 DEF FetchEntry, chainVars
<1>4. CASE ValidatePublicKeys
  BY <1>4 DEF ValidatePublicKeys, chainVars
<1>5. ASSUME NEW e \in Events, VerifyEvent(e) PROVE UNCHANGED Intake!vars
  BY <1>5 DEF VerifyEvent, chainVars
<1>6. CASE CommitChunk
  BY <1>6, CommitAdvances DEF Intake!Next
<1>7. CASE FailScan
  BY <1>7 DEF FailScan, chainVars
<1>8. CASE Restart
  <2>1. Intake!Restart
    BY <1>8 DEF Restart, chainVars, NoEvents, Intake!Restart, NoBlock, Intake!NoBlock
  <2> QED BY <2>1 DEF Intake!Next
<1>9. CASE UNCHANGED vars
  BY <1>9 DEF vars
<1> QED BY <1>1, <1>2, <1>3, <1>4, <1>5, <1>6, <1>7, <1>8, <1>9 DEF Next, Scan

(* The cache with its failures, lagging endpoints and restarts implements  *)
(* the intake the job is written against.                                  *)
THEOREM Implementation == Spec => IntakeSpec
<1>1. Init => Intake!Init
  BY DEF Init, Intake!Init, NoEvents, Unmined, Intake!Unmined, NoBlock, Intake!NoBlock
<1>2. TypeOK /\ SafetyInv /\ [Next]_vars => [Intake!Next]_(Intake!vars)
  BY StepSimulation
<1> QED BY <1>1, <1>2, SafetyInvariant, PTL DEF Spec, IntakeSpec, Intake!Spec

-----------------------------------------------------------------------------
(* Completeness, whatever the nodes answer.                                *)

(* The completeness invariant is inductive, given the safety invariant.    *)
LEMMA CompletenessInductive ==
  ASSUME TypeOK, TypeOK', SafetyInv, SafetyInv', CompletenessInv, [Next]_vars
  PROVE  CompletenessInv'
<1> USE NumbersAssumption, EventsAssumption, ModesAssumption, ScopeAssumption
<1> USE DEF Unmined, NoBlock
<1>1. /\ blockOf \in [Events -> {Unmined} \cup 1 .. MaxBlock] /\ height \in Nat
      /\ endBlock \in Int /\ newest \in Int /\ block \in Nat /\ blockTo \in Nat
      /\ logs \in [Events -> Nat] /\ verified \in [Events -> Nat] /\ cache \in [Events -> Nat]
      /\ entry \in 1 .. ScopeSize + 1
      /\ cache' \in [Events -> Nat]
  BY DEF TypeOK
<1>2. /\ ScanRange
      /\ \A e \in Events : cache'[e] <= 1
  BY DEF SafetyInv, NoDuplicates
<1>3. LostToNodesOnly
  BY DEF CompletenessInv
<1>4. CASE Mine
  <2>1. PICK S \in SUBSET {e \in Events : blockOf[e] = Unmined} :
          blockOf' = [e \in Events |-> IF e \in S THEN height + 1 ELSE blockOf[e]]
    BY <1>4 DEF Mine
  <2>2. UNCHANGED <<cache, endBlock, pc, block, blockTo, entry, logs, verified, newest, missed>>
    BY <1>4 DEF Mine, scanVars, chunkVars
  <2>3. currentBlockTo' = currentBlockTo /\ \A e \in Events : Valid(e)' <=> Valid(e)
    BY <2>2 DEF currentBlockTo, Valid, InScope, Accepted
  <2>4. \A e \in Events : blockOf'[e] = blockOf[e] \/ blockOf'[e] = height + 1
    BY <2>1
  <2>5. LostToNodesOnly'
    <3> SUFFICES ASSUME NEW e \in Events, Valid(e), e \notin missed, blockOf'[e] # Unmined,
                        newest - Preload <= blockOf'[e], blockOf'[e] <= endBlock
                 PROVE  cache[e] = 1
      BY <2>2, <2>3 DEF LostToNodesOnly
    <3>1. endBlock <= height
      BY <1>2 DEF ScanRange
    <3>2. blockOf'[e] = blockOf[e]
      BY <1>1, <2>4, <3>1
    <3> QED BY <1>3, <3>2 DEF LostToNodesOnly
  <2>6. ASSUME pc # "idle", NEW e \in Events, InChunk(e)' PROVE InChunk(e)
    <3>1. currentBlockTo \in 0 .. height
      BY <1>2, <2>6, ChunkBounds
    <3>2. blockOf'[e] = blockOf[e]
      BY <1>1, <2>2, <2>3, <2>4, <2>6, <3>1 DEF InChunk
    <3> QED BY <2>2, <2>3, <2>6, <3>2 DEF InChunk
  <2> QED BY <2>2, <2>3, <2>5, <2>6 DEF CompletenessInv
<1>5. ASSUME NEW last \in FinalizedAnswers, Start(last) PROVE CompletenessInv'
  <2>1. /\ UNCHANGED <<blockOf, cache, endBlock, missed>>
        /\ newest' = Max(newest, last)
    BY <1>5 DEF Start, chainVars
  <2>2. last \in Nat /\ newest' \in Int /\ newest <= newest' /\ last <= newest'
    BY <1>1, <2>1, StartBounds DEF Max
  <2>3. \A e \in Events : Valid(e)' <=> Valid(e)
    BY DEF Valid, InScope, Accepted
  <2>4. LostToNodesOnly'
    BY <1>1, <1>3, <2>1, <2>2, <2>3 DEF LostToNodesOnly
  <2>5. CASE ~FullyCached(last) /\ blockFrom(last) <= last
    <3>1. /\ pc' = "fetch" /\ block' = blockFrom(last) /\ blockTo' = last /\ entry' = 1
      BY <1>5, <2>5 DEF Start
    <3>2. block' = endBlock + 1 \/ block' = last - Preload
      BY <3>1 DEF blockFrom, Max
    <3>3. block' = endBlock' + 1 \/ block' <= newest' - Preload
      BY <2>1, <2>2, <3>2
    <3>4. 1 .. entry' - 1 = {}
      BY <3>1
    <3> QED BY <2>2, <2>4, <3>1, <3>3, <3>4 DEF CompletenessInv
  <2>6. CASE ~(~FullyCached(last) /\ blockFrom(last) <= last)
    <3>1. UNCHANGED <<pc, block, blockTo, entry, logs, verified>>
      BY <1>5, <2>6 DEF Start, scanVars, chunkVars
    <3>2. pc = "idle"
      BY <1>5 DEF Start
    <3> QED BY <2>4, <3>1, <3>2 DEF CompletenessInv
  <2> QED BY <2>5, <2>6
<1>6. CASE FetchEntry
  <2>1. PICK lag \in 0 .. LogsLag :
          /\ logs' = [e \in Events |-> IF e \in Matching /\ blockOf[e] <= height - lag
                                      THEN logs[e] + 1 ELSE logs[e]]
          /\ missed' = missed \cup {e \in Matching : blockOf[e] > height - lag}
    BY <1>6 DEF FetchEntry
  <2>2. /\ pc = "fetch" /\ entry <= ScopeSize /\ entry' = entry + 1
        /\ UNCHANGED <<blockOf, cache, endBlock, pc, block, blockTo, verified, newest>>
    BY <1>6 DEF FetchEntry, chainVars, scanVars
  <2>3. /\ currentBlockTo' = currentBlockTo
        /\ \A e \in Events : (Valid(e)' <=> Valid(e)) /\ (InChunk(e)' <=> InChunk(e))
    BY <2>2 DEF currentBlockTo, Valid, InScope, Accepted, InChunk
  <2>4. LostToNodesOnly'
    BY <1>3, <2>1, <2>2, <2>3 DEF LostToNodesOnly
  <2>5. ASSUME NEW e \in Events, Valid(e), e \notin missed', InChunk(e), NEW i \in 1 .. entry' - 1,
               OperatorOf[e] \in EjectorScope[i]
        PROVE  logs'[e] = 1
    <3>1. e \notin missed /\ ~(e \in Matching /\ blockOf[e] > height - lag)
      BY <2>1, <2>5
    <3>2. CASE i = entry
      <4>1. \A j \in 1 .. entry - 1 : OperatorOf[e] \notin EjectorScope[j]
        BY <1>1, <2>2, <2>5, <3>2
      <4>2. logs[e] = 0
        <5>1. logs[e] > 0 => \E j \in 1 .. entry - 1 : OperatorOf[e] \in EjectorScope[j]
          BY <2>2 DEF SafetyInv, ChunkInv
        <5>2. logs[e] \in Nat
          BY <1>1
        <5> QED BY <4>1, <5>1, <5>2
      <4>3. /\ OperatorOf[e] \in EjectorScope[entry]
            /\ blockOf[e] \in block .. currentBlockTo
            /\ blockOf[e] <= height - lag
        BY <1>1, <2>5, <3>1, <3>2 DEF InChunk, Matching
      <4> QED BY <2>1, <4>2, <4>3 DEF Matching
    <3>3. CASE i # entry
      <4>1. i \in 1 .. entry - 1
        BY <1>1, <2>2, <3>3
      <4>2. logs[e] = 1
        BY <2>2, <2>5, <3>1, <4>1 DEF CompletenessInv
      <4>3. OperatorOf[e] \notin EjectorScope[entry]
        BY <1>1, <2>2, <2>5, <3>3, <4>1
      <4> QED BY <2>1, <4>2, <4>3 DEF Matching
    <3> QED BY <3>2, <3>3
  <2> QED BY <2>2, <2>3, <2>4, <2>5 DEF CompletenessInv
<1>7. CASE ValidatePublicKeys
  <2>0. PICK unknown \in SUBSET LateValidators :
          /\ logs' = [e \in Events |-> IF ValidatorOf[e] \in validIndices \ unknown THEN logs[e] ELSE 0]
          /\ missed' = missed \cup {e \in Events : /\ logs[e] > 0
                                                   /\ ValidatorOf[e] \in validIndices \cap unknown}
    BY <1>7 DEF ValidatePublicKeys
  <2>1. /\ pc = "fetch" /\ pc' = "verify" /\ entry > ScopeSize
        /\ UNCHANGED <<blockOf, cache, endBlock, block, blockTo, entry, verified, newest>>
        /\ missed \subseteq missed'
    BY <1>7, <2>0 DEF ValidatePublicKeys, chainVars, scanVars
  <2>2. \A e \in Events : (Valid(e)' <=> Valid(e)) /\ (InChunk(e)' <=> InChunk(e))
    BY <2>1 DEF currentBlockTo, Valid, InScope, Accepted, InChunk
  <2>3. LostToNodesOnly'
    BY <1>3, <2>1, <2>2 DEF LostToNodesOnly
  <2>4. ASSUME NEW e \in Events, Valid(e), e \notin missed', InChunk(e) PROVE logs'[e] + verified'[e] = 1
    <3>1. PICK i \in 1 .. ScopeSize : OperatorOf[e] \in EjectorScope[i]
      BY <2>4 DEF Valid, InScope
    <3>2. i \in 1 .. entry - 1
      BY <1>1, <2>1
    <3>3. logs[e] = 1
      BY <2>1, <2>4, <3>1, <3>2 DEF CompletenessInv
    <3>4. verified[e] = 0
      BY <2>1 DEF SafetyInv, ChunkInv
    <3>5. ValidatorOf[e] \in validIndices \ unknown
      BY <2>0, <2>4, <3>3 DEF validIndices, Valid
    <3> QED BY <2>0, <2>1, <3>3, <3>4, <3>5
  <2> QED BY <2>1, <2>2, <2>3, <2>4 DEF CompletenessInv
<1>8. ASSUME NEW x \in Events, VerifyEvent(x) PROVE CompletenessInv'
  <2>1. /\ pc = "verify" /\ logs[x] > 0
        /\ logs' = [logs EXCEPT ![x] = @ - 1]
        /\ UNCHANGED <<blockOf, cache, endBlock, pc, block, blockTo, newest>>
    BY <1>8 DEF VerifyEvent, chainVars, scanVars
  <2>2. /\ missed \subseteq missed'
        /\ \/ verified' = [verified EXCEPT ![x] = @ + 1]
           \/ (Accepted(x) => x \in missed') /\ UNCHANGED verified
    BY <1>8 DEF VerifyEvent, Accepted
  <2>3. \A e \in Events : (Valid(e)' <=> Valid(e)) /\ (InChunk(e)' <=> InChunk(e))
    BY <2>1 DEF currentBlockTo, Valid, InScope, Accepted, InChunk
  <2>4. LostToNodesOnly'
    BY <1>3, <2>1, <2>2, <2>3 DEF LostToNodesOnly
  <2>5. ASSUME NEW e \in Events, Valid(e), e \notin missed', InChunk(e) PROVE logs'[e] + verified'[e] = 1
    <3>1. logs[e] + verified[e] = 1
      BY <2>1, <2>2, <2>5 DEF CompletenessInv
    <3>2. CASE e = x
      <4>1. verified' = [verified EXCEPT ![x] = @ + 1]
        BY <2>2, <2>5, <3>2 DEF Valid
      <4>2. logs'[e] = logs[e] - 1 /\ verified'[e] = verified[e] + 1
        BY <1>1, <2>1, <3>2, <4>1
      <4> QED BY <1>1, <3>1, <4>2
    <3>3. CASE e # x
      <4>1. logs'[e] = logs[e] /\ verified'[e] = verified[e]
        BY <1>1, <2>1, <2>2, <3>3
      <4> QED BY <3>1, <4>1
    <3> QED BY <3>2, <3>3
  <2> QED BY <2>1, <2>3, <2>4, <2>5 DEF CompletenessInv
<1>9. CASE CommitChunk
  <2>1. /\ pc = "verify" /\ \A e \in Events : logs[e] = 0
        /\ cache' = [e \in Events |-> cache[e] + verified[e]]
        /\ endBlock' = currentBlockTo
        /\ block' = block + Step
        /\ pc' = IF block + Step <= blockTo THEN "fetch" ELSE "idle"
        /\ entry' = 1
        /\ UNCHANGED <<blockOf, blockTo, newest, missed>>
    BY <1>9 DEF CommitChunk, Push, SetHeader, chainVars
  <2>2. currentBlockTo = Min(block + Step - 1, blockTo)
    BY DEF currentBlockTo
  <2>3. \A e \in Events : Valid(e)' <=> Valid(e)
    BY DEF Valid, InScope, Accepted
  <2>4. ASSUME NEW e \in Events, Valid(e), e \notin missed, blockOf[e] # Unmined,
               newest - Preload <= blockOf[e], blockOf[e] <= currentBlockTo
        PROVE  cache'[e] = 1
    <3>1. cache'[e] = cache[e] + verified[e] /\ cache'[e] <= 1
      BY <1>2, <2>1
    <3>2. cache[e] \in Nat /\ verified[e] \in Nat /\ blockOf[e] \in Int
      BY <1>1
    <3>3. CASE blockOf[e] <= endBlock
      <4>1. cache[e] = 1
        BY <1>3, <2>4, <3>3 DEF LostToNodesOnly
      <4> QED BY <3>1, <3>2, <4>1
    <3>4. CASE ~(blockOf[e] <= endBlock)
      <4>1. block = endBlock + 1 \/ block <= newest - Preload
        BY <2>1 DEF CompletenessInv
      <4>2. block <= blockOf[e]
        BY <1>1, <2>4, <3>2, <3>4, <4>1
      <4>3. InChunk(e)
        BY <1>1, <2>2, <2>4, <3>2, <4>2 DEF InChunk, Min
      <4>4. logs[e] + verified[e] = 1
        BY <2>1, <2>4, <4>3 DEF CompletenessInv
      <4>5. verified[e] = 1
        BY <2>1, <3>2, <4>4
      <4> QED BY <3>1, <3>2, <4>5
    <3> QED BY <3>3, <3>4
  <2>5. LostToNodesOnly'
    BY <2>1, <2>3, <2>4 DEF LostToNodesOnly
  <2>6. block + Step <= blockTo => block' = endBlock' + 1
    BY <1>1, <2>1, <2>2 DEF Min
  <2>7. blockTo <= newest
    BY <2>1 DEF CompletenessInv
  <2>8. 1 .. entry' - 1 = {}
    BY <2>1
  <2> QED BY <2>1, <2>5, <2>6, <2>7, <2>8 DEF CompletenessInv
<1>10. CASE FailScan
  <2>1. /\ pc' = "idle" /\ UNCHANGED <<blockOf, cache, endBlock, newest>>
        /\ missed' = {e \in missed : blockOf[e] <= endBlock}
    BY <1>10 DEF FailScan, chainVars
  <2>2. LostToNodesOnly'
    BY <1>3, <2>1 DEF LostToNodesOnly, Valid, InScope, Accepted
  <2> QED BY <2>1, <2>2 DEF CompletenessInv
<1>11. CASE Restart
  <2>1. pc' = "idle" /\ endBlock' = NoBlock /\ UNCHANGED blockOf
    BY <1>11 DEF Restart, chainVars
  <2>2. \A e \in Events : blockOf'[e] # Unmined => ~(blockOf'[e] <= endBlock')
    BY <1>1, <2>1
  <2>3. LostToNodesOnly'
    BY <2>2 DEF LostToNodesOnly
  <2> QED BY <2>1, <2>3 DEF CompletenessInv
<1>12. CASE UNCHANGED vars
  BY <1>12 DEF vars, CompletenessInv, LostToNodesOnly, Valid, InScope, Accepted, InChunk, currentBlockTo
<1> QED BY <1>4, <1>5, <1>6, <1>7, <1>8, <1>9, <1>10, <1>11, <1>12 DEF Next, Scan

(* A request this ejector has to fulfil is missed below the header only    *)
(* behind the preload window or because of a node, however nodes lag and   *)
(* fail: the chunks of a scan are contiguous, a scan that fails is resumed *)
(* at the header, and an answer that goes back in time does not move it.   *)
THEOREM LostToNodesOnlyAlways == Spec => []LostToNodesOnly
<1>1. Init => CompletenessInv
  BY DEF Init, CompletenessInv, LostToNodesOnly, NoBlock, Unmined
<1>2. /\ TypeOK /\ TypeOK' /\ SafetyInv /\ SafetyInv' /\ CompletenessInv /\ [Next]_vars
      => CompletenessInv'
  BY CompletenessInductive
<1>3. CompletenessInv => LostToNodesOnly
  BY DEF CompletenessInv
<1> QED BY <1>1, <1>2, <1>3, SafetyInvariant, PTL DEF Spec

(* Nodes that answer for the whole chain, know its validators and never    *)
(* fail a verification keep nothing out.                                   *)
LEMMA NothingMissed ==
  ASSUME VerifyFaults = FALSE, LogsLag = 0, LateValidators = {}
  PROVE  Spec => [](missed = {})
<1>1. Init => missed = {}
  BY DEF Init
<1>2. TypeOK /\ SafetyInv /\ missed = {} /\ [Next]_vars => (missed = {})'
  <2> SUFFICES ASSUME TypeOK, SafetyInv, missed = {}, [Next]_vars PROVE missed' = {}
    OBVIOUS
  <2>1. CASE FetchEntry
    <3>1. PICK lag \in 0 .. LogsLag :
            missed' = missed \cup {e \in Matching : blockOf[e] > height - lag}
      BY <2>1 DEF FetchEntry
    <3>2. \A e \in Matching : ~(blockOf[e] > height - lag)
      BY DEF Matching, TypeOK, SafetyInv, ScanRange, Unmined
    <3> QED BY <3>1, <3>2
  <2>2. ASSUME NEW e \in Events, VerifyEvent(e) PROVE missed' = {}
    BY <2>2 DEF VerifyEvent
  <2>3. CASE FailScan
    BY <2>3 DEF FailScan
  <2>4. CASE Restart
    BY <2>4 DEF Restart
  <2>5. CASE Mine \/ CommitChunk \/ UNCHANGED vars
    BY <2>5 DEF Mine, CommitChunk, vars
  <2>7. CASE ValidatePublicKeys
    <3>1. PICK unknown \in SUBSET LateValidators :
            missed' = missed \cup {e \in Events : /\ logs[e] > 0
                                                  /\ ValidatorOf[e] \in validIndices \cap unknown}
      BY <2>7 DEF ValidatePublicKeys
    <3> QED BY <3>1
  <2>6. ASSUME NEW last \in FinalizedAnswers, Start(last) PROVE missed' = {}
    BY <2>6 DEF Start
  <2> QED BY <2>1, <2>2, <2>3, <2>4, <2>5, <2>6, <2>7 DEF Next, Scan
<1> QED BY <1>1, <1>2, SafetyInvariant, PTL DEF Spec

(* With such nodes no request is missed at all within the preload window.  *)
THEOREM NoRequestLostAlways ==
  ASSUME VerifyFaults = FALSE, LogsLag = 0, LateValidators = {}
  PROVE  Spec => []NoRequestLost
<1>1. LostToNodesOnly /\ missed = {} => NoRequestLost
  BY DEF LostToNodesOnly, NoRequestLost
<1> QED BY <1>1, LostToNodesOnlyAlways, NothingMissed, PTL
=============================================================================
