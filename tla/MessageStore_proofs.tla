------------------------ MODULE MessageStore_proofs ------------------------
(***************************************************************************)
(* Theorems about MessageStore, for any files, messages and forks.         *)
(***************************************************************************)
EXTENDS MessageStore, SequenceTheorems, WellFoundedInduction, TLAPS

(* A nonempty set of positions has a last one. *)
LEMMA LastPosition ==
  ASSUME NEW n \in Nat, NEW S \in SUBSET (1 .. n), S # {}
  PROVE  \E i \in S : \A j \in S : j <= i
<1> DEFINE T == {n - i : i \in S}
<1>1. T \subseteq Nat /\ T # {}
  <2>1. \A i \in S : n - i \in Nat
    OBVIOUS
  <2>2. PICK i \in S : TRUE
    OBVIOUS
  <2>3. n - i \in T
    OBVIOUS
  <2> QED BY <2>1, <2>3
<1>2. PICK x \in T : \A y \in T : ~(<<y, x>> \in OpToRel(<, Nat))
  BY <1>1, NatLessThanWellFounded, WFMin
<1>3. \A y \in T : ~(y < x)
  BY <1>1, <1>2 DEF OpToRel
<1>4. PICK i \in S : x = n - i
  BY <1>2
<1>5. ASSUME NEW j \in S PROVE j <= i
  <2>1. n - j \in T
    OBVIOUS
  <2>2. ~(n - j < n - i)
    BY <1>3, <1>4, <2>1
  <2> QED BY <2>2
<1> QED BY <1>5

(* A validator with a verified new message has one that wins. *)
LEMMA Winner ==
  ASSUME TypeOK, NEW v \in Validators, Verifying(v) # {}
  PROVE  LET w == CHOOSE i \in fresh : Wins(i, v)
         IN  w \in Verifying(v)
<1>1. Verifying(v) \subseteq 1 .. Len(read) /\ Len(read) \in Nat
  BY DEF TypeOK, Verifying
<1>2. PICK i \in Verifying(v) : \A j \in Verifying(v) : j <= i
  BY <1>1, LastPosition
<1>3. i \in fresh /\ Wins(i, v)
  BY <1>2 DEF Verifying, Wins
<1> QED BY <1>3 DEF Wins

LEMMA ReadType ==
  ASSUME TypeOK, NEW i \in DOMAIN read
  PROVE  read[i].file \in Files /\ read[i].content \in Contents
<1>1. read[i] \in FileRead
  BY DEF TypeOK
<1> QED BY <1>1 DEF FileRead

(* A reload that is over or has not begun holds no files. *)
LEMMA NothingRead ==
  ASSUME read' = <<>>, fresh' = {}
  PROVE  read' \in Seq(FileRead) /\ fresh' \subseteq {i \in DOMAIN read' : read'[i].content \in Messages}
OBVIOUS

(* The positions of a file just read and of those before it. *)
LEMMA Appended ==
  ASSUME TypeOK, NEW x
  PROVE  /\ \A i \in DOMAIN read : i \in DOMAIN Append(read, x) /\ Append(read, x)[i] = read[i]
         /\ \A i \in DOMAIN Append(read, x) :
              Append(read, x)[i] = x \/ (i \in DOMAIN read /\ Append(read, x)[i] = read[i])
BY DEF TypeOK

----------------------------------------------------------------------------
(* Type correctness. *)

LEMMA EntryType ==
  ASSUME TypeOK, NEW v \in Validators
  PROVE  /\ Has(v) => stored[v] \in Entry
         /\ ~Has(v) => stored[v] = NoMessage
BY DEF TypeOK, Has

(* What the three writers of the storage write. *)
LEMMA OfForkType == ASSUME TypeOK, NEW f PROVE OfFork(f) \in [Validators -> Entry \cup {NoMessage}]
BY DEF TypeOK, OfFork

LEMMA TouchType == ASSUME TypeOK, NEW C PROVE Touch(C) \in [Validators -> Entry \cup {NoMessage}]
<1> SUFFICES ASSUME NEW v \in Validators, Has(v)
             PROVE  [stored[v] EXCEPT !.lastUpdate = lastUpdate] \in Entry
  BY DEF TypeOK, Touch
<1>1. stored[v] \in Entry
  BY EntryType
<1> QED BY <1>1 DEF Entry, TypeOK

LEMMA UpdatedType == ASSUME TypeOK, NEW v \in Validators PROVE Updated(v) \in Entry \cup {NoMessage}
<1>1. CASE Verifying(v) # {}
  <2> DEFINE w == CHOOSE i \in fresh : Wins(i, v)
  <2>1. w \in fresh
    BY <1>1, Winner DEF Verifying
  <2>2. read[w].content \in Messages
    BY <2>1 DEF TypeOK
  <2> QED BY <1>1, <2>2 DEF Updated, Entry, TypeOK
<1>2. CASE Verifying(v) = {}
  BY <1>2 DEF Updated, TypeOK
<1> QED BY <1>1, <1>2

LEMMA AbandonType == ASSUME TypeOK, Abandon, faults' \in Nat PROVE TypeOK'
<1>1. read' \in Seq(FileRead) /\ fresh' \subseteq {i \in DOMAIN read' : read'[i].content \in Messages}
  BY NothingRead DEF Abandon, Return
<1>2. /\ pc' = "idle" /\ currentVersion' = 0 /\ isDencun' = FALSE /\ listed' = {} /\ state' = 0
  BY DEF Abandon, Return
<1>3. UNCHANGED <<folder, fork, exiting, lastUpdate, stored, isDencunActivated, invalid, complete>>
  BY DEF Abandon, envVars, storageVars
<1> QED BY <1>1, <1>2, <1>3 DEF TypeOK

LEMMA RestartType == ASSUME TypeOK, Restart PROVE TypeOK'
<1>1. read' \in Seq(FileRead) /\ fresh' \subseteq {i \in DOMAIN read' : read'[i].content \in Messages}
  BY NothingRead DEF Restart, Return
<1>2. stored' \in [Validators -> Entry \cup {NoMessage}]
  BY DEF Restart
<1>3. /\ pc' = "idle" /\ currentVersion' = 0 /\ isDencun' = FALSE /\ listed' = {} /\ state' = 0
      /\ isDencunActivated' = FALSE /\ lastUpdate' = 0 /\ invalid' = {} /\ complete' = FALSE
  BY DEF Restart, Return
<1>4. UNCHANGED <<folder, fork, exiting>> /\ faults' \in Nat
  BY DEF Restart, envVars, TypeOK
<1> QED BY <1>1, <1>2, <1>3, <1>4 DEF TypeOK

(* A load that throws has touched some messages and found some files bad. *)
LEMMA ThrowType == ASSUME TypeOK, LoadThrows PROVE TypeOK'
<1>1. PICK p \in poisoned :
        /\ stored' = Touch({read[i].content : i \in 1 .. p - 1})
        /\ invalid' = invalid \cup {read[i].file : i \in {j \in 1 .. p - 1 : ~Parses(read[j].content)}}
  BY DEF LoadThrows
<1>2. read' \in Seq(FileRead) /\ fresh' \subseteq {i \in DOMAIN read' : read'[i].content \in Messages}
  BY NothingRead DEF LoadThrows, Return
<1>3. stored' \in [Validators -> Entry \cup {NoMessage}]
  BY <1>1, TouchType
<1>4. \A i \in 1 .. p - 1 : i \in DOMAIN read
  BY DEF poisoned, TypeOK
<1>5. invalid' \subseteq Files
  BY <1>1, <1>4, ReadType DEF TypeOK
<1>6. /\ pc' = "idle" /\ currentVersion' = 0 /\ isDencun' = FALSE /\ listed' = {} /\ state' = 0
  BY DEF LoadThrows, Return
<1>7. UNCHANGED <<folder, fork, exiting, lastUpdate, isDencunActivated, complete, faults>>
  BY DEF LoadThrows, envVars
<1> QED BY <1>2, <1>3, <1>5, <1>6, <1>7 DEF TypeOK

LEMMA TypeStep == TypeOK /\ [Next]_vars => TypeOK'
<1> SUFFICES ASSUME TypeOK, [Next]_vars PROVE TypeOK'
  OBVIOUS
<1> USE ContentsAssumption, NumbersAssumption
<1>1. CASE BeginReload
  <2>1. PICK current \in ForkAnswers :
          /\ currentVersion' = current
          /\ isDencun' = isDencunHappened(current)
          /\ isDencunActivated' = (isDencunActivated \/ isDencunHappened(current))
          /\ stored' = OfFork(current)
    BY <1>1 DEF BeginReload
  <2>2. currentVersion' \in Nat /\ isDencun' \in BOOLEAN /\ isDencunActivated' \in BOOLEAN
    BY <2>1 DEF ForkAnswers, isDencunHappened, TypeOK
  <2>3. stored' \in [Validators -> Entry \cup {NoMessage}]
    BY <2>1, OfForkType
  <2>4. lastUpdate' \in Nat
    BY <1>1 DEF BeginReload, ClockAnswers, TypeOK
  <2>5. read' \in Seq(FileRead) /\ fresh' \subseteq {i \in DOMAIN read' : read'[i].content \in Messages}
    BY <1>1, NothingRead DEF BeginReload
  <2>6. invalid' \subseteq Files /\ pc' = "list" /\ complete' = FALSE
    BY <1>1 DEF BeginReload
  <2> QED BY <1>1, <2>2, <2>3, <2>4, <2>5, <2>6 DEF BeginReload, TypeOK, envVars
<1>2. CASE ListFolder
  BY <1>2 DEF ListFolder, TypeOK, envVars, storageVars, forkVars
<1>3. ASSUME NEW f \in Files, ReadFile(f) PROVE TypeOK'
  <2> DEFINE x == [file |-> f, content |-> folder[f]]
  <2>1. x \in FileRead
    BY <1>3 DEF ReadFile, FileRead, TypeOK, Contents
  <2>2. read' = Append(read, x) /\ read' \in Seq(FileRead)
    BY <1>3, <2>1 DEF ReadFile, TypeOK
  <2>3. \A i \in DOMAIN read : i \in DOMAIN read' /\ read'[i] = read[i]
    BY <2>2, Appended
  <2>4. fresh' \subseteq {i \in DOMAIN read' : read'[i].content \in Messages}
    BY <1>3, <2>3 DEF ReadFile, TypeOK
  <2> QED BY <1>3, <2>2, <2>4 DEF ReadFile, TypeOK, envVars, storageVars, forkVars
<1>4. CASE LoadNewMessages
  <2>1. stored' \in [Validators -> Entry \cup {NoMessage}]
    BY <1>4, TouchType DEF LoadNewMessages
  <2>2. fresh' \subseteq {i \in DOMAIN read' : read'[i].content \in Messages}
    BY <1>4 DEF LoadNewMessages, Parses
  <2>3. invalid' \subseteq Files
    BY <1>4, ReadType DEF LoadNewMessages, TypeOK
  <2> QED BY <1>4, <2>1, <2>2, <2>3 DEF LoadNewMessages, TypeOK, envVars, forkVars
<1>5. CASE FetchState
  BY <1>5 DEF FetchState, ForkAnswers, TypeOK, envVars, storageVars, forkVars
<1>6. CASE VerifyAndStore
  <2>1. stored' \in [Validators -> Entry \cup {NoMessage}]
    BY <1>6, UpdatedType DEF VerifyAndStore
  <2>2. invalid' \subseteq Files
    <3>1. \A i \in fresh : i \in DOMAIN read
      BY DEF TypeOK
    <3> QED BY <1>6, <3>1, ReadType DEF VerifyAndStore, TypeOK
  <2>3. fresh' = {} /\ read' = read
    BY <1>6 DEF VerifyAndStore, Return
  <2> QED BY <1>6, <2>1, <2>2, <2>3 DEF VerifyAndStore, Return, TypeOK, envVars
<1>7. CASE FileGone
  BY <1>7, AbandonType DEF FileGone, TypeOK
<1>8. CASE FailReload
  <2>1. faults' \in Nat
    BY <1>8 DEF FailReload, TypeOK
  <2> QED BY <1>8, <2>1, AbandonType DEF FailReload
<1>9. CASE Restart
  BY <1>9, RestartType
<1>10. CASE EditFolder
  BY <1>10 DEF EditFolder, TypeOK, storageVars, forkVars
<1>11. CASE Upgrade
  BY <1>11 DEF Upgrade, TypeOK, storageVars, forkVars
<1>12. ASSUME NEW v \in Validators, StartExit(v) PROVE TypeOK'
  BY <1>12 DEF StartExit, TypeOK, storageVars, forkVars
<1>13. CASE UNCHANGED vars
  BY <1>13 DEF vars, TypeOK, envVars, storageVars, forkVars
<1>14. CASE LoadThrows
  BY <1>14, ThrowType
<1> QED BY <1>1, <1>2, <1>3, <1>4, <1>5, <1>6, <1>7, <1>8, <1>9, <1>10, <1>11, <1>12, <1>13, <1>14
        DEF Next, Reload, Environment

(* The storage holds parsed messages only, and the new ones of a reload    *)
(* are positions of messages it has read.                                  *)
THEOREM TypeCorrect == Spec => []TypeOK
<1>1. Init => TypeOK
  <2> SUFFICES ASSUME Init PROVE TypeOK
    OBVIOUS
  <2>1. read \in Seq(FileRead) /\ fresh \subseteq {i \in DOMAIN read : read[i].content \in Messages}
    <3>1. read = <<>> /\ fresh = {}
      BY DEF Init
    <3> QED BY <3>1
  <2>2. stored \in [Validators -> Entry \cup {NoMessage}]
    BY DEF Init
  <2>3. fork \in Nat /\ folder \in [Files -> Contents \cup {NoFile}]
    BY NumbersAssumption DEF Init
  <2> QED BY <2>1, <2>2, <2>3 DEF Init, TypeOK
<1> QED BY <1>1, TypeStep, PTL DEF Spec

----------------------------------------------------------------------------
(* Dencun. *)

(* The storage never mixes the two regimes: before the latch closes every  *)
(* message is tagged with a fork up to Capella, or there is none because   *)
(* the mode is forced; a reload that closes the latch drops them at once.  *)
LatchInv ==
  /\ DencunOnlyCapella
  /\ ~isDencunActivated =>
       \A v \in Validators : Has(v) => ~ForceDencun /\ stored[v].forkVersion <= Capella
  /\ pc # "idle" =>
       /\ isDencun <=> isDencunActivated
       /\ ~isDencun => ~ForceDencun /\ currentVersion <= Capella

(* Touching changes the update of a message and nothing else of it. *)
LEMMA AfterTouch ==
  ASSUME TypeOK, NEW v \in Validators, NEW C, stored' = Touch(C)
  PROVE  /\ Has(v)' <=> Has(v)
         /\ Has(v) => /\ stored'[v].content = stored[v].content
                      /\ stored'[v].forkVersion = stored[v].forkVersion
                      /\ stored'[v].lastUpdate = IF stored[v].content \in C
                                                 THEN lastUpdate ELSE stored[v].lastUpdate
<1>1. stored'[v] = IF Has(v) /\ stored[v].content \in C
                   THEN [stored[v] EXCEPT !.lastUpdate = lastUpdate] ELSE stored[v]
  BY DEF Touch
<1>2. CASE Has(v)
  <2>1. stored[v] \in Entry
    BY <1>2, EntryType
  <2>2. /\ stored'[v].content = stored[v].content
        /\ stored'[v].forkVersion = stored[v].forkVersion
        /\ stored'[v].lastUpdate = IF stored[v].content \in C
                                   THEN lastUpdate ELSE stored[v].lastUpdate
    BY <1>1, <1>2, <2>1 DEF Entry
  <2>3. stored'[v].content # NoMessage.content
    BY <2>1, <2>2, ContentsAssumption DEF Entry, NoMessage, Contents
  <2> QED BY <1>2, <2>2, <2>3 DEF Has
<1>3. CASE ~Has(v)
  BY <1>1, <1>3 DEF Has
<1> QED BY <1>2, <1>3

(* Steps that store nothing new leave each message with its tag or drop it. *)
LEMMA FewerKeepLatch ==
  ASSUME LatchInv, TypeOK, isDencunActivated' = isDencunActivated,
         \A v \in Validators : stored'[v] = NoMessage \/
           (Has(v) /\ stored'[v].content = stored[v].content /\ stored'[v].forkVersion = stored[v].forkVersion),
         \/ pc' = "idle"
         \/ pc # "idle" /\ isDencun' = isDencun /\ currentVersion' = currentVersion
  PROVE  LatchInv'
BY DEF LatchInv, DencunOnlyCapella, Has

LEMMA LatchStep == LatchInv /\ TypeOK /\ TypeOK' /\ [Next]_vars => LatchInv'
<1> SUFFICES ASSUME LatchInv, TypeOK, TypeOK', [Next]_vars PROVE LatchInv'
  OBVIOUS
<1> USE ContentsAssumption, NumbersAssumption
<1>a. ASSUME UNCHANGED <<stored, isDencunActivated>>, 
             pc' = "idle" \/ (pc # "idle" /\ UNCHANGED <<isDencun, currentVersion>>)
      PROVE  LatchInv'
  BY <1>a, FewerKeepLatch, EntryType
<1>b. ASSUME UNCHANGED <<stored, isDencunActivated, pc, isDencun, currentVersion>>
      PROVE  LatchInv'
  BY <1>b DEF LatchInv, DencunOnlyCapella, Has
<1>1. CASE BeginReload
  <2>1. PICK current \in ForkAnswers :
          /\ currentVersion' = current
          /\ isDencun' = isDencunHappened(current)
          /\ isDencunActivated' = (isDencunActivated \/ isDencunHappened(current))
          /\ stored' = OfFork(current)
    BY <1>1 DEF BeginReload
  <2>2. \A v \in Validators :
          Has(v)' => Has(v) /\ stored'[v] = stored[v] /\ stored[v].forkVersion = current
    BY <2>1 DEF OfFork, Has
  <2>3. current \in Nat
    BY DEF ForkAnswers
  <2>4. /\ isDencun' <=> isDencunActivated \/ current > Capella \/ ForceDencun
        /\ isDencunActivated' <=> isDencunActivated \/ current > Capella \/ ForceDencun
    <3>1. isDencunHappened(current) <=> isDencunActivated \/ current > Capella \/ ForceDencun
      BY DEF isDencunHappened
    <3>2. isDencun' \in BOOLEAN /\ isDencunActivated' \in BOOLEAN
      BY DEF TypeOK
    <3>3. isDencun' <=> isDencunHappened(current)
      BY <2>1, <3>2
    <3>4. isDencunActivated' <=> isDencunActivated \/ isDencunHappened(current)
      BY <2>1, <3>2
    <3> QED BY <3>1, <3>3, <3>4
  <2>5. DencunOnlyCapella'
    <3> SUFFICES ASSUME isDencunActivated', NEW v \in Validators, Has(v)'
                 PROVE  SignedFor[stored'[v].content] = Capella
      BY DEF DencunOnlyCapella
    <3>1. CASE isDencunActivated
      BY <3>1, <2>2 DEF LatchInv, DencunOnlyCapella
    <3>2. CASE ~isDencunActivated
      BY <3>2, <2>2, <2>3, <2>4 DEF LatchInv
    <3> QED BY <3>1, <3>2
  <2>6. ~isDencunActivated' => \A v \in Validators : Has(v)' => ~ForceDencun /\ stored'[v].forkVersion <= Capella
    BY <2>2, <2>3, <2>4
  <2>7. ~isDencun' => ~ForceDencun /\ currentVersion' <= Capella
    BY <2>1, <2>3, <2>4
  <2> QED BY <2>4, <2>5, <2>6, <2>7 DEF LatchInv
<1>2. CASE ListFolder
  BY <1>2, <1>a DEF ListFolder, storageVars, forkVars
<1>3. ASSUME NEW f \in Files, ReadFile(f) PROVE LatchInv'
  BY <1>3, <1>a DEF ReadFile, storageVars, forkVars
<1>4. CASE LoadNewMessages
  <2>1. \A v \in Validators : stored'[v] = NoMessage \/
          (Has(v) /\ stored'[v].content = stored[v].content /\ stored'[v].forkVersion = stored[v].forkVersion)
    BY <1>4, AfterTouch, EntryType DEF LoadNewMessages, Has
  <2> QED BY <1>4, <2>1, FewerKeepLatch DEF LoadNewMessages, forkVars
<1>5. CASE FetchState
  BY <1>5, <1>a DEF FetchState, storageVars, forkVars
<1>6. CASE VerifyAndStore
  <2>1. isDencunActivated' = isDencunActivated /\ pc' = "idle" /\ pc = "infos"
    BY <1>6 DEF VerifyAndStore, Return
  <2>2. (isDencun <=> isDencunActivated) /\ (~isDencun => ~ForceDencun /\ currentVersion <= Capella)
    BY <2>1 DEF LatchInv
  <2>3. ASSUME NEW v \in Validators, Has(v)'
        PROVE  /\ isDencunActivated => SignedFor[stored'[v].content] = Capella
               /\ ~isDencunActivated => ~ForceDencun /\ stored'[v].forkVersion <= Capella
    <3>1. stored'[v] = Updated(v)
      BY <1>6 DEF VerifyAndStore
    <3>2. CASE Verifying(v) # {}
      <4> DEFINE w == CHOOSE i \in fresh : Wins(i, v)
      <4>1. stored'[v] = [content |-> read[w].content, forkVersion |-> currentVersion, lastUpdate |-> lastUpdate]
        BY <3>1, <3>2 DEF Updated
      <4>2. Verified(read[w].content)
        BY <3>2, Winner DEF Verifying
      <4>3. isDencun => SignedFor[read[w].content] = Capella
        BY <4>2 DEF Verified, verifyFork
      <4> QED BY <2>2, <4>1, <4>3
    <3>3. CASE Verifying(v) = {}
      <4>1. stored'[v] = stored[v] /\ Has(v)
        BY <2>3, <3>1, <3>3 DEF Updated, Has
      <4> QED BY <4>1 DEF LatchInv, DencunOnlyCapella
    <3> QED BY <3>2, <3>3
  <2> QED BY <2>1, <2>3 DEF LatchInv, DencunOnlyCapella
<1>7. CASE FileGone
  BY <1>7, <1>a DEF FileGone, Abandon, Return, storageVars
<1>8. CASE FailReload
  BY <1>8, <1>a DEF FailReload, Abandon, Return, storageVars
<1>9. CASE Restart
  BY <1>9 DEF Restart, Return, LatchInv, DencunOnlyCapella, Has
<1>10. CASE EditFolder
  BY <1>10, <1>b DEF EditFolder, storageVars, forkVars
<1>11. CASE Upgrade
  BY <1>11, <1>b DEF Upgrade, storageVars, forkVars
<1>12. ASSUME NEW v \in Validators, StartExit(v) PROVE LatchInv'
  BY <1>12, <1>b DEF StartExit, storageVars, forkVars
<1>13. CASE UNCHANGED vars
  BY <1>13, <1>b DEF vars, storageVars, forkVars
<1>14. CASE LoadThrows
  <2>1. PICK C : stored' = Touch(C)
    BY <1>14 DEF LoadThrows
  <2> QED BY <1>14, <2>1, AfterTouch, EntryType, FewerKeepLatch DEF LoadThrows, Return, Has
<1> QED BY <1>1, <1>2, <1>3, <1>4, <1>5, <1>6, <1>7, <1>8, <1>9, <1>10, <1>11, <1>12, <1>13, <1>14
        DEF Next, Reload, Environment

(* Once Dencun is seen, no message that was verified for an older fork is  *)
(* left in the storage, in whatever order reloads fail, endpoints lag and  *)
(* forks come.                                                             *)
THEOREM DencunOnlyCapellaAlways == Spec => []DencunOnlyCapella
<1>1. Init => LatchInv
  BY DEF Init, LatchInv, DencunOnlyCapella, Has
<1>2. LatchInv => DencunOnlyCapella
  BY DEF LatchInv
<1> QED BY <1>1, <1>2, LatchStep, TypeCorrect, PTL DEF Spec

----------------------------------------------------------------------------
(* What a reload does to the files it reads. *)

(* Steps outside a reload, and those of a reload that leave the storage,   *)
(* the files read and what is known of them alone.                         *)
Untouched ==
  /\ UNCHANGED <<stored, lastUpdate, read, complete, invalid, fresh>>
  /\ exiting \subseteq exiting'
  /\ \/ pc' = pc
     \/ pc' = "read" /\ pc = "list"
     \/ pc' = "infos" /\ pc = "state"

(* From loadNewMessages on, every file read is invalid, new, or the one    *)
(* its validator's message came from, and such a message is touched.       *)
FilesInv ==
  /\ \A v \in Validators : Has(v) => ValidatorOf[stored[v].content] = v
  /\ complete => pc = "idle"
  /\ pc \in {"state", "infos"} =>
       /\ \A v \in Validators :
            Has(v) /\ stored[v].content \in contentsRead => stored[v].lastUpdate = lastUpdate
       /\ \A i \in DOMAIN read :
            \/ read[i].content \notin Messages /\ read[i].file \in invalid
            \/ i \in fresh
            \/ /\ read[i].content \in Messages
               /\ Has(ValidatorOf[read[i].content])
               /\ stored[ValidatorOf[read[i].content]].content = read[i].content
  /\ NoFileSkipped

(* The message a validator has after updateMessages. *)
LEMMA AfterUpdate ==
  ASSUME TypeOK, NEW v \in Validators
  PROVE  /\ Verifying(v) # {} =>
              \E i \in fresh : /\ ValidatorOf[read[i].content] = v
                               /\ Updated(v) = [content |-> read[i].content,
                                                forkVersion |-> currentVersion, lastUpdate |-> lastUpdate]
                               /\ Updated(v) # NoMessage
         /\ Verifying(v) = {} =>
              Updated(v) = IF Has(v) /\ Outdated(v) THEN NoMessage ELSE stored[v]
<1>1. CASE Verifying(v) # {}
  <2> DEFINE w == CHOOSE i \in fresh : Wins(i, v)
  <2>1. w \in fresh /\ ValidatorOf[read[w].content] = v
    BY <1>1, Winner DEF Verifying
  <2>2. Updated(v) = [content |-> read[w].content, forkVersion |-> currentVersion, lastUpdate |-> lastUpdate]
    BY <1>1 DEF Updated
  <2>3. read[w].content \in Messages
    BY <2>1 DEF TypeOK
  <2>4. Updated(v).content # NoMessage.content
    BY <2>2, <2>3, ContentsAssumption DEF NoMessage, Contents
  <2> QED BY <1>1, <2>1, <2>2, <2>4
<1>2. CASE Verifying(v) = {}
  BY <1>2 DEF Updated
<1> QED BY <1>1, <1>2

LEMMA FilesStep == FilesInv /\ TypeOK /\ TypeOK' /\ [Next]_vars => FilesInv'
<1> SUFFICES ASSUME FilesInv, TypeOK, TypeOK', [Next]_vars PROVE FilesInv'
  OBVIOUS
<1> USE ContentsAssumption
<1>a. ASSUME Untouched PROVE FilesInv'
  <2>1. contentsRead' = contentsRead /\ \A v \in Validators : Has(v)' <=> Has(v)
    BY <1>a DEF Untouched, contentsRead, Has
  <2>2. NoFileSkipped'
    <3>1. complete' = complete /\ read' = read /\ invalid' = invalid /\ stored' = stored
      BY <1>a DEF Untouched
    <3>2. exiting \subseteq exiting'
      BY <1>a DEF Untouched
    <3> QED BY <3>1, <3>2 DEF FilesInv, NoFileSkipped, Has
  <2>3. complete' => pc' = "idle"
    BY <1>a DEF Untouched, FilesInv
  <2>4. pc' \in {"state", "infos"} => pc \in {"state", "infos"}
    BY <1>a DEF Untouched
  <2>5. UNCHANGED <<stored, lastUpdate, read, invalid, fresh>>
    BY <1>a DEF Untouched
  <2> QED BY <2>1, <2>2, <2>3, <2>4, <2>5 DEF FilesInv, Has
<1>b. ASSUME complete' = FALSE, pc' \notin {"state", "infos"},
             \A v \in Validators : Has(v)' => Has(v) /\ stored'[v].content = stored[v].content
      PROVE  FilesInv'
  BY <1>b DEF FilesInv, NoFileSkipped
<1>c. ASSUME Abandon, pc # "idle" PROVE FilesInv'
  BY <1>b, <1>c DEF Abandon, Return, storageVars, FilesInv, TypeOK, Has
<1>1. CASE BeginReload
  <2>1. \A v \in Validators : Has(v)' => Has(v) /\ stored'[v] = stored[v]
    BY <1>1 DEF BeginReload, OfFork, Has
  <2> QED BY <1>1, <1>b, <2>1 DEF BeginReload
<1>2. CASE ListFolder
  BY <1>2, <1>a DEF ListFolder, Untouched, envVars, storageVars
<1>3. ASSUME NEW f \in Files, ReadFile(f) PROVE FilesInv'
  BY <1>3, <1>b DEF ReadFile, storageVars, FilesInv, TypeOK, Has
<1>4. CASE LoadNewMessages
  <2>1. /\ pc' = "state" /\ pc = "read" /\ stored' = Touch(contentsRead)
        /\ UNCHANGED <<lastUpdate, read, complete>>
        /\ fresh' = {i \in DOMAIN read : Parses(read[i].content) /\ ~AlreadyLoaded(read[i].content)}
        /\ invalid' = invalid \cup {read[i].file : i \in {j \in DOMAIN read : ~Parses(read[j].content)}}
    BY <1>4 DEF LoadNewMessages
  <2>2. ~complete' /\ contentsRead' = contentsRead
    BY <2>1 DEF FilesInv, TypeOK, contentsRead
  <2>3. \A v \in Validators : Has(v)' => ValidatorOf[stored'[v].content] = v
    BY <2>1, AfterTouch DEF FilesInv
  <2>4. \A v \in Validators :
          Has(v)' /\ stored'[v].content \in contentsRead' => stored'[v].lastUpdate = lastUpdate'
    BY <2>1, <2>2, AfterTouch
  <2>5. ASSUME NEW i \in DOMAIN read'
        PROVE  \/ read'[i].content \notin Messages /\ read'[i].file \in invalid'
               \/ i \in fresh'
               \/ /\ read'[i].content \in Messages
                  /\ stored'[ValidatorOf[read'[i].content]] # NoMessage
                  /\ stored'[ValidatorOf[read'[i].content]].content = read'[i].content
    <3>0. read' = read
      BY <2>1
    <3>1. CASE ~Parses(read[i].content)
      BY <2>1, <3>0, <3>1 DEF Parses
    <3>2. CASE Parses(read[i].content) /\ ~AlreadyLoaded(read[i].content)
      BY <2>1, <3>0, <3>2
    <3>3. CASE Parses(read[i].content) /\ AlreadyLoaded(read[i].content)
      <4>1. PICK v \in Validators : Has(v) /\ stored[v].content = read[i].content
        BY <3>3 DEF AlreadyLoaded
      <4>2. ValidatorOf[read[i].content] = v
        BY <4>1 DEF FilesInv
      <4>3. stored'[v] # NoMessage /\ stored'[v].content = stored[v].content
        BY <2>1, <4>1, AfterTouch DEF Has
      <4>4. read' = read /\ read[i].content \in Messages
        BY <2>1, <3>3 DEF Parses
      <4> QED BY <4>1, <4>2, <4>3, <4>4
    <3> QED BY <3>1, <3>2, <3>3
  <2>6. NoFileSkipped' /\ (complete' => pc' = "idle")
    BY <2>2 DEF NoFileSkipped
  <2>7. \A i \in DOMAIN read' :
          \/ read'[i].content \notin Messages /\ read'[i].file \in invalid'
          \/ i \in fresh'
          \/ /\ read'[i].content \in Messages
             /\ Has(ValidatorOf[read[i].content])'
             /\ stored'[ValidatorOf[read'[i].content]].content = read'[i].content
    BY <2>1, <2>5 DEF Has
  <2> QED BY <2>1, <2>3, <2>4, <2>6, <2>7 DEF FilesInv
<1>5. CASE FetchState
  BY <1>5, <1>a DEF FetchState, Untouched, envVars, storageVars
<1>6. CASE VerifyAndStore
  <2>1. /\ pc = "infos" /\ pc' = "idle" /\ UNCHANGED <<lastUpdate, read, exiting>>
        /\ stored' = [v \in Validators |-> Updated(v)]
        /\ invalid' = invalid \cup {read[i].file : i \in {j \in fresh : Rejected(read[j].content)}}
    BY <1>6 DEF VerifyAndStore, Return, envVars
  <2>2. \A v \in Validators : Has(v)' => ValidatorOf[stored'[v].content] = v
    <3> TAKE v \in Validators
    <3>1. CASE Verifying(v) # {}
      <4>1. PICK i \in fresh : /\ ValidatorOf[read[i].content] = v
                               /\ Updated(v).content = read[i].content
        BY <3>1, AfterUpdate
      <4> QED BY <2>1, <4>1
    <3>2. CASE Verifying(v) = {}
      BY <2>1, <3>2, AfterUpdate DEF FilesInv, Has
    <3> QED BY <3>1, <3>2
  <2>3. ASSUME NEW i \in DOMAIN read
        PROVE  \/ read[i].file \in invalid'
               \/ /\ read[i].content \in Messages
                  /\ \/ ValidatorOf[read[i].content] \in exiting
                     \/ stored'[ValidatorOf[read[i].content]] # NoMessage
    <3> DEFINE c == read[i].content
               v == ValidatorOf[c]
    <3>1. CASE read[i].file \in invalid
      BY <2>1, <3>1
    <3>2. CASE i \in fresh
      <4>1. c \in Messages /\ v \in Validators
        BY <3>2 DEF TypeOK
      <4>2. CASE Rejected(c)
        BY <2>1, <3>2, <4>2
      <4>3. CASE v \in exiting
        BY <3>2, <4>1, <4>3
      <4>4. CASE ~Rejected(c) /\ v \notin exiting
        <5>1. Verified(c)
          BY <4>4 DEF Rejected, Verified
        <5>2. Verifying(v) # {}
          BY <3>2, <5>1 DEF Verifying
        <5>3. stored'[v] # NoMessage
          BY <2>1, <4>1, <5>2, AfterUpdate
        <5> QED BY <4>1, <5>3
      <4> QED BY <4>2, <4>3, <4>4
    <3>3. CASE c \in Messages /\ Has(v) /\ stored[v].content = c
      <4>1. v \in Validators /\ c \in contentsRead
        BY <3>3 DEF contentsRead
      <4>2. stored[v].lastUpdate = lastUpdate
        BY <2>1, <3>3, <4>1 DEF FilesInv
      <4>3. ~Outdated(v)
        BY <4>2 DEF Outdated, TypeOK
      <4>4. stored'[v] # NoMessage
        <5>1. CASE Verifying(v) # {}
          BY <2>1, <4>1, <5>1, AfterUpdate
        <5>2. CASE Verifying(v) = {}
          BY <2>1, <3>3, <4>1, <4>3, <5>2, AfterUpdate DEF Has
        <5> QED BY <5>1, <5>2
      <4> QED BY <3>3, <4>4
    <3> QED BY <2>1, <3>1, <3>2, <3>3 DEF FilesInv
  <2>4. NoFileSkipped'
    BY <2>1, <2>3 DEF NoFileSkipped, Has
  <2> QED BY <2>1, <2>2, <2>4 DEF FilesInv
<1>7. CASE FileGone
  BY <1>7, <1>c DEF FileGone
<1>8. CASE FailReload
  BY <1>8, <1>c DEF FailReload
<1>9. CASE Restart
  <2>1. \A v \in Validators : ~Has(v)'
    BY <1>9 DEF Restart, Has
  <2> QED BY <1>9, <1>b, <2>1 DEF Restart, Return
<1>10. CASE EditFolder
  BY <1>10, <1>a DEF EditFolder, Untouched, storageVars
<1>11. CASE Upgrade
  BY <1>11, <1>a DEF Upgrade, Untouched, storageVars
<1>12. ASSUME NEW v \in Validators, StartExit(v) PROVE FilesInv'
  BY <1>12, <1>a DEF StartExit, Untouched, storageVars
<1>13. CASE UNCHANGED vars
  BY <1>13, <1>a DEF vars, Untouched, envVars, storageVars
<1>14. CASE LoadThrows
  <2>1. PICK C : stored' = Touch(C)
    BY <1>14 DEF LoadThrows
  <2>2. \A v \in Validators : Has(v)' => Has(v) /\ stored'[v].content = stored[v].content
    BY <2>1, AfterTouch
  <2> QED BY <1>14, <1>b, <2>2 DEF LoadThrows, Return, FilesInv, TypeOK
<1> QED BY <1>1, <1>2, <1>3, <1>4, <1>5, <1>6, <1>7, <1>8, <1>9, <1>10, <1>11, <1>12, <1>13, <1>14
        DEF Next, Reload, Environment

LEMMA FilesAlways == Spec => []FilesInv
<1>1. Init => FilesInv
  BY DEF Init, FilesInv, NoFileSkipped, Has
<1> QED BY <1>1, FilesStep, TypeCorrect, PTL DEF Spec

(* No file of a completed reload is lost without a trace. *)
THEOREM NoFileSkippedAlways == Spec => []NoFileSkipped
<1>1. FilesInv => NoFileSkipped
  BY DEF FilesInv
<1> QED BY <1>1, FilesAlways, PTL

----------------------------------------------------------------------------
(* No message is lost without cause. *)

LossStep ==
  \A v \in Validators :
    Has(v) /\ stored'[v] = NoMessage =>
      \/ pc = "idle" /\ stored[v].forkVersion # currentVersion'
      \/ complete' /\ stored[v].content \notin contentsRead
      \/ lastUpdate' = 0

LEMMA LossByStep == FilesInv /\ TypeOK /\ [Next]_vars => [LossStep]_vars
<1> SUFFICES ASSUME FilesInv, TypeOK, [Next]_vars PROVE LossStep
  OBVIOUS
<1>a. ASSUME UNCHANGED stored PROVE LossStep
  BY <1>a DEF LossStep, Has
<1>1. CASE BeginReload
  BY <1>1 DEF BeginReload, OfFork, LossStep, Has
<1>2. CASE ListFolder
  BY <1>2, <1>a DEF ListFolder, storageVars
<1>3. ASSUME NEW f \in Files, ReadFile(f) PROVE LossStep
  BY <1>3, <1>a DEF ReadFile, storageVars
<1>4. CASE LoadNewMessages
  BY <1>4, AfterTouch DEF LoadNewMessages, LossStep, Has
<1>5. CASE FetchState
  BY <1>5, <1>a DEF FetchState, storageVars
<1>6. CASE VerifyAndStore
  <2> SUFFICES ASSUME NEW v \in Validators, Has(v), stored'[v] = NoMessage
               PROVE  complete' /\ stored[v].content \notin contentsRead
    BY DEF LossStep
  <2>1. pc = "infos" /\ complete' /\ stored'[v] = Updated(v)
    BY <1>6 DEF VerifyAndStore
  <2>2. Outdated(v)
    BY <2>1, AfterUpdate DEF Has
  <2>3. stored[v].lastUpdate # lastUpdate
    BY <2>2 DEF Outdated, TypeOK
  <2> QED BY <2>1, <2>3 DEF FilesInv
<1>7. CASE FileGone
  BY <1>7, <1>a DEF FileGone, Abandon, storageVars
<1>8. CASE FailReload
  BY <1>8, <1>a DEF FailReload, Abandon, storageVars
<1>9. CASE Restart
  BY <1>9 DEF Restart, LossStep
<1>10. CASE EditFolder
  BY <1>10, <1>a DEF EditFolder, storageVars
<1>11. CASE Upgrade
  BY <1>11, <1>a DEF Upgrade, storageVars
<1>12. ASSUME NEW v \in Validators, StartExit(v) PROVE LossStep
  BY <1>12, <1>a DEF StartExit, storageVars
<1>13. CASE UNCHANGED vars
  BY <1>13, <1>a DEF vars, storageVars
<1>14. CASE LoadThrows
  <2>1. PICK C : stored' = Touch(C)
    BY <1>14 DEF LoadThrows
  <2> QED BY <2>1, AfterTouch DEF LossStep, Has
<1> QED BY <1>1, <1>2, <1>3, <1>4, <1>5, <1>6, <1>7, <1>8, <1>9, <1>10, <1>11, <1>12, <1>13, <1>14
        DEF Next, Reload, Environment

(* A reload that fails, and one that finds the file again, lose nothing.   *)
THEOREM LostForCauseAlways == Spec => LostForCause
<1>1. [][LossStep]_vars => LostForCause
  BY PTL DEF LossStep, LostForCause
<1> QED BY <1>1, LossByStep, FilesAlways, TypeCorrect, PTL DEF Spec

----------------------------------------------------------------------------
(* The storage follows the folder, as long as the clock goes forward. *)

(* Between the opening of the cycle and the touching of its files every    *)
(* message is older than the cycle; after it, those that are not were read.*)
CycleInv ==
  /\ \A v \in Validators : Has(v) => stored[v].lastUpdate <= lastUpdate
  /\ pc \in {"list", "read"} => \A v \in Validators : Has(v) => stored[v].lastUpdate < lastUpdate
  /\ pc \in {"state", "infos"} =>
       \A v \in Validators : Has(v) /\ stored[v].lastUpdate = lastUpdate => stored[v].content \in contentsRead
  /\ complete => pc = "idle"
  /\ StoredFromFolder

LEMMA CycleStep ==
  ASSUME ClockSteps = FALSE
  PROVE  CycleInv /\ TypeOK /\ TypeOK' /\ [Next]_vars => CycleInv'
<1> SUFFICES ASSUME CycleInv, TypeOK, TypeOK', [Next]_vars PROVE CycleInv'
  OBVIOUS
<1> USE ContentsAssumption
<1>0. \A v \in Validators : Has(v) => stored[v].lastUpdate \in Nat
  BY EntryType DEF Entry
<1>a. ASSUME UNCHANGED <<stored, lastUpdate, read, complete>>,
             pc' = pc \/ (pc' = "read" /\ pc = "list") \/ (pc' = "infos" /\ pc = "state")
      PROVE  CycleInv'
  BY <1>a DEF CycleInv, StoredFromFolder, contentsRead, Has
<1>b. ASSUME UNCHANGED <<stored, lastUpdate, complete>>, pc # "idle",
             pc' = "idle" \/ (pc' = "read" /\ pc = "read")
      PROVE  CycleInv'
  BY <1>b DEF CycleInv, StoredFromFolder, Has
<1>1. CASE BeginReload
  <2>1. \A v \in Validators : Has(v)' => Has(v) /\ stored'[v] = stored[v]
    BY <1>1 DEF BeginReload, OfFork, Has
  <2>2. lastUpdate' = lastUpdate + 1 /\ pc' = "list" /\ complete' = FALSE
    BY <1>1 DEF BeginReload, ClockAnswers
  <2>3. \A v \in Validators : Has(v)' => stored'[v].lastUpdate < lastUpdate'
    BY <1>0, <2>1, <2>2 DEF CycleInv, TypeOK
  <2>4. \A v \in Validators : Has(v)' => stored'[v].lastUpdate <= lastUpdate'
    BY <1>0, <2>1, <2>2, <2>3 DEF TypeOK
  <2> QED BY <2>2, <2>3, <2>4 DEF CycleInv, StoredFromFolder
<1>2. CASE ListFolder
  BY <1>2, <1>a DEF ListFolder, storageVars
<1>3. ASSUME NEW f \in Files, ReadFile(f) PROVE CycleInv'
  BY <1>3, <1>b DEF ReadFile, storageVars
<1>4. CASE LoadNewMessages
  <2>1. /\ pc' = "state" /\ pc = "read" /\ stored' = Touch(contentsRead)
        /\ UNCHANGED <<lastUpdate, read, complete>>
    BY <1>4 DEF LoadNewMessages
  <2>2. ~complete' /\ contentsRead' = contentsRead
    BY <2>1 DEF CycleInv, TypeOK, contentsRead
  <2>3. ASSUME NEW v \in Validators, Has(v)'
        PROVE  /\ stored'[v].lastUpdate <= lastUpdate
               /\ stored'[v].lastUpdate = lastUpdate => stored'[v].content \in contentsRead
    <3>1. /\ Has(v) /\ stored'[v].content = stored[v].content
          /\ stored'[v].lastUpdate = IF stored[v].content \in contentsRead
                                     THEN lastUpdate ELSE stored[v].lastUpdate
      BY <2>1, <2>3, AfterTouch
    <3>2. stored[v].lastUpdate < lastUpdate
      BY <2>1, <3>1 DEF CycleInv
    <3> QED BY <1>0, <3>1, <3>2 DEF TypeOK
  <2> QED BY <2>1, <2>2, <2>3 DEF CycleInv, StoredFromFolder
<1>5. CASE FetchState
  BY <1>5, <1>a DEF FetchState, storageVars
<1>6. CASE VerifyAndStore
  <2>1. /\ pc = "infos" /\ pc' = "idle" /\ UNCHANGED <<lastUpdate, read>>
        /\ stored' = [v \in Validators |-> Updated(v)]
    BY <1>6 DEF VerifyAndStore, Return
  <2>2. contentsRead' = contentsRead
    BY <2>1 DEF contentsRead
  <2>3. ASSUME NEW v \in Validators, Has(v)'
        PROVE  stored'[v].lastUpdate <= lastUpdate /\ stored'[v].content \in contentsRead
    <3>1. CASE Verifying(v) # {}
      <4>1. PICK i \in fresh : /\ Updated(v).content = read[i].content
                               /\ Updated(v).lastUpdate = lastUpdate
        BY <3>1, AfterUpdate
      <4>2. read[i].content \in contentsRead
        BY DEF TypeOK, contentsRead
      <4> QED BY <2>1, <4>1, <4>2 DEF TypeOK
    <3>2. CASE Verifying(v) = {}
      <4>1. Has(v) /\ ~Outdated(v) /\ stored'[v] = stored[v]
        BY <2>1, <2>3, <3>2, AfterUpdate DEF Has
      <4>2. stored[v].lastUpdate = lastUpdate
        BY <1>0, <4>1 DEF Outdated, CycleInv, TypeOK
      <4> QED BY <2>1, <4>1, <4>2 DEF CycleInv, TypeOK
    <3> QED BY <3>1, <3>2
  <2> QED BY <2>1, <2>2, <2>3 DEF CycleInv, StoredFromFolder
<1>7. CASE FileGone
  BY <1>7, <1>b DEF FileGone, Abandon, Return, storageVars
<1>8. CASE FailReload
  BY <1>8, <1>b DEF FailReload, Abandon, Return, storageVars
<1>9. CASE Restart
  BY <1>9 DEF Restart, Return, CycleInv, StoredFromFolder, Has
<1>10. CASE EditFolder
  BY <1>10, <1>a DEF EditFolder, storageVars
<1>11. CASE Upgrade
  BY <1>11, <1>a DEF Upgrade, storageVars
<1>12. ASSUME NEW v \in Validators, StartExit(v) PROVE CycleInv'
  BY <1>12, <1>a DEF StartExit, storageVars
<1>13. CASE UNCHANGED vars
  BY <1>13, <1>a DEF vars, storageVars
<1>14. CASE LoadThrows
  <2>1. PICK C : stored' = Touch(C)
    BY <1>14 DEF LoadThrows
  <2>2. pc = "read" /\ pc' = "idle" /\ UNCHANGED <<lastUpdate, complete>>
    BY <1>14 DEF LoadThrows, Return
  <2>3. ~complete'
    BY <2>2 DEF CycleInv, TypeOK
  <2>4. \A v \in Validators : Has(v)' => stored'[v].lastUpdate <= lastUpdate
    BY <1>0, <2>1, AfterTouch DEF CycleInv, TypeOK
  <2> QED BY <2>2, <2>3, <2>4 DEF CycleInv, StoredFromFolder
<1> QED BY <1>1, <1>2, <1>3, <1>4, <1>5, <1>6, <1>7, <1>8, <1>9, <1>10, <1>11, <1>12, <1>13, <1>14
        DEF Next, Reload, Environment

(* With a clock that goes forward, a message whose file is gone leaves the *)
(* storage with the first reload that ends, however many failed before it. *)
THEOREM StoredFromFolderAlways ==
  ASSUME ClockSteps = FALSE
  PROVE  Spec => []StoredFromFolder
<1>1. Init => CycleInv
  BY DEF Init, CycleInv, StoredFromFolder, Has
<1>2. CycleInv => StoredFromFolder
  BY DEF CycleInv
<1>3. CycleInv /\ TypeOK /\ TypeOK' /\ [Next]_vars => CycleInv'
  BY CycleStep
<1> QED BY <1>1, <1>2, <1>3, TypeCorrect, PTL DEF Spec

----------------------------------------------------------------------------
(* What a reload leaves behind, exactly. *)

ExactStep ==
  complete' /\ ~complete =>
    \A v \in Validators :
      stored'[v] # NoMessage <=>
        \/ Has(v) /\ stored[v].content \in contentsRead
        \/ \E i \in DOMAIN read : /\ read[i].content \in Messages
                                  /\ ValidatorOf[read[i].content] = v
                                  /\ Verified(read[i].content)

(* A message read is new, or it is the one its validator has.              *)
LEMMA ReadMessage ==
  ASSUME FilesInv, pc \in {"state", "infos"}, NEW i \in DOMAIN read, read[i].content \in Messages
  PROVE  \/ i \in fresh
         \/ /\ Has(ValidatorOf[read[i].content])
            /\ stored[ValidatorOf[read[i].content]].content = read[i].content
BY DEF FilesInv

(* A message is kept to the end of a reload when it was read, not else.    *)
LEMMA KeptIfRead ==
  ASSUME TypeOK, FilesInv, CycleInv, pc = "infos", NEW v \in Validators, Has(v)
  PROVE  stored[v].content \in contentsRead <=> ~Outdated(v)
<1>1. stored[v].lastUpdate \in Nat /\ lastUpdate \in Nat
  BY EntryType DEF Entry, TypeOK
<1>2. stored[v].content \in contentsRead => stored[v].lastUpdate = lastUpdate
  BY DEF FilesInv
<1>3. stored[v].lastUpdate = lastUpdate => stored[v].content \in contentsRead
  BY DEF CycleInv
<1>4. stored[v].lastUpdate <= lastUpdate
  BY DEF CycleInv
<1> QED BY <1>1, <1>2, <1>3, <1>4 DEF Outdated

LEMMA ExactByUpdate ==
  ASSUME TypeOK, FilesInv, CycleInv, VerifyAndStore
  PROVE  ExactStep
<1> SUFFICES ASSUME NEW v \in Validators
             PROVE  stored'[v] # NoMessage <=>
                      \/ Has(v) /\ stored[v].content \in contentsRead
                      \/ \E i \in DOMAIN read : /\ read[i].content \in Messages
                                                /\ ValidatorOf[read[i].content] = v
                                                /\ Verified(read[i].content)
  BY DEF ExactStep
<1>1. pc = "infos" /\ stored'[v] = Updated(v)
  BY DEF VerifyAndStore
<1>2. CASE Verifying(v) # {}
  <2>1. PICK i \in fresh : ValidatorOf[read[i].content] = v /\ Verified(read[i].content)
    BY <1>2 DEF Verifying
  <2>2. i \in DOMAIN read /\ read[i].content \in Messages
    BY <2>1 DEF TypeOK
  <2>3. stored'[v] # NoMessage
    BY <1>1, <1>2, AfterUpdate
  <2> QED BY <2>1, <2>2, <2>3
<1>3. CASE Verifying(v) = {}
  <2>1. stored'[v] # NoMessage <=> Has(v) /\ ~Outdated(v)
    BY <1>1, <1>3, AfterUpdate DEF Has
  <2>2. ASSUME NEW i \in DOMAIN read, read[i].content \in Messages,
               ValidatorOf[read[i].content] = v, Verified(read[i].content)
        PROVE  Has(v) /\ stored[v].content \in contentsRead
    <3>1. i \notin fresh
      BY <1>3, <2>2 DEF Verifying
    <3>2. Has(v) /\ stored[v].content = read[i].content
      BY <1>1, <2>2, <3>1, ReadMessage
    <3> QED BY <3>2 DEF contentsRead
  <2>3. Has(v) => (stored[v].content \in contentsRead <=> ~Outdated(v))
    BY <1>1, KeptIfRead
  <2> QED BY <2>1, <2>2, <2>3
<1> QED BY <1>2, <1>3

LEMMA ExactByStep == TypeOK /\ FilesInv /\ CycleInv /\ [Next]_vars => ExactStep
<1> SUFFICES ASSUME TypeOK, FilesInv, CycleInv, [Next]_vars PROVE ExactStep
  OBVIOUS
<1>a. ASSUME complete' = complete \/ complete' = FALSE PROVE ExactStep
  BY <1>a DEF ExactStep
<1>1. CASE VerifyAndStore
  BY <1>1, ExactByUpdate
<1>2. CASE BeginReload \/ Restart
  BY <1>2, <1>a DEF BeginReload, Restart
<1>3. CASE ListFolder \/ LoadNewMessages \/ FetchState
  BY <1>3, <1>a DEF ListFolder, LoadNewMessages, FetchState
<1>4. ASSUME NEW f \in Files, ReadFile(f) PROVE ExactStep
  BY <1>4, <1>a DEF ReadFile
<1>5. CASE LoadThrows \/ FileGone \/ FailReload
  BY <1>5, <1>a DEF LoadThrows, FileGone, FailReload, Abandon
<1>6. CASE EditFolder \/ Upgrade
  BY <1>6, <1>a DEF EditFolder, Upgrade
<1>7. ASSUME NEW v \in Validators, StartExit(v) PROVE ExactStep
  BY <1>7, <1>a DEF StartExit
<1>8. CASE UNCHANGED vars
  BY <1>8, <1>a DEF vars
<1> QED BY <1>1, <1>2, <1>3, <1>4, <1>5, <1>6, <1>7, <1>8 DEF Next, Reload, Environment

(* With a clock that goes forward, a reload that ends leaves a message for *)
(* exactly the validators whose file it read and whose message it held or  *)
(* could verify, whatever changed while it was suspended.                  *)
THEOREM ReloadExactAlways ==
  ASSUME ClockSteps = FALSE
  PROVE  Spec => ReloadExact
<1>1. Init => CycleInv
  BY DEF Init, CycleInv, StoredFromFolder, Has
<1>2. CycleInv /\ TypeOK /\ TypeOK' /\ [Next]_vars => CycleInv'
  BY CycleStep
<1>3. TypeOK /\ FilesInv /\ CycleInv /\ [Next]_vars => [ExactStep]_vars
  BY ExactByStep
<1>4. [][ExactStep]_vars => ReloadExact
  BY PTL DEF ExactStep, ReloadExact
<1> QED BY <1>1, <1>2, <1>3, <1>4, FilesAlways, TypeCorrect, PTL DEF Spec

----------------------------------------------------------------------------
(* One fork at a time. *)

(* All messages of the storage were verified by reloads of the same fork:  *)
(* a fork takes all of them or none, which is why Ejector lets a reload    *)
(* keep what is stored or nothing of it.                                   *)
OneFork ==
  \A v, w \in Validators : Has(v) /\ Has(w) => stored[v].forkVersion = stored[w].forkVersion

(* While a reload is under way it is the fork that it works for.           *)
ForkInv ==
  /\ pc # "idle" => \A v \in Validators : Has(v) => stored[v].forkVersion = currentVersion
  /\ OneFork

LEMMA ForkStep == ForkInv /\ TypeOK /\ TypeOK' /\ [Next]_vars => ForkInv'
<1> SUFFICES ASSUME ForkInv, TypeOK, TypeOK', [Next]_vars PROVE ForkInv'
  OBVIOUS
<1>a. ASSUME \A v \in Validators : Has(v)' => Has(v) /\ stored'[v].forkVersion = stored[v].forkVersion,
             pc' = "idle" \/ (pc # "idle" /\ currentVersion' = currentVersion)
      PROVE  ForkInv'
  BY <1>a DEF ForkInv, OneFork
<1>b. ASSUME UNCHANGED stored, pc' = "idle" \/ (pc # "idle" /\ currentVersion' = currentVersion)
      PROVE  ForkInv'
  BY <1>a, <1>b DEF Has
<1>c. ASSUME UNCHANGED <<stored, pc, currentVersion>> PROVE ForkInv'
  BY <1>c DEF ForkInv, OneFork, Has
<1>1. CASE BeginReload
  <2>1. stored' = OfFork(currentVersion') /\ pc' = "list"
    BY <1>1 DEF BeginReload
  <2>2. \A v \in Validators : Has(v)' => stored'[v].forkVersion = currentVersion'
    BY <2>1 DEF OfFork, Has
  <2> QED BY <2>1, <2>2 DEF ForkInv, OneFork
<1>2. CASE ListFolder \/ FetchState
  BY <1>2, <1>b DEF ListFolder, FetchState, storageVars, forkVars
<1>3. ASSUME NEW f \in Files, ReadFile(f) PROVE ForkInv'
  BY <1>3, <1>b DEF ReadFile, storageVars, forkVars
<1>4. CASE LoadNewMessages
  <2>1. stored' = Touch(contentsRead) /\ pc = "read" /\ currentVersion' = currentVersion
    BY <1>4 DEF LoadNewMessages, forkVars
  <2>2. \A v \in Validators : Has(v)' => Has(v) /\ stored'[v].forkVersion = stored[v].forkVersion
    BY <2>1, AfterTouch
  <2> QED BY <1>a, <2>1, <2>2
<1>5. CASE VerifyAndStore
  <2>1. pc = "infos" /\ pc' = "idle" /\ stored' = [v \in Validators |-> Updated(v)]
    BY <1>5 DEF VerifyAndStore, Return
  <2>2. ASSUME NEW v \in Validators, Has(v)' PROVE stored'[v].forkVersion = currentVersion
    <3>1. CASE Verifying(v) # {}
      <4>1. PICK i \in fresh : Updated(v) = [content |-> read[i].content,
                                            forkVersion |-> currentVersion, lastUpdate |-> lastUpdate]
        BY <3>1, AfterUpdate
      <4> QED BY <2>1, <4>1
    <3>2. CASE Verifying(v) = {}
      <4>1. Has(v) /\ stored'[v] = stored[v]
        BY <2>1, <2>2, <3>2, AfterUpdate DEF Has
      <4> QED BY <2>1, <4>1 DEF ForkInv
    <3> QED BY <3>1, <3>2
  <2> QED BY <2>1, <2>2 DEF ForkInv, OneFork
<1>6. CASE LoadThrows
  <2>1. PICK C : stored' = Touch(C)
    BY <1>6 DEF LoadThrows
  <2>2. pc' = "idle"
    BY <1>6 DEF LoadThrows, Return
  <2>3. \A v \in Validators : Has(v)' => Has(v) /\ stored'[v].forkVersion = stored[v].forkVersion
    BY <2>1, AfterTouch
  <2> QED BY <1>a, <2>2, <2>3
<1>7. CASE FileGone \/ FailReload
  BY <1>7, <1>b DEF FileGone, FailReload, Abandon, Return, storageVars
<1>8. CASE Restart
  BY <1>8 DEF Restart, Return, ForkInv, OneFork, Has
<1>9. CASE EditFolder \/ Upgrade
  BY <1>9, <1>c DEF EditFolder, Upgrade, storageVars, forkVars
<1>10. ASSUME NEW v \in Validators, StartExit(v) PROVE ForkInv'
  BY <1>10, <1>c DEF StartExit, storageVars, forkVars
<1>11. CASE UNCHANGED vars
  BY <1>11, <1>c DEF vars, storageVars, forkVars
<1> QED BY <1>1, <1>2, <1>3, <1>4, <1>5, <1>6, <1>7, <1>8, <1>9, <1>10, <1>11
        DEF Next, Reload, Environment

(* The storage never mixes messages taken in under two forks, through      *)
(* reloads that fail half way and endpoints that answer with an old fork.  *)
THEOREM OneForkAlways == Spec => []OneFork
<1>1. Init => ForkInv
  BY DEF Init, ForkInv, OneFork, Has
<1>2. ForkInv => OneFork
  BY DEF ForkInv
<1> QED BY <1>1, <1>2, ForkStep, TypeCorrect, PTL DEF Spec
=============================================================================
