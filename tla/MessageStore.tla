---------------------------- MODULE MessageStore ----------------------------
(***************************************************************************)
(* services/message-reloader, services/messages-processor,                 *)
(* services/fork-version-resolver and job-processor/message-storage: the   *)
(* exit messages the ejector holds, one per validator.                     *)
(*                                                                         *)
(* Every job reloads them.  A reload learns the finalized fork, opens an   *)
(* update cycle, drops the messages of other forks, reads the files one by *)
(* one, touches the messages it already has (by checksum), verifies the    *)
(* new ones and, in one synchronous step at its end, drops what was not    *)
(* touched and stores what was verified.  A reload that fails leaves what  *)
(* it has done so far.  Files, forks and exits change between any two of   *)
(* its awaits.  The lock of the job runner keeps reloads from overlapping. *)
(*                                                                         *)
(* A file's content is a model value and its own checksum.  Encryption,    *)
(* JSON and the two message formats are reduced to whether it parses.      *)
(* In webhook mode there is nothing to reload and none of this happens.    *)
(***************************************************************************)
EXTENDS Integers, Sequences

CONSTANTS
  Files,        \* names of .json files
  Messages,     \* contents that decrypt, parse and pass exitOrEthDoExitDTO
  Garbage,      \* contents that do not, empty ones included
  Poison,       \* those of them that are JSON but no object
  NoFile,       \* in place of a content: there is no such file
  Validators,   \* validator indices
  Known,        \* those the beacon chain knows
  ValidatorOf,  \* [Messages -> Validators]
  SignedFor,    \* [Messages -> Nat]: the fork whose domain the signature has
  Capella,      \* CAPELLA_FORK_VERSION; forks are numbered in their order
  ForceDencun,  \* FORCE_DENCUN_FORK_MODE
  ForkLag,      \* how far behind an endpoint answering states/finalized may be
  ClockSteps,   \* may Date.now() go back between two reloads
  MaxFork,      \* bound: the last fork
  MaxClock,     \* bound: readings of the clock
  MaxFaults     \* bound: failed calls and restarts

Contents == Messages \cup Garbage

ASSUME ContentsAssumption ==
  /\ Messages \cap Garbage = {}
  /\ Poison \subseteq Garbage
  /\ NoFile \notin Contents
  /\ ValidatorOf \in [Messages -> Validators]
  /\ SignedFor \in [Messages -> Nat]
  /\ Known \subseteq Validators

ASSUME NumbersAssumption ==
  /\ Capella \in Nat
  /\ ForkLag \in Nat
  /\ MaxFork \in Nat
  /\ MaxClock \in Nat
  /\ MaxFaults \in Nat
  /\ ForceDencun \in BOOLEAN
  /\ ClockSteps \in BOOLEAN

VARIABLES
  folder,             \* MESSAGES_LOCATION: the content of every file
  fork,               \* the fork of the finalized state
  exiting,            \* validators exiting in the head state
  isDencunActivated,  \* fork resolver: the latch
  lastUpdate,         \* storage: LAST_UPDATE
  stored,             \* storage: messagesMetadata with messagesLastUpdate
  invalid,            \* processor: invalidExitMessageFiles
  pc,                 \* the await the reload is suspended in, "idle" outside
  currentVersion,     \* forkInfo.currentVersion
  isDencun,           \* forkInfo.isDencun
  listed,             \* reader: names not read yet
  read,               \* reader: the files read, in their order
  fresh,              \* loadNewMessages: messagesWithMetadata, as positions in read
  state,              \* verify: state.current_version
  complete,           \* whether the last reload came to its end (history)
  faults              \* bound counter

envVars == <<folder, fork, exiting>>
storageVars == <<lastUpdate, stored>>
forkVars == <<isDencunActivated, currentVersion, isDencun>>
vars == <<envVars, storageVars, forkVars, invalid, pc, listed, read, fresh, state, complete, faults>>

NoMessage == [content |-> NoFile]
Entry == [content : Messages, forkVersion : Nat, lastUpdate : Nat]
FileRead == [file : Files, content : Contents]

TypeOK ==
  /\ folder \in [Files -> Contents \cup {NoFile}]
  /\ fork \in Nat
  /\ exiting \subseteq Validators
  /\ isDencunActivated \in BOOLEAN
  /\ lastUpdate \in Nat
  /\ stored \in [Validators -> Entry \cup {NoMessage}]
  /\ invalid \subseteq Files
  /\ pc \in {"idle", "list", "read", "state", "infos"}
  /\ currentVersion \in Nat
  /\ isDencun \in BOOLEAN
  /\ listed \subseteq Files
  /\ read \in Seq(FileRead)
  /\ fresh \subseteq {i \in DOMAIN read : read[i].content \in Messages}
  /\ state \in Nat
  /\ complete \in BOOLEAN
  /\ faults \in Nat

Init ==
  /\ folder \in [Files -> {NoFile}]
  /\ fork \in 0 .. MaxFork
  /\ exiting = {}
  /\ isDencunActivated = FALSE
  /\ lastUpdate = 0
  /\ stored = [v \in Validators |-> NoMessage]
  /\ invalid = {}
  /\ pc = "idle"
  /\ currentVersion = 0
  /\ isDencun = FALSE
  /\ listed = {}
  /\ read = <<>>
  /\ fresh = {}
  /\ state = 0
  /\ complete = FALSE
  /\ faults = 0

Has(v) == stored[v] # NoMessage

----------------------------------------------------------------------------
(* The world around a reload. *)

(* The operator adds, replaces or removes a file. *)
EditFolder ==
  /\ \E f \in Files, c \in Contents \cup {NoFile} :
       folder[f] # c /\ folder' = [folder EXCEPT ![f] = c]
  /\ UNCHANGED <<fork, exiting, storageVars, forkVars, invalid, pc, listed, read, fresh, state, complete, faults>>

(* The finalized state crosses a fork. *)
Upgrade ==
  /\ fork < MaxFork
  /\ fork' = fork + 1
  /\ UNCHANGED <<folder, exiting, storageVars, forkVars, invalid, pc, listed, read, fresh, state, complete, faults>>

(* A validator starts to exit. *)
StartExit(v) ==
  /\ v \in Known \ exiting
  /\ exiting' = exiting \cup {v}
  /\ UNCHANGED <<folder, fork, storageVars, forkVars, invalid, pc, listed, read, fresh, state, complete, faults>>

----------------------------------------------------------------------------
(* fork-version-resolver and the start of loadToMemoryStorage. *)

ForkAnswers == {n \in 0 .. fork : n >= fork - ForkLag}

(* Date.now(), in a form that keeps the order of the readings only. *)
ClockAnswers == IF ClockSteps THEN (1 .. MaxClock) \ {lastUpdate} ELSE {lastUpdate + 1} \cap 1 .. MaxClock

(* Mutation: the storage is emptied before it is loaded again. *)
Emptied(version) == [v \in Validators |-> NoMessage]

(* Mutation: the latch is not consulted. *)
DencunByVersion(current) == current > Capella \/ ForceDencun

(* isDencunHappened: once seen, for ever. *)
isDencunHappened(current) == isDencunActivated \/ current > Capella \/ ForceDencun

(* removeOldForkVersionMessages. *)
OfFork(version) ==
  [v \in Validators |->
     IF Has(v) /\ stored[v].forkVersion # version THEN NoMessage ELSE stored[v]]

(* getForkVersionInfo, whose second call asks for a constant, up to the    *)
(* reading of the folder: nothing is awaited from the latch on.            *)
BeginReload ==
  /\ pc = "idle"
  /\ \E current \in ForkAnswers :
       /\ currentVersion' = current
       /\ isDencun' = isDencunHappened(current)
       /\ isDencunActivated' = (isDencunActivated \/ isDencunHappened(current))
       /\ stored' = OfFork(current)
  /\ lastUpdate' \in ClockAnswers
  /\ invalid' = {}
  /\ read' = <<>>
  /\ fresh' = {}
  /\ complete' = FALSE
  /\ pc' = "list"
  /\ UNCHANGED <<envVars, listed, state, faults>>

----------------------------------------------------------------------------
(* readFolder: the names first, then one file after the other. *)

ListFolder ==
  /\ pc = "list"
  /\ listed' = {f \in Files : folder[f] # NoFile}
  /\ pc' = "read"
  /\ UNCHANGED <<envVars, storageVars, forkVars, invalid, read, fresh, state, complete, faults>>

(* The order of the names is the reader's own. *)
ReadFile(f) ==
  /\ pc = "read"
  /\ f \in listed
  /\ folder[f] # NoFile
  /\ read' = Append(read, [file |-> f, content |-> folder[f]])
  /\ listed' = listed \ {f}
  /\ UNCHANGED <<envVars, storageVars, forkVars, invalid, pc, fresh, state, complete, faults>>

----------------------------------------------------------------------------
(* loadNewMessages, after readFolder. *)

(* Mutation: what is new is told by the validator, not by the checksum. *)
ValidatorLoaded(content) == content \in Messages /\ Has(ValidatorOf[content])

(* touchMessageWithChecksum would find a message. *)
AlreadyLoaded(content) == \E v \in Validators : Has(v) /\ stored[v].content = content

(* Mutation: a file that is already loaded is passed over. *)
LeaveAlone(contents) == stored

(* touchMessageWithChecksum of all files read. *)
Touch(contents) ==
  [v \in Validators |->
     IF Has(v) /\ stored[v].content \in contents
     THEN [stored[v] EXCEPT !.lastUpdate = lastUpdate] ELSE stored[v]]

(* Mutation: exitOrEthDoExitDTO is skipped. *)
ParsesAnyhow(content) == TRUE

(* It is not empty, decrypts, is JSON and has the shape of an exit. *)
Parses(content) == content \in Messages

contentsRead == {read[i].content : i \in DOMAIN read}

poisoned == {i \in DOMAIN read : read[i].content \in Poison}

LoadNewMessages ==
  /\ pc = "read"
  /\ listed = {}
  /\ poisoned = {}
  /\ stored' = Touch(contentsRead)
  /\ fresh' = {i \in DOMAIN read : Parses(read[i].content) /\ ~AlreadyLoaded(read[i].content)}
  /\ invalid' = invalid \cup {read[i].file : i \in {j \in DOMAIN read : ~Parses(read[j].content)}}
  /\ pc' = "state"
  /\ UNCHANGED <<envVars, lastUpdate, forkVars, listed, read, state, complete, faults>>

----------------------------------------------------------------------------
(* verify, then the end of loadToMemoryStorage. *)

(* genesis() and state(): the fork is asked for a second time. *)
FetchState ==
  /\ pc = "state"
  /\ state' \in ForkAnswers
  /\ pc' = "infos"
  /\ UNCHANGED <<envVars, storageVars, forkVars, invalid, listed, read, fresh, complete, faults>>

verifyFork(m) ==
  IF isDencun THEN SignedFor[m] = Capella ELSE SignedFor[m] \in {state, state - 1}

(* Messages of validators that are exiting are neither stored nor invalid. *)
Rejected(m) == ValidatorOf[m] \notin Known \/ (ValidatorOf[m] \notin exiting /\ ~verifyFork(m))
Verified(m) == ValidatorOf[m] \in Known \ exiting /\ verifyFork(m)

(* Mutation: a message may miss one update cycle. *)
MissedTwoCycles(v) == stored[v].lastUpdate < lastUpdate - 1

(* removeOldMessages. *)
Outdated(v) == stored[v].lastUpdate < lastUpdate

(* updateMessages: of several messages of a validator the last one wins. *)
Verifying(v) == {i \in fresh : ValidatorOf[read[i].content] = v /\ Verified(read[i].content)}
Wins(i, v) == i \in Verifying(v) /\ \A j \in Verifying(v) : j <= i

Updated(v) ==
  IF Verifying(v) # {}
  THEN [content |-> read[CHOOSE i \in fresh : Wins(i, v)].content,
        forkVersion |-> currentVersion, lastUpdate |-> lastUpdate]
  ELSE IF Has(v) /\ Outdated(v) THEN NoMessage ELSE stored[v]

(* The locals of a reload that is over. *)
Return ==
  /\ pc' = "idle"
  /\ currentVersion' = 0
  /\ isDencun' = FALSE
  /\ listed' = {}
  /\ fresh' = {}
  /\ state' = 0

(* fetchValidatorsInfoBatch answers, and the rest is synchronous. *)
VerifyAndStore ==
  /\ pc = "infos"
  /\ invalid' = invalid \cup {read[i].file : i \in {j \in fresh : Rejected(read[j].content)}}
  /\ stored' = [v \in Validators |-> Updated(v)]
  /\ complete' = TRUE
  /\ Return
  /\ UNCHANGED <<envVars, lastUpdate, isDencunActivated, read, faults>>

----------------------------------------------------------------------------
(* The reload rejects and the job with it; the storage stays as it is. *)
Abandon ==
  /\ Return
  /\ read' = <<>>
  /\ UNCHANGED <<envVars, storageVars, isDencunActivated, invalid, complete>>

(* The in operator throws on JSON that is no object, outside of any catch: *)
(* only the files before it have been looked at.                           *)
LoadThrows ==
  /\ pc = "read"
  /\ listed = {}
  /\ \E p \in poisoned :
       /\ \A q \in poisoned : p <= q
       /\ stored' = Touch({read[i].content : i \in 1 .. p - 1})
       /\ invalid' = invalid \cup {read[i].file : i \in {j \in 1 .. p - 1 : ~Parses(read[j].content)}}
  /\ Return
  /\ read' = <<>>
  /\ UNCHANGED <<envVars, lastUpdate, isDencunActivated, complete, faults>>

(* A file that was listed is gone. *)
FileGone ==
  /\ pc = "read"
  /\ \E f \in listed : folder[f] = NoFile
  /\ Abandon
  /\ UNCHANGED faults

(* A call of the reader or of the consensus API fails. *)
FailReload ==
  /\ pc # "idle"
  /\ faults < MaxFaults
  /\ faults' = faults + 1
  /\ Abandon

(* A new process, an unreadable directory included: nothing is persisted. *)
Restart ==
  /\ faults < MaxFaults
  /\ faults' = faults + 1
  /\ Return
  /\ isDencunActivated' = FALSE
  /\ lastUpdate' = 0
  /\ stored' = [v \in Validators |-> NoMessage]
  /\ invalid' = {}
  /\ read' = <<>>
  /\ complete' = FALSE
  /\ UNCHANGED envVars

Reload ==
  \/ BeginReload
  \/ ListFolder
  \/ \E f \in Files : ReadFile(f)
  \/ LoadNewMessages
  \/ FetchState
  \/ VerifyAndStore
  \/ LoadThrows
  \/ FileGone

Environment == EditFolder \/ Upgrade \/ \E v \in Validators : StartExit(v)

Next == Reload \/ FailReload \/ Restart \/ Environment

Spec == Init /\ [][Next]_vars

----------------------------------------------------------------------------
(* Properties. *)

(* Once the resolver has seen Dencun, every message in the storage is      *)
(* signed for Capella, the only signatures the chain still accepts: also   *)
(* while a reload is under way, after one that failed, and when an         *)
(* endpoint that is behind answers with the old fork again.                *)
DencunOnlyCapella ==
  isDencunActivated => \A v \in Validators : Has(v) => SignedFor[stored[v].content] = Capella

(* After a reload that came to its end the storage holds no message of a   *)
(* file that is not in the folder any more, whatever the reloads before it *)
(* left behind.                                                            *)
StoredFromFolder ==
  complete => \A v \in Validators : Has(v) => stored[v].content \in contentsRead

(* After a reload that came to its end every file it read is accounted     *)
(* for: reported as invalid, of a validator that is exiting, or the        *)
(* storage holds a message of its validator.                               *)
NoFileSkipped ==
  complete =>
    \A i \in DOMAIN read :
      \/ read[i].file \in invalid
      \/ /\ read[i].content \in Messages
         /\ \/ ValidatorOf[read[i].content] \in exiting
            \/ Has(ValidatorOf[read[i].content])

(* The message of a validator goes only when the fork changed, its file    *)
(* did not turn up in a whole reading of the folder, or the process ended: *)
(* a reload that fails loses no message.                                   *)
LostForCause ==
  [][\A v \in Validators :
       Has(v) /\ stored'[v] = NoMessage =>
         \/ pc = "idle" /\ stored[v].forkVersion # currentVersion'
         \/ complete' /\ stored[v].content \notin contentsRead
         \/ lastUpdate' = 0]_vars

(* What a reload that comes to its end leaves behind, whatever happened to *)
(* folder, fork and validators on its way, and whatever earlier reloads    *)
(* left: the validators with a message exactly are those with a file read  *)
(* whose message was held already, or verifies now.  It is the form in     *)
(* which Ejector takes a reload.                                           *)
ReloadExact ==
  [][complete' /\ ~complete =>
       \A v \in Validators :
         stored'[v] # NoMessage <=>
           \/ Has(v) /\ stored[v].content \in contentsRead
           \/ \E i \in DOMAIN read : /\ read[i].content \in Messages
                                     /\ ValidatorOf[read[i].content] = v
                                     /\ Verified(read[i].content)]_vars
=============================================================================
