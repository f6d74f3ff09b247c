----------------------------- MODULE S3Listing -----------------------------
(***************************************************************************)
(* services/s3-store: read() lists a bucket page by page, then downloads   *)
(* one object after the other.  S3 answers a page, whether more follow and *)
(* the token of the next one; what it holds does not change meanwhile.     *)
(***************************************************************************)
EXTENDS Integers

CONSTANT Pages   \* number of pages the bucket lists as, at least one

VARIABLES
  token,        \* listCommand.input.ContinuationToken, as the page it names
  isTruncated,  \* the flag of the loop
  fileNames,    \* pages whose keys are in fileNames
  files,        \* pages whose objects are in files
  pc            \* "list", "page", "download", "returned", "rejected"

vars == <<token, isTruncated, fileNames, files, pc>>

Init ==
  /\ token = 1
  /\ isTruncated = FALSE
  /\ fileNames = {}
  /\ files = {}
  /\ pc = "list"

SendList ==
  /\ pc = "list"
  /\ pc' = "page"
  /\ UNCHANGED <<token, isTruncated, fileNames, files>>

(* The answer to the list command: IsTruncated sets the flag and the token *)
(* when it is true, and nothing when it is false.                          *)
TakePage ==
  LET IsTruncated == token < Pages IN
  /\ pc = "page"
  /\ fileNames' = fileNames \cup {token}
  /\ isTruncated' = (isTruncated \/ IsTruncated)
  /\ token' = IF IsTruncated THEN token + 1 ELSE token
  /\ pc' = IF isTruncated' THEN "list" ELSE "download"
  /\ UNCHANGED files

Download(p) ==
  /\ pc = "download"
  /\ p \in fileNames \ files
  /\ files' = files \cup {p}
  /\ UNCHANGED <<token, isTruncated, fileNames, pc>>

Return ==
  /\ pc = "download"
  /\ files = fileNames
  /\ pc' = "returned"
  /\ UNCHANGED <<token, isTruncated, fileNames, files>>

(* A call of the client rejects. *)
Reject ==
  /\ pc \in {"page", "download"}
  /\ pc' = "rejected"
  /\ UNCHANGED <<token, isTruncated, fileNames, files>>

Progress == SendList \/ TakePage \/ (\E p \in 1 .. Pages : Download(p)) \/ Return

Next == Progress \/ Reject

(* Every call of the client settles, and the loop goes on. *)
Spec == Init /\ [][Next]_vars /\ WF_vars(Progress)

(* Exit messages are loaded from the bucket, or the read rejects: it does  *)
(* not go on for ever.                                                     *)
ReadEnds == <>(pc \in {"returned", "rejected"})
=============================================================================
