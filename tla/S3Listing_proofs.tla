-------------------------- MODULE S3Listing_proofs --------------------------
(***************************************************************************)
(* Theorems about S3Listing: for which buckets the read returns, and what. *)
(***************************************************************************)
EXTENDS S3Listing, TLAPS

(* The flag of a page that was truncated is never taken back.              *)
StuckInv ==
  /\ pc \in {"list", "page", "rejected"}
  /\ token \in 1 .. Pages
  /\ isTruncated \in BOOLEAN
  /\ token > 1 => isTruncated

(* A bucket listed as two pages or more is never returned, nor downloaded: *)
(* the read rejects or goes on asking for its last page, because the last  *)
(* answer does not clear the flag of the loop.                             *)
THEOREM NeverReturns ==
  ASSUME Pages \in Nat, Pages > 1
  PROVE  Spec => [](pc \notin {"download", "returned"})
<1>1. Init => StuckInv
  <2>1. Init => isTruncated \in BOOLEAN /\ pc = "list"
    BY DEF Init
  <2>2. Init => token = 1 /\ 1 \in 1 .. Pages /\ ~(1 > 1)
    BY DEF Init
  <2> QED BY <2>1, <2>2 DEF StuckInv
<1>2. StuckInv /\ [Next]_vars => StuckInv'
  <2> SUFFICES ASSUME StuckInv, [Next]_vars PROVE StuckInv'
    OBVIOUS
  <2> USE DEF StuckInv
  <2>1. CASE SendList
    BY <2>1 DEF SendList
  <2>2. CASE TakePage
    <3>1. CASE token < Pages
      <4>1. isTruncated' = TRUE /\ token' = token + 1 /\ pc' = "list"
        BY <2>2, <3>1 DEF TakePage
      <4> QED BY <3>1, <4>1
    <3>2. CASE ~(token < Pages)
      <4>1. isTruncated = TRUE
        BY <3>2
      <4>2. isTruncated' = TRUE /\ token' = token /\ pc' = "list"
        BY <2>2, <3>2, <4>1 DEF TakePage
      <4> QED BY <4>2
    <3> QED BY <3>1, <3>2
  <2>3. ASSUME NEW p \in 1 .. Pages, Download(p) PROVE StuckInv'
    BY <2>3 DEF Download
  <2>4. CASE Return
    BY <2>4 DEF Return
  <2>5. CASE Reject
    BY <2>5 DEF Reject
  <2>6. CASE UNCHANGED vars
    BY <2>6 DEF vars
  <2> QED BY <2>1, <2>2, <2>3, <2>4, <2>5, <2>6 DEF Next, Progress
<1>3. StuckInv => pc \notin {"download", "returned"}
  BY DEF StuckInv
<1> QED BY <1>1, <1>2, <1>3, PTL DEF Spec

(* With one page the keys are complete before the first download, and the  *)
(* flag stays down.                                                        *)
OnePageInv ==
  /\ token = 1
  /\ isTruncated = FALSE
  /\ files \subseteq fileNames
  /\ fileNames \subseteq {1}
  /\ pc \in {"download", "returned"} => fileNames = {1}
  /\ pc = "returned" => files = fileNames

(* What the read returns is the whole bucket, when it has one page.        *)
THEOREM ReturnsOnePage ==
  ASSUME Pages = 1
  PROVE  Spec => [](pc = "returned" => files = 1 .. Pages)
<1>1. Init => OnePageInv
  BY DEF Init, OnePageInv
<1>2. OnePageInv /\ [Next]_vars => OnePageInv'
  <2> SUFFICES ASSUME OnePageInv, [Next]_vars PROVE OnePageInv'
    OBVIOUS
  <2> USE DEF OnePageInv
  <2>1. CASE SendList
    BY <2>1 DEF SendList
  <2>2. CASE TakePage
    <3>1. ~(token < Pages)
      OBVIOUS
    <3>2. isTruncated' = FALSE /\ token' = token /\ pc' = "download" /\ fileNames' = fileNames \cup {1}
      BY <2>2, <3>1 DEF TakePage
    <3>3. pc = "page" /\ files' = files
      BY <2>2 DEF TakePage
    <3> QED BY <3>2, <3>3
  <2>3. ASSUME NEW p \in 1 .. Pages, Download(p) PROVE OnePageInv'
    BY <2>3 DEF Download
  <2>4. CASE Return
    BY <2>4 DEF Return
  <2>5. CASE Reject
    BY <2>5 DEF Reject
  <2>6. CASE UNCHANGED vars
    BY <2>6 DEF vars
  <2> QED BY <2>1, <2>2, <2>3, <2>4, <2>5, <2>6 DEF Next, Progress
<1>3. OnePageInv => (pc = "returned" => files = 1 .. Pages)
  BY DEF OnePageInv
<1> QED BY <1>1, <1>2, <1>3, PTL DEF Spec
=============================================================================
