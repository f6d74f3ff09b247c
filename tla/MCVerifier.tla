----------------------------- MODULE MCVerifier -----------------------------
(* An instance of Verifier for TLC.                                        *)
EXTENDS Verifier

CONSTANTS t1, c1, t2, c2, s1, s2,  \* transactions
          d1, d2, d3               \* reports

MCTxs == {t1, c1, t2, c2, s1, s2}
MCReports == {d1, d2, d3}

(* t1 submits the report d1 through execute(), and the oracle's c1 has     *)
(* reported its hash; t2 and c2 do the same for d2, which no oracle signed;*)
(* s1 and s2 submit d3 and d2 without an oracle, and s1 is allowlisted.    *)
(* The report of t1 came with an access list.                              *)
MCRebuildable == MCTxs \ {t1}
MCFnOf == [t \in MCTxs |->
  CASE t \in {t1, t2} -> "submitReportData"
    [] t \in {c1, c2} -> "submitReport"
    [] OTHER -> "submitExitRequestsData"]
MCExecuteTarget == [t \in MCTxs |->
  CASE t = t1 -> "exitBus" [] t = c1 -> "consensus" [] OTHER -> "none"]
MCReportOf == [t \in MCTxs |->
  CASE t \in {t1, c1} -> d1 [] t = s1 -> d3 [] OTHER -> d2]
MCSignerOf == [t \in MCTxs |-> IF t = c1 THEN "oracle" ELSE "stranger"]
MCPubkeysIn == [r \in MCReports |->
  CASE r = d1 -> {"k1", "k2"} [] r = d2 -> {"k3"} [] r = d3 -> {"k4"}]
MCReachedBy == [r \in MCReports |->
  CASE r = d1 -> {c1} [] r = d2 -> {c2} [] r = d3 -> {}]
MCMinedIn == [t \in MCTxs |-> IF t = c1 THEN 1 ELSE 3]

(* A request of d1, one of the unsigned d2, one of the allowlisted         *)
(* submission and one that claims to be; one whose frame reaches behind the*)
(* first block, and one whose frame begins behind the report of c1.        *)
MCEvents == 1 .. 6
MCValidatorPubkey == <<"k1", "k3", "k4", "k3", "k2", "k2">>
MCTransactionHash == <<t1, t2, s1, s1, t1, t1>>
MCBlockNumber == <<3, 3, 3, 3, 1, 4>>
=============================================================================
