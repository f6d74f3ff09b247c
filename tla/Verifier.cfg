SPECIFICATION Spec
CONSTANTS
  t1 = t1
  c1 = c1
  t2 = t2
  c2 = c2
  s1 = s1
  s2 = s2
  d1 = d1
  d2 = d2
  d3 = d3
  Txs <- MCTxs
  fnOf <- MCFnOf
  executeTarget <- MCExecuteTarget
  reportOf <- MCReportOf
  signerOf <- MCSignerOf
  Rebuildable <- MCRebuildable
  Reports <- MCReports
  pubkeysIn <- MCPubkeysIn
  ReachedBy <- MCReachedBy
  minedIn <- MCMinedIn
  Events <- MCEvents
  validatorPubkey <- MCValidatorPubkey
  transactionHash <- MCTransactionHash
  blockNumber <- MCBlockNumber
  OracleAllowlist = {"oracle"}
  SubmitAllowlist = {s1}
  FrameBlocks = 2
  Step = 2
  CacheSize = 2
  None = None
  MaxLies = 2
INVARIANTS
  TypeOK
  AcceptedIsGenuine
  RejectedForCause
  AcceptedInFrame
PROPERTIES
  VerificationEnds
