\* Any error path of the client: is the server task still running?
CONSTANTS
  Safe <- MCSafe
  Claimed <- MCClaimed
  TxNodes <- MCTxNodes
  ColdStore = {}
  UpstreamFaults = TRUE
  ConversionFaults = TRUE
  MaxReads = 2
  ReadAhead = 1
SPECIFICATION Spec
INVARIANT ServerStoppedAfterRun
