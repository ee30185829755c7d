\* No faults, and the pipeline reads only blocks already executed.
CONSTANTS
  Safe <- MCSafe
  Claimed <- MCClaimed
  TxNodes <- MCTxNodes
  ColdStore = {}
  UpstreamFaults = FALSE
  ConversionFaults = FALSE
  MaxReads = 2
  ReadAhead = 0
SPECIFICATION Spec
PROPERTY RunSucceeds
