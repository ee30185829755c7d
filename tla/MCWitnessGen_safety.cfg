\* Faults on, and the pipeline may read one block past the executed head.
CONSTANTS
  Safe <- MCSafe
  Claimed <- MCClaimed
  TxNodes <- MCTxNodes
  ColdStore = {}
  UpstreamFaults = TRUE
  ConversionFaults = TRUE
  MaxReads = 2
  ReadAhead = 1
SPECIFICATION Spec
INVARIANT TypeOK
INVARIANT GetServable
INVARIANT ReadSound
PROPERTY RunEnds ImplementsWitnessRun
