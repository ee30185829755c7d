SPECIFICATION Spec
CONSTANTS
  a1 = a1
  q1 = q1
  s1 = s1
  None = None
  AggReqs <- MCAggReqs
  StatusReqs <- MCStatusReqs
  SpanIds <- MCSpanIds
  SubProofs <- MCSubProofs
  Heads <- MCHeads
  L1Blocks <- MCL1Blocks
  MaxSubproofs = 2
  RemoteFaults = TRUE
PROPERTY StatusReturns
