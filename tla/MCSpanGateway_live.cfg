\* Two concurrent requests over two spans, with every remote call fallible.
CONSTANTS
  r1 = r1
  r2 = r2
  s1 = s1
  s2 = s2
  None = None
  Reqs <- MCReqs
  Spans <- MCSpans
  RemoteFaults = TRUE
SPECIFICATION Spec
PROPERTY RunWaitBounded
