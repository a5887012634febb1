\* generate_content.py:93-94: a persistence failure does not abort the stream.
CONSTANTS
  c1 = c1  c2 = c2  s1 = s1  None = None
  Requests <- TwoContents
  ContentRequests <- TwoContents
  MaxConcurrent = 1
  MaxQueueSize = 1
SPECIFICATION Spec
INVARIANT
  PersistenceFailureSparesStream
