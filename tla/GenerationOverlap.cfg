\* request_queue.py:11: the LLM serves max_concurrent generations at a time.
CONSTANTS
  c1 = c1  c2 = c2  s1 = s1  None = None
  Requests <- TwoContents
  ContentRequests <- TwoContents
  MaxConcurrent = 1
  MaxQueueSize = 1
SPECIFICATION Spec
INVARIANT
  LlmServesMaxConcurrent
