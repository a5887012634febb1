\* download_llm_model.py:6-7: a file that is kept has the right hash.
CONSTANTS
  h1 = h1
  h2 = h2
  c1 = c1
  c2 = c2
  Hosts <- TwoHosts
  Contents <- TwoContents
  Truncated = Truncated
  Unknown = Unknown
  MaxVersions = 3
  None = None
SPECIFICATION Spec
INVARIANTS
  DownloadedIsComplete
