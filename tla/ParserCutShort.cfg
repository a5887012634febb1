\* The output of the model reaches max_tokens inside the description.
CONSTANTS
  Documents <- PlainDocuments
  Preambles <- NoText
  Trailers <- NoText
  MaxFragment = 3
SPECIFICATION Spec
CHECK_DEADLOCK FALSE
INVARIANTS
  StreamValuesUsed
