\* The model writes a character outside the basic plane with two escapes.
CONSTANTS
  Documents <- EmojiDocuments
  Preambles <- NoText
  Trailers <- NoText
  MaxFragment = 3
SPECIFICATION Spec
CHECK_DEADLOCK FALSE
INVARIANTS
  EscapesDecoded
