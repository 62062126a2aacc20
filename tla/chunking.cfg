\* Every markdown of at most six headings, blank lines and paragraphs.
SPECIFICATION Spec
CONSTANTS
  Paragraphs <- MCParagraphs
  MaxItems = 6
  MaxTokens = 4
  OverlapPercent = 50
  CharsPerToken = 4
  HeadingLength = 4
INVARIANTS
  TypeOK
  EverythingIsChunked
  ChunksFit
  ChainEncloses
CHECK_DEADLOCK FALSE
