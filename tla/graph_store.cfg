\* Two builds and a removal of two documents at any time; one is cut short.
SPECIFICATION Spec
CONSTANTS
  d1 = d1
  d2 = d2
  acme = acme
  acmeInc = acmeInc
  Docs = {d1, d2}
  Names = {acme, acmeInc}
  Spelling <- MCSpelling
  Keys <- MCKeys
  Lower <- MCLower
  Close <- MCClose
  NamesIn <- MCNamesIn
  RelsIn <- MCRelsIn
  Builds = {b1, b2}
  Removals = {r1}
  MaxCuts = 1
  None = None
SYMMETRY BuildSymmetry
INVARIANTS
  TypeOK
  MentionsCoverDocuments
  OrphansAwaitPurge
  RelationshipsConnect
PROPERTY OnlyOwnRemovals
CHECK_DEADLOCK FALSE
