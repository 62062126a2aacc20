\* Two documents, clients that wait for a terminal status; errors, no graph.
SPECIFICATION Spec
CONSTANTS
  DocIds = {d1, d2}
  Contents = {c1, c2}
  EmptyContents = {c2}
  JobIds = {1, 2, 3, 4, 5, 6, 7, 8}
  Batches = 2
  None = None
  MaxTries <- CodeTries
  Disturbances = {"error"}
  MaxDisturbances = 2
  GraphEnabled = FALSE
  Uploads = {u1, u2}
  Deletes = {x1}
  Reprocesses = {p1}
  Forces = {FALSE, TRUE}
  Patient = TRUE
INVARIANTS
  CompleteIsConsistent
  SourceBacked
  RawHasOwner
  DeletionLeavesNothing
PROPERTY ImplementsLifecycle
CHECK_DEADLOCK FALSE
