\* The same requests without the graph; any one thing goes wrong.
SPECIFICATION Spec
CONSTANTS
  DocIds = {d1}
  Contents = {c1}
  EmptyContents = {}
  JobIds = {1, 2, 3, 4, 5, 6}
  Batches = 1
  None = None
  MaxTries <- MixedTries
  Disturbances = {"error", "lostReply", "crash", "abandon", "abort"}
  MaxDisturbances = 1
  GraphEnabled = FALSE
  Uploads = {u1}
  Deletes = {x1}
  Reprocesses = {p1}
  Forces = {FALSE}
  Patient = FALSE
INVARIANTS
  SnapshotHasMarkdown
  MarkdownBacked
PROPERTIES
  DeletedGainsNothing
CHECK_DEADLOCK FALSE
