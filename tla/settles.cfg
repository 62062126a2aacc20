\* One upload, processed with the graph on; two steps raise or die.
SPECIFICATION FairSpec
CONSTANTS
  DocIds = {d1}
  Contents = {c1, c2}
  EmptyContents = {c2}
  JobIds = {1, 2, 3, 4, 5, 6, 7, 8}
  Batches = 2
  None = None
  MaxTries <- ThreeTries
  Disturbances = {"error", "crash"}
  MaxDisturbances = 2
  GraphEnabled = TRUE
  Uploads = {u1}
  Deletes = {}
  Reprocesses = {}
  Forces = {FALSE}
  Patient = FALSE
INVARIANT CompleteHasAllChunks
PROPERTIES
  EveryDocumentSettles
  GraphStatusSettles
CHECK_DEADLOCK FALSE
