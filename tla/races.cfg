\* One document; its upload, a reprocess and a delete at any time, graph on;
\* one call of a handler raises.
SPECIFICATION FairSpec
CONSTANTS
  DocIds = {d1}
  Contents = {c1}
  EmptyContents = {}
  JobIds = {1, 2, 3, 4, 5, 6}
  Batches = 1
  None = None
  MaxTries <- TwoTries
  Disturbances = {"error"}
  MaxDisturbances = 1
  GraphEnabled = TRUE
  Uploads = {u1}
  Deletes = {x1}
  Reprocesses = {p1}
  Forces = {FALSE}
  Patient = FALSE
INVARIANTS
  TypeOK
  PointVersionBound
PROPERTIES
  DeletedGainsNothing
  EveryDocumentSettles
  GraphStatusSettles
CHECK_DEADLOCK FALSE
