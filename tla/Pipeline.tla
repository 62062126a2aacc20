------------------------------ MODULE Pipeline ------------------------------
(***************************************************************************)
(* The document pipeline: API requests and the jobs of the three workers,  *)
(* interleaved over the shared stores and the job queue.                   *)
(***************************************************************************)
EXTENDS Api, Converter, Chunker, GraphWorker

vars == <<docs, raw, markdown, points, graph, jobs, disturbances, reqs>>

Init == StoresInit /\ ArqInit /\ ApiInit

(* What the code does by itself once it has been asked. *)
RequestStep(r) ==
  \/ r \in Uploads /\ UploadDocument(r)
  \/ r \in Deletes /\ DeleteDocumentRoute(r)
  \/ r \in Reprocesses /\ ReprocessDocument(r)

JobStep(j) ==
  /\ \/ StartJob(j)
     \/ GiveUpJob(j)
     \/ ConvertDocument(j)
     \/ ChunkAndEmbed(j)
     \/ BuildGraph(j)
  /\ UNCHANGED reqs

(* What clients ask for, and what goes wrong. *)
ReceiveRequest(r) ==
  \/ r \in Uploads /\ UploadReceive(r)
  \/ r \in Deletes \cup Reprocesses /\ ReceiveForDocument(r)

DisturbJob(j) ==
  /\ CrashJob(j) \/ AbandonJob(j) \/ ErrorInJob(j)
  /\ UNCHANGED reqs

Next ==
  \/ \E r \in Reqs : RequestStep(r) \/ ReceiveRequest(r) \/ AbortRequest(r)
  \/ \E j \in JobIds : JobStep(j) \/ DisturbJob(j)

Spec == Init /\ [][Next]_vars

(* arq workers poll their queue for ever and run every job they find, and  *)
(* uvicorn runs every request it has accepted: each of them goes on as     *)
(* long as it can.                                                         *)
Fairness ==
  /\ \A r \in Reqs : WF_vars(RequestStep(r))
  /\ \A j \in JobIds : WF_vars(JobStep(j))

FairSpec == Spec /\ Fairness

-----------------------------------------------------------------------------
(* Type invariant of the pipeline: documents, stores, jobs and requests    *)
(* hold what the code puts in them.                                        *)
TypeOK == StoresTypeOK /\ ArqTypeOK /\ ApiTypeOK

-----------------------------------------------------------------------------
(* Safety *)

(* The request r is still at work on d, or was cut short half-way. *)
DeletionBegun(r, d) ==
  r \in Deletes /\ reqs[r].doc = d /\ reqs[r].pc # "done"

(* Nothing is at work on d. *)
Quiet(d) ==
  /\ \A j \in JobIds : jobs[j].doc = d => ~Active(j)
  /\ \A r \in Reqs : reqs[r].doc = d => ~InProgress(r)

(* chunk_and_embed takes doc["markdown_blob_path"] from the record it      *)
(* read: whatever overtakes it (a second conversion, a reprocess, a        *)
(* delete, a redelivery), the record it reads has the path.                *)
SnapshotHasMarkdown ==
  \A j \in JobIds :
    /\ jobs[j].kind = "chunk"
    /\ jobs[j].pc \in {"get", "empty", "clear", "put", "finish", "enqueue"}
    => jobs[j].snap.md

(* GET /documents/{id}/markdown finds the object the record points to,     *)
(* unless a deletion of that document has begun.                           *)
MarkdownBacked ==
  \A d \in DocIds :
    Live(d) /\ docs[d].md =>
      d \in markdown \/ \E r \in Deletes : DeletionBegun(r, d)

(* The raw object of a document is there to be converted until a deletion  *)
(* of some document with the same bytes has begun: raw objects are named   *)
(* by their hash, so that a delete takes the source of every other         *)
(* document of equal bytes, but nothing else does.                         *)
SourceBacked ==
  \A d \in DocIds :
    Live(d) =>
      \/ docs[d].content \in raw
      \/ \E r \in Deletes :
           reqs[r].doc # None /\ reqs[r].content = docs[d].content

(* Nothing is left in MinIO that nobody owns: as long as nothing goes      *)
(* wrong, a raw object has a document of its bytes, or an upload of them   *)
(* is about to insert one, although requests for equal bytes share it.     *)
RawHasOwner ==
  disturbances = 0 =>
    \A c \in raw :
      \/ FindByHash(c) # {}
      \/ \E r \in Uploads : reqs[r].pc = "insert" /\ reqs[r].content = c

(* DELETE removes a document and its chunks: when clients are patient, no  *)
(* chunk outlives its document, whatever errors there were, and when there *)
(* were none, no markdown does: the route deletes it only if the record it *)
(* read at its start had the path.                                         *)
DeletionLeavesNothing ==
  /\ \A p \in points : Live(p.doc)
  /\ disturbances = 0 => \A d \in markdown : Live(d)

(* The doc_version in the payload of a chunk is never ahead of the version *)
(* of its document, however jobs and reprocess requests interleave.        *)
PointVersionBound ==
  \A p \in points : Live(p.doc) => p.version \in 1 .. docs[p.doc].version

(* A job holds a record of d that it read while d existed. *)
HoldsSnapshot(j, d) == jobs[j].doc = d /\ jobs[j].snap.state = "live"

(* Deletion is final, and a document that is gone gains chunks, references *)
(* or markdown only from a job that had read its record before: a job      *)
(* started later finds no document and writes nothing.                     *)
DeletedGainsNothing ==
  [][\A d \in DocIds :
       docs[d].state = "deleted" =>
         /\ docs'[d] = docs[d]
         /\ (\A j \in JobIds : ~HoldsSnapshot(j, d)) =>
              /\ PointsOf(d)' \subseteq PointsOf(d)
              /\ GraphOf(d)' \subseteq GraphOf(d)
              /\ d \in markdown' => d \in markdown]_vars

(* A COMPLETE document at rest has in Qdrant the chunks of one run of the  *)
(* chunker, all of them, of its current version, and chunk_count counts    *)
(* them.                                                                   *)
ChunksMatchRecord(d) ==
  /\ Cardinality(PointsOf(d)) = docs[d].chunkCount
  /\ \A p \in PointsOf(d) : p.version = docs[d].version
  /\ {p.batch : p \in PointsOf(d)} = 1 .. docs[d].chunkCount
  /\ docs[d].chunkCount = IF docs[d].content \in EmptyContents THEN 0 ELSE Batches

CompleteIsConsistent ==
  \A d \in DocIds :
    Live(d) /\ docs[d].status = "complete" /\ Quiet(d) => ChunksMatchRecord(d)

(* The weaker promise that survives redelivery: a COMPLETE document at     *)
(* rest has all the chunks of some run of the chunker, of its current      *)
(* version, and chunk_count is their number.                               *)
CompleteHasAllChunks ==
  \A d \in DocIds :
    Live(d) /\ docs[d].status = "complete" /\ Quiet(d) =>
      /\ docs[d].chunkCount = IF docs[d].content \in EmptyContents THEN 0 ELSE Batches
      /\ \E j \in JobIds, try \in 1 .. MaxTries["chunk"] :
           \A b \in 1 .. docs[d].chunkCount :
             [doc |-> d, version |-> docs[d].version, job |-> j, try |-> try,
              batch |-> b] \in points

-----------------------------------------------------------------------------
(* The promise to clients, implemented by the pipeline *)

Phase(d) ==
  IF docs[d].state = "unused" THEN "absent"
  ELSE IF docs[d].state = "deleted" THEN "deleted"
  ELSE IF docs[d].status \in TerminalStatuses THEN "settled"
  ELSE "processing"

Promise == INSTANCE Lifecycle WITH
  Docs <- DocIds,
  phase <- [d \in DocIds |-> Phase(d)],
  version <- [d \in DocIds |-> docs[d].version]

(* A document a patient client waits for goes through the phases of the    *)
(* Lifecycle specification: a terminal status stays until the client asks  *)
(* for another version.                                                    *)
ImplementsLifecycle == Promise!LifeSpec

-----------------------------------------------------------------------------
(* Liveness *)

(* Whatever clients ask for, and with errors and redeliveries, every       *)
(* document ends up deleted or at a terminal status, for ever: each        *)
(* non-terminal status is followed by a job that will replace it.          *)
EveryDocumentSettles ==
  <>[](\A d \in DocIds : Live(d) => docs[d].status \in TerminalStatuses)

(* A worker that dies while it builds a graph leaves graph_status at       *)
(* "building" until the redelivered job replaces it, and a build that a    *)
(* reprocess has overtaken still replaces it, also when the new version    *)
(* fails before a build of its own.                                        *)
GraphStatusSettles ==
  <>[](\A d \in DocIds : docs[d].graphStatus # "building")
=============================================================================
