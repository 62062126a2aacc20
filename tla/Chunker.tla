------------------------------ MODULE Chunker -------------------------------
(***************************************************************************)
(* workers/chunker.py: chunk_and_embed.  Chunking and embedding are pure   *)
(* and can only fail (ErrorInJob).  The chunks of a document make up       *)
(* Batches upsert batches, or none when its content is in EmptyContents.   *)
(***************************************************************************)
EXTENDS Arq

ChunkMark(j) ==
  /\ At(j, "chunk", "mark")
  /\ UpdateDocumentStatus(jobs[j].doc, "chunking")
  /\ Goto(j, "fetch")
  /\ UNCHANGED <<disturbances, raw, markdown, points, graph>>

ChunkFetch(j) ==
  /\ At(j, "chunk", "fetch")
  /\ FetchDocument(j, "get")
  /\ UNCHANGED <<disturbances, stores>>

(* doc["markdown_blob_path"] and the download are in the same try. *)
ChunkGet(j) ==
  LET job == jobs[j]
      missing == ~job.snap.md \/ job.doc \notin markdown
  IN
  /\ At(j, "chunk", "get")
  /\ Goto(j, IF missing THEN "fail"
             ELSE IF job.snap.content \in EmptyContents THEN "empty"
             ELSE "clear")
  /\ UNCHANGED <<disturbances, stores>>

(* No chunk: complete at once; nothing is cleared and no graph is built. *)
ChunkEmpty(j) ==
  LET d == jobs[j].doc IN
  /\ At(j, "chunk", "empty")
  /\ UpdateDocument(d, [docs[d] EXCEPT !.status = "complete", !.chunkCount = 0])
  /\ Return(j)
  /\ UNCHANGED <<raw, markdown, points, graph>>

(* Mutant: the first reprocess is taken for the first version. *)
ChunkClear_TooLate(j) ==
  /\ At(j, "chunk", "clear")
  /\ IF jobs[j].snap.version > 2
     THEN DeleteDocChunks(jobs[j].doc)
     ELSE UNCHANGED points
  /\ jobs' = [jobs EXCEPT ![j].pc = "put", ![j].batch = 1]
  /\ UNCHANGED <<disturbances, docs, raw, markdown, graph>>

(* Chunks are cleared only when the record that was read says version > 1. *)
ChunkClear(j) ==
  /\ At(j, "chunk", "clear")
  /\ IF jobs[j].snap.version > 1
     THEN DeleteDocChunks(jobs[j].doc)
     ELSE UNCHANGED points
  /\ jobs' = [jobs EXCEPT ![j].pc = "put", ![j].batch = 1]
  /\ UNCHANGED <<disturbances, docs, raw, markdown, graph>>

(* Mutant: the batch loop stops one batch early. *)
ChunkPut_StopsEarly(j) ==
  LET job == jobs[j] IN
  /\ At(j, "chunk", "put")
  /\ points' = points \cup
       {[doc |-> job.doc, version |-> job.snap.version, job |-> j,
         try |-> job.tries, batch |-> job.batch]}
  /\ IF job.batch + 1 < Batches
     THEN jobs' = [jobs EXCEPT ![j].batch = @ + 1]
     ELSE Goto(j, "finish")
  /\ UNCHANGED <<disturbances, docs, raw, markdown, graph>>

(* One iteration of the batch loop of upsert_chunks. *)
ChunkPut(j) ==
  LET job == jobs[j] IN
  /\ At(j, "chunk", "put")
  /\ points' = points \cup
       {[doc |-> job.doc, version |-> job.snap.version, job |-> j,
         try |-> job.tries, batch |-> job.batch]}
  /\ IF job.batch < Batches
     THEN jobs' = [jobs EXCEPT ![j].batch = @ + 1]
     ELSE Goto(j, "finish")
  /\ UNCHANGED <<disturbances, docs, raw, markdown, graph>>

(* Mutant: the record that was read is written back whole. *)
ChunkFinish_WritesBack(j) ==
  LET d == jobs[j].doc IN
  /\ At(j, "chunk", "finish")
  /\ UpdateDocument(d, [jobs[j].snap EXCEPT !.status = "complete",
                                            !.chunkCount = Batches])
  /\ IF GraphEnabled
     THEN Goto(j, "enqueue") /\ UNCHANGED disturbances
     ELSE Return(j)
  /\ UNCHANGED <<raw, markdown, points, graph>>

ChunkFinish(j) ==
  LET d == jobs[j].doc IN
  /\ At(j, "chunk", "finish")
  /\ UpdateDocument(d, [docs[d] EXCEPT !.status = "complete",
                                       !.chunkCount = Batches])
  /\ IF GraphEnabled
     THEN Goto(j, "enqueue") /\ UNCHANGED disturbances
     ELSE Return(j)
  /\ UNCHANGED <<raw, markdown, points, graph>>

(* Still inside the outer try: when this call raises, a document that is   *)
(* COMPLETE becomes FAILED.                                                *)
ChunkEnqueue(j) ==
  /\ At(j, "chunk", "enqueue")
  /\ EnqueueNext(j, "graph")
  /\ UNCHANGED stores

ChunkFail(j) ==
  /\ At(j, "chunk", "fail")
  /\ UpdateDocumentStatus(jobs[j].doc, "failed")
  /\ Return(j)
  /\ UNCHANGED <<raw, markdown, points, graph>>

ChunkAndEmbed(j) ==
  \/ ChunkMark(j)
  \/ ChunkFetch(j)
  \/ ChunkGet(j)
  \/ ChunkEmpty(j)
  \/ ChunkClear(j)
  \/ ChunkPut(j)
  \/ ChunkFinish(j)
  \/ ChunkEnqueue(j)
  \/ ChunkFail(j)
=============================================================================
