---------------------------- MODULE GraphWorker -----------------------------
(***************************************************************************)
(* workers/graph_builder.py: build_graph.  The upserts of one build are    *)
(* one step here (they all add references to the same document).           *)
(***************************************************************************)
EXTENDS Arq

(* Mutant: graph_status goes into the status field. *)
WriteGraphStatus_WrongField(d, graphStatus) ==
  UpdateDocument(d, [docs[d] EXCEPT !.status = graphStatus,
                                    !.graphStatus = graphStatus])

(* The document record after update_document_status with a graph_status.   *)
(* The status written is the one read at the start, or COMPLETE: the       *)
(* handler goes on only when the two are the same.                         *)
WriteGraphStatus(d, graphStatus) ==
  UpdateDocument(d, [docs[d] EXCEPT !.status = "complete",
                                    !.graphStatus = graphStatus])

(* Mutant: a build that seems to be running already is skipped. *)
GraphFetch_SkipsBuilding(j) ==
  LET d == jobs[j].doc
      ready == Live(d) => /\ docs[d].status = "complete"
                          /\ docs[d].graphStatus # "building"
  IN
  /\ At(j, "graph", "fetch")
  /\ \/ ~ready /\ Return(j)
     \/ ready /\ FetchDocument(j, "mark") /\ UNCHANGED disturbances
  /\ UNCHANGED stores

(* A missing document is reported; one that is not COMPLETE is skipped. *)
GraphFetch(j) ==
  LET d == jobs[j].doc
      skipped == Live(d) /\ docs[d].status # "complete"
  IN
  /\ At(j, "graph", "fetch")
  /\ \/ skipped /\ Return(j)
     \/ ~skipped /\ FetchDocument(j, "mark") /\ UNCHANGED disturbances
  /\ UNCHANGED stores

GraphMark(j) ==
  /\ At(j, "graph", "mark")
  /\ WriteGraphStatus(jobs[j].doc, "building")
  /\ Goto(j, "chunks")
  /\ UNCHANGED <<disturbances, raw, markdown, points, graph>>

(* The clearing of stale graph data depends on the record that was read:   *)
(* its version, and its graph_status before this build.                    *)
GraphChunks(j) ==
  LET snap == jobs[j].snap
      stale == snap.version > 1 \/ snap.graphStatus # "none"
  IN
  /\ At(j, "graph", "chunks")
  /\ Goto(j, IF PointsOf(jobs[j].doc) = {} THEN "empty"
             ELSE IF stale THEN "clear" ELSE "put")
  /\ UNCHANGED <<disturbances, stores>>

(* No chunk: the graph is complete with zero counts; nothing is cleared. *)
GraphEmpty(j) ==
  /\ At(j, "graph", "empty")
  /\ WriteGraphStatus(jobs[j].doc, "complete")
  /\ Return(j)
  /\ UNCHANGED <<raw, markdown, points, graph>>

GraphClear(j) ==
  /\ At(j, "graph", "clear")
  /\ DeleteDocGraphData(jobs[j].doc)
  /\ Goto(j, "put")
  /\ UNCHANGED <<disturbances, docs, raw, markdown, points>>

GraphPut(j) ==
  /\ At(j, "graph", "put")
  /\ graph' = graph \cup {[doc |-> jobs[j].doc, job |-> j]}
  /\ Goto(j, "finish")
  /\ UNCHANGED <<disturbances, docs, raw, markdown, points>>

(* Mutant: a build that has been overtaken by a reprocess writes nothing.  *)
GraphFinish_SkipsStale(j) ==
  LET d == jobs[j].doc IN
  /\ At(j, "graph", "finish")
  /\ IF docs[d].version = jobs[j].snap.version
     THEN WriteGraphStatus(d, "complete")
     ELSE UNCHANGED docs
  /\ Return(j)
  /\ UNCHANGED <<raw, markdown, points, graph>>

GraphFinish(j) ==
  /\ At(j, "graph", "finish")
  /\ WriteGraphStatus(jobs[j].doc, "complete")
  /\ Return(j)
  /\ UNCHANGED <<raw, markdown, points, graph>>

(* Every failure after the start writes COMPLETE again, also when the      *)
(* document has moved on since it was read, or was never read.             *)
GraphFail(j) ==
  /\ At(j, "graph", "fail")
  /\ WriteGraphStatus(jobs[j].doc, "failed")
  /\ Return(j)
  /\ UNCHANGED <<raw, markdown, points, graph>>

BuildGraph(j) ==
  \/ GraphFetch(j)
  \/ GraphMark(j)
  \/ GraphChunks(j)
  \/ GraphEmpty(j)
  \/ GraphClear(j)
  \/ GraphPut(j)
  \/ GraphFinish(j)
  \/ GraphFail(j)
=============================================================================
