------------------------------- MODULE Stores -------------------------------
(***************************************************************************)
(* The four stores a document lives in, and the operations the API and     *)
(* the workers perform on them:                                            *)
(*                                                                         *)
(*   docs      the MongoDB collection `documents`       (db/mongodb.py)    *)
(*   raw       the MinIO objects raw/{hash[:12]}.{type} (db/blob.py)       *)
(*   markdown  the MinIO objects markdown/{doc_id}.md   (db/blob.py)       *)
(*   points    the Qdrant points of the tenant          (db/qdrant.py)     *)
(*   graph     the entity and relationship references   (db/graph_store.py)*)
(*                                                                         *)
(* Nothing ties the stores together: each operator below is one request to *)
(* one server and is atomic, and every interleaving between two of them is *)
(* possible.  One tenant is modelled: every query of the code carries the  *)
(* tenant, so tenants share no state.                                      *)
(***************************************************************************)
EXTENDS Naturals, FiniteSets

CONSTANTS
  DocIds,         \* the ObjectIds that insert_one can hand out
  Contents,       \* the distinct byte strings submitted, one per source_hash
  EmptyContents,  \* the contents whose markdown produces no chunk
  JobIds,         \* the arq job ids; a job is the writer of points and graph
  Batches,        \* the upsert batches the chunks of a document make up
  None            \* the content of a document that does not exist

ASSUME StoresAssumption ==
  /\ EmptyContents \subseteq Contents
  /\ None \notin DocIds \cup Contents
  /\ Batches \in Nat \ {0}

VARIABLES docs, raw, markdown, points, graph

stores == <<docs, raw, markdown, points, graph>>

-----------------------------------------------------------------------------
(* Values *)

Statuses ==
  {"pending", "converting", "converted", "chunking", "complete", "failed"}

(* client.py: the statuses at which wait_for stops polling. *)
TerminalStatuses == {"complete", "failed"}

GraphStatuses == {"none", "building", "complete", "failed"}

(* The fields of a document record that the pipeline reads back.  "md" says *)
(* whether markdown_blob_path has been set.  An ObjectId is never reused,   *)
(* so a deleted id stays "deleted".                                         *)
DocRecord ==
  [state : {"unused", "live", "deleted"}, status : Statuses, version : Nat,
   md : BOOLEAN, chunkCount : Nat, content : Contents \cup {None},
   graphStatus : GraphStatuses]

NoDoc ==
  [state |-> "unused", status |-> "pending", version |-> 0, md |-> FALSE,
   chunkCount |-> 0, content |-> None, graphStatus |-> "none"]

(* The chunker gives every point a fresh uuid4, so two attempts of a job   *)
(* never overwrite each other's points: the identity of a batch of points  *)
(* includes the job and the attempt that wrote it.                         *)
Point ==
  [doc : DocIds, version : Nat, job : JobIds, try : Nat, batch : Nat]

(* A reference from entities and relationships to a document: the doc_id  *)
(* in doc_ids and the chunk_ids found by one build.                        *)
GraphRef == [doc : DocIds, job : JobIds]

-----------------------------------------------------------------------------
(* MongoDB: documents *)

Live(d) == docs[d].state = "live"

FreshDocIds == {d \in DocIds : docs[d].state = "unused"}

(* There is an index on (tenant_id, source_hash) but it is not unique. *)
FindByHash(c) == {d \in DocIds : Live(d) /\ docs[d].content = c}

InsertDocument(d, c) ==
  docs' = [docs EXCEPT ![d] =
             [NoDoc EXCEPT !.state = "live", !.version = 1, !.content = c]]

(* Mutant: an upsert brings a deleted record back. *)
UpdateDocument_Upserts(d, new) ==
  docs' = [docs EXCEPT ![d] = new]

(* update_one without upsert: nothing happens when the id is gone. *)
UpdateDocument(d, new) ==
  docs' = [docs EXCEPT ![d] = IF @.state = "live" THEN new ELSE @]

UpdateDocumentStatus(d, status) ==
  UpdateDocument(d, [docs[d] EXCEPT !.status = status])

(* Mutant: the new version starts without the path of the old markdown. *)
IncrementVersion_ForgetsMarkdown(d) ==
  UpdateDocument(d, [docs[d] EXCEPT !.version = @ + 1, !.status = "pending",
                                    !.md = FALSE])

IncrementVersion(d) ==
  UpdateDocument(d, [docs[d] EXCEPT !.version = @ + 1, !.status = "pending"])

DeleteDocument(d) ==
  UpdateDocument(d, [NoDoc EXCEPT !.state = "deleted"])

-----------------------------------------------------------------------------
(* Qdrant points and the knowledge graph *)

PointsOf(d) == {p \in points : p.doc = d}

GraphOf(d) == {g \in graph : g.doc = d}

DeleteDocChunks(d) == points' = points \ PointsOf(d)

DeleteDocGraphData(d) == graph' = graph \ GraphOf(d)

-----------------------------------------------------------------------------

StoresInit ==
  /\ docs = [d \in DocIds |-> NoDoc]
  /\ raw = {}
  /\ markdown = {}
  /\ points = {}
  /\ graph = {}

StoresTypeOK ==
  /\ docs \in [DocIds -> DocRecord]
  /\ raw \subseteq Contents
  /\ markdown \subseteq DocIds
  /\ points \subseteq Point
  /\ graph \subseteq GraphRef
=============================================================================
