-------------------------------- MODULE Api ---------------------------------
(***************************************************************************)
(* api/routes/documents.py: the routes that change a document.  A request  *)
(* is a process of its own: FastAPI interleaves requests at every await,   *)
(* and replicas of the API run side by side.  Upload stands for            *)
(* upload_document and for _ingest_url_core, which the URL and the batch   *)
(* endpoints share: after the bytes are in hand the two are the same.      *)
(* The quota check can only reject a request (AbortRequest).               *)
(***************************************************************************)
EXTENDS Arq

CONSTANTS
  Uploads, Deletes, Reprocesses,  \* the requests clients make, each once
  Forces,        \* the values of the `force` parameter clients use
  Patient        \* clients wait for a terminal status, as client.wait_for does

Reqs == Uploads \cup Deletes \cup Reprocesses

ASSUME ApiAssumption ==
  /\ Uploads \cap Deletes = {}
  /\ Uploads \cap Reprocesses = {}
  /\ Deletes \cap Reprocesses = {}
  /\ Forces \subseteq BOOLEAN
  /\ Patient \in BOOLEAN

VARIABLE reqs

Req ==
  [pc : {"new", "lookup", "store", "insert", "graph", "chunks", "blob",
         "markdown", "record", "bump", "enqueue", "done", "aborted"},
   doc : DocIds \cup {None}, content : Contents \cup {None}, md : BOOLEAN]

NewReq == [pc |-> "new", doc |-> None, content |-> None, md |-> FALSE]

InProgress(r) == reqs[r].pc \notin {"new", "done", "aborted"}

Proceed(r, pc) == reqs' = [reqs EXCEPT ![r].pc = pc]

(* A client that polls with wait_for touches a document only when its      *)
(* status is terminal and its own previous request on it has returned.     *)
MayTouch(d) ==
  Patient => /\ docs[d].status \in TerminalStatuses
             /\ \A r \in Reqs : reqs[r].doc = d => ~InProgress(r)

-----------------------------------------------------------------------------
(* Ingestion *)

UploadReceive(r) ==
  /\ reqs[r].pc = "new"
  /\ \E c \in Contents, force \in Forces :
       reqs' = [reqs EXCEPT ![r].content = c,
                            ![r].pc = IF force THEN "store" ELSE "lookup"]
  /\ UNCHANGED <<arqVars, stores>>

(* The duplicate check.  A duplicate is answered with the id of the       *)
(* existing document, in whatever state that document is.                  *)
UploadLookup(r) ==
  /\ reqs[r].pc = "lookup"
  /\ Proceed(r, IF FindByHash(reqs[r].content) # {} THEN "done" ELSE "store")
  /\ UNCHANGED <<arqVars, stores>>

(* The object name is derived from the hash, not from the document. *)
UploadStore_Lenient(r) ==
  /\ reqs[r].pc = "store"
  /\ \/ raw' = raw \cup {reqs[r].content} /\ UNCHANGED disturbances
     \/ Disturb("error") /\ UNCHANGED raw
  /\ Proceed(r, "insert")
  /\ UNCHANGED <<jobs, docs, markdown, points, graph>>

UploadStore(r) ==
  /\ reqs[r].pc = "store"
  /\ raw' = raw \cup {reqs[r].content}
  /\ Proceed(r, "insert")
  /\ UNCHANGED <<arqVars, docs, markdown, points, graph>>

UploadInsert(r) ==
  /\ reqs[r].pc = "insert"
  /\ FreshDocIds # {}
  /\ LET d == CHOOSE d \in DocIds : docs[d].state = "unused" IN
       /\ InsertDocument(d, reqs[r].content)
       /\ reqs' = [reqs EXCEPT ![r].pc = "enqueue", ![r].doc = d]
  /\ UNCHANGED <<arqVars, raw, markdown, points, graph>>

-----------------------------------------------------------------------------
(* Deletion: graph, chunks, raw object, markdown object, record.           *)

FirstCleanup == IF GraphEnabled THEN "graph" ELSE "chunks"

(* get_document, in a delete or a reprocess request: what is kept is the   *)
(* two blob paths.  A missing document is answered with 404.               *)
ReceiveForDocument(r) ==
  /\ reqs[r].pc = "new"
  /\ \E d \in DocIds :
       /\ Live(d)
       /\ MayTouch(d)
       /\ reqs' = [reqs EXCEPT ![r] =
                     [pc |-> FirstCleanup, doc |-> d,
                      content |-> docs[d].content, md |-> docs[d].md]]
  /\ UNCHANGED <<arqVars, stores>>

(* Graph cleanup is lenient in both routes: a failure is logged. *)
CleanGraph(r) ==
  /\ reqs[r].pc = "graph"
  /\ Proceed(r, "chunks")
  /\ \/ DeleteDocGraphData(reqs[r].doc) /\ UNCHANGED disturbances
     \/ Disturb("error") /\ UNCHANGED graph
  /\ UNCHANGED <<jobs, docs, raw, markdown, points>>

(* Mutant: a failure of Qdrant is swallowed, as it is when reprocessing.   *)
DeleteChunks_Lenient(r) ==
  /\ reqs[r].pc = "chunks"
  /\ \/ DeleteDocChunks(reqs[r].doc) /\ UNCHANGED disturbances
     \/ Disturb("error") /\ UNCHANGED points
  /\ Proceed(r, "blob")
  /\ UNCHANGED <<jobs, docs, raw, markdown, graph>>

(* Here a failure of Qdrant makes the request fail (AbortRequest). *)
DeleteChunks(r) ==
  /\ reqs[r].pc = "chunks"
  /\ DeleteDocChunks(reqs[r].doc)
  /\ Proceed(r, "blob")
  /\ UNCHANGED <<arqVars, docs, raw, markdown, graph>>

(* Mutant: an object some document has is kept, this one included. *)
DeleteRawBlob_KeepsShared(r) ==
  /\ reqs[r].pc = "blob"
  /\ IF FindByHash(reqs[r].content) = {}
     THEN raw' = raw \ {reqs[r].content}
     ELSE UNCHANGED raw
  /\ Proceed(r, IF reqs[r].md THEN "markdown" ELSE "record")
  /\ UNCHANGED <<arqVars, docs, markdown, points, graph>>

(* Mutant: the markdown object is forgotten. *)
DeleteRawBlob_Only(r) ==
  /\ reqs[r].pc = "blob"
  /\ \/ raw' = raw \ {reqs[r].content} /\ UNCHANGED disturbances
     \/ Disturb("error") /\ UNCHANGED raw
  /\ Proceed(r, "record")
  /\ UNCHANGED <<jobs, docs, markdown, points, graph>>

DeleteRawBlob(r) ==
  /\ reqs[r].pc = "blob"
  /\ \/ raw' = raw \ {reqs[r].content} /\ UNCHANGED disturbances
     \/ Disturb("error") /\ UNCHANGED raw
  /\ Proceed(r, IF reqs[r].md THEN "markdown" ELSE "record")
  /\ UNCHANGED <<jobs, docs, markdown, points, graph>>

DeleteMarkdownBlob(r) ==
  /\ reqs[r].pc = "markdown"
  /\ \/ markdown' = markdown \ {reqs[r].doc} /\ UNCHANGED disturbances
     \/ Disturb("error") /\ UNCHANGED markdown
  /\ Proceed(r, "record")
  /\ UNCHANGED <<jobs, docs, raw, points, graph>>

DeleteRecord(r) ==
  /\ reqs[r].pc = "record"
  /\ DeleteDocument(reqs[r].doc)
  /\ Proceed(r, "done")
  /\ UNCHANGED <<arqVars, raw, markdown, points, graph>>

-----------------------------------------------------------------------------
(* Reprocessing: graph, chunks, version, conversion job.                   *)

(* A failure of Qdrant is swallowed. *)
ReprocessChunks(r) ==
  /\ reqs[r].pc = "chunks"
  /\ \/ DeleteDocChunks(reqs[r].doc) /\ UNCHANGED disturbances
     \/ Disturb("error") /\ UNCHANGED points
  /\ Proceed(r, "bump")
  /\ UNCHANGED <<jobs, docs, raw, markdown, graph>>

ReprocessBump(r) ==
  /\ reqs[r].pc = "bump"
  /\ IncrementVersion(reqs[r].doc)
  /\ Proceed(r, "enqueue")
  /\ UNCHANGED <<arqVars, raw, markdown, points, graph>>

(* _enqueue_conversion, the last step of an upload and of a reprocess. *)
EnqueueConversion(r) ==
  /\ reqs[r].pc = "enqueue"
  /\ EnqueueJob("convert", reqs[r].doc)
  /\ Proceed(r, "done")
  /\ UNCHANGED <<disturbances, stores>>

-----------------------------------------------------------------------------
(* The request is rejected, raises, or its API process dies. *)
AbortRequest(r) ==
  /\ InProgress(r)
  /\ Disturb("abort")
  /\ Proceed(r, "aborted")
  /\ UNCHANGED <<jobs, stores>>

UploadDocument(r) ==
  \/ UploadLookup(r)
  \/ UploadStore(r)
  \/ UploadInsert(r)
  \/ EnqueueConversion(r)

DeleteDocumentRoute(r) ==
  \/ CleanGraph(r)
  \/ DeleteChunks(r)
  \/ DeleteRawBlob(r)
  \/ DeleteMarkdownBlob(r)
  \/ DeleteRecord(r)

ReprocessDocument(r) ==
  \/ CleanGraph(r)
  \/ ReprocessChunks(r)
  \/ ReprocessBump(r)
  \/ EnqueueConversion(r)

ApiInit == reqs = [r \in Reqs |-> NewReq]

ApiTypeOK == reqs \in [Reqs -> Req]
=============================================================================
