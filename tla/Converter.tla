----------------------------- MODULE Converter ------------------------------
(***************************************************************************)
(* workers/converter.py: convert_document.  Each stage that touches a      *)
(* store or the queue is an action; the conversion itself (Docling) can    *)
(* only fail, which ErrorInJob covers.                                     *)
(***************************************************************************)
EXTENDS Arq

ConvertMark(j) ==
  /\ At(j, "convert", "mark")
  /\ UpdateDocumentStatus(jobs[j].doc, "converting")
  /\ Goto(j, "fetch")
  /\ UNCHANGED <<disturbances, raw, markdown, points, graph>>

ConvertFetch(j) ==
  /\ At(j, "convert", "fetch")
  /\ FetchDocument(j, "get")
  /\ UNCHANGED <<disturbances, stores>>

(* download_blob raises when the raw object is gone. *)
ConvertGet(j) ==
  /\ At(j, "convert", "get")
  /\ Goto(j, IF jobs[j].snap.content \in raw THEN "put" ELSE "fail")
  /\ UNCHANGED <<disturbances, stores>>

(* Mutant: the upload is started and not awaited, and never lands. *)
ConvertPut_NotAwaited(j) ==
  /\ At(j, "convert", "put")
  /\ Goto(j, "finish")
  /\ UNCHANGED <<disturbances, stores>>

ConvertPut(j) ==
  /\ At(j, "convert", "put")
  /\ markdown' = markdown \cup {jobs[j].doc}
  /\ Goto(j, "finish")
  /\ UNCHANGED <<disturbances, docs, raw, points, graph>>

(* The upload of a run that was cut lands after all.                       *)
ConvertLand(j) ==
  /\ At(j, "convert", "landing")
  /\ markdown' = markdown \cup {jobs[j].doc}
  /\ Become(j, FreeSlot)
  /\ UNCHANGED <<disturbances, docs, raw, points, graph>>

(* Mutant: the chunking job is not enqueued. *)
ConvertFinish_EnqueuesNothing(j) ==
  LET d == jobs[j].doc IN
  /\ At(j, "convert", "finish")
  /\ UpdateDocument(d, [docs[d] EXCEPT !.status = "converted", !.md = TRUE])
  /\ Return(j)
  /\ UNCHANGED <<raw, markdown, points, graph>>

ConvertFinish(j) ==
  LET d == jobs[j].doc IN
  /\ At(j, "convert", "finish")
  /\ UpdateDocument(d, [docs[d] EXCEPT !.status = "converted", !.md = TRUE])
  /\ Goto(j, "enqueue")
  /\ UNCHANGED <<disturbances, raw, markdown, points, graph>>

ConvertEnqueue(j) ==
  /\ At(j, "convert", "enqueue")
  /\ EnqueueNext(j, "chunk")
  /\ UNCHANGED stores

(* Mutant: a return without the write. *)
ConvertFail_Silently(j) ==
  /\ At(j, "convert", "fail")
  /\ Return(j)
  /\ UNCHANGED stores

(* Mutant: the return after the write is missing. *)
ConvertFail_GoesOn(j) ==
  /\ At(j, "convert", "fail")
  /\ UpdateDocumentStatus(jobs[j].doc, "failed")
  /\ Goto(j, "enqueue")
  /\ UNCHANGED <<disturbances, raw, markdown, points, graph>>

(* The status FAILED is written once and the handler returns: arq sees a   *)
(* job that succeeded.                                                     *)
ConvertFail(j) ==
  /\ At(j, "convert", "fail")
  /\ UpdateDocumentStatus(jobs[j].doc, "failed")
  /\ Return(j)
  /\ UNCHANGED <<raw, markdown, points, graph>>

ConvertDocument(j) ==
  \/ ConvertMark(j)
  \/ ConvertFetch(j)
  \/ ConvertGet(j)
  \/ ConvertPut(j)
  \/ ConvertLand(j)
  \/ ConvertFinish(j)
  \/ ConvertEnqueue(j)
  \/ ConvertFail(j)
=============================================================================
