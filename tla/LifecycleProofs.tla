-------------------------- MODULE LifecycleProofs ---------------------------
(***************************************************************************)
(* What patient clients are promised, for every number of documents,       *)
(* clients, jobs and batches: a document goes through the phases of the    *)
(* Lifecycle specification, and its chunks are those of its record once it *)
(* is complete.  Both rest on one fact: a document has at any time at most *)
(* one job or one request that works on it.                                *)
(***************************************************************************)
EXTENDS PipelineProofs, FiniteSetTheorems

-----------------------------------------------------------------------------
(* The fact, and what it needs: clients poll with wait_for, no graph job   *)
(* goes on after a document is complete, and no job runs twice.            *)

Undisturbed ==
  /\ Patient
  /\ ~GraphEnabled
  /\ Disturbances \subseteq {"error", "abandon", "abort"}

Settled(doc) == doc.status \in TerminalStatuses

(* The request has a document in hand and is not over. *)
Serving(req) == req.pc \notin {"new", "done", "aborted"} /\ req.doc # None

(* A job works on a document that no client may touch ... *)
WorkOK(doc, job) ==
  /\ job.kind \in {"convert", "chunk"}
  /\ job.kind = "chunk" => job.pc # "enqueue"
  /\ doc.state = "live" /\ ~Settled(doc)

(* ... and a request on one that no job works on, which a reprocess starts *)
(* to change with its new version.                                         *)
ServiceOK(doc, req) ==
  /\ doc.state = "live"
  /\ Settled(doc) <=> req.pc # "enqueue"

BlankOK(req) ==
  /\ req.pc \in {"new", "lookup", "store", "insert"} => req.doc = None
  /\ req.pc # "graph"

LifeInv ==
  /\ Inv
  /\ \A d \in DocIds : docs[d].state = "unused" => docs[d].version = 0
  /\ \A j \in JobIds :
       jobs[j].pc # "free" => WorkOK(docs[jobs[j].doc], jobs[j])
  /\ \A i, j \in JobIds :
       i # j /\ jobs[i].pc # "free" /\ jobs[j].pc # "free" =>
         jobs[i].doc # jobs[j].doc
  /\ \A j \in JobIds, r \in Reqs :
       jobs[j].pc # "free" /\ Serving(reqs[r]) => reqs[r].doc # jobs[j].doc
  /\ \A r \in Reqs :
       /\ BlankOK(reqs[r])
       /\ Serving(reqs[r]) => ServiceOK(docs[reqs[r].doc], reqs[r])
  /\ \A r, s \in Reqs :
       r # s /\ Serving(reqs[r]) /\ Serving(reqs[s]) => reqs[r].doc # reqs[s].doc

-----------------------------------------------------------------------------
(* Steps of jobs *)

(* A job goes on with its document, or is over, or is replaced by the job  *)
(* it enqueues.                                                            *)
JobOutcome(j) ==
  \/ /\ \A i \in JobIds : i # j => jobs'[i] = jobs[i]
     /\ jobs'[j].doc = jobs[j].doc
     /\ WorkOK(docs'[jobs[j].doc], jobs'[j])
  \/ /\ \A i \in JobIds : i # j => jobs'[i] = jobs[i]
     /\ jobs'[j].pc = "free"
  \/ /\ docs' = docs /\ jobs'[j].pc = "free"
     /\ \E i \in JobIds :
          /\ i # j /\ jobs[i].pc = "free" /\ jobs'[i] = Queued("chunk", jobs[j].doc)
          /\ \A k \in JobIds : k \notin {i, j} => jobs'[k] = jobs[k]

LEMMA JobsMoveOn ==
  ASSUME LifeInv, Undisturbed, NEW j \in JobIds, JobStep(j) \/ DisturbJob(j)
  PROVE  /\ jobs[j].pc # "free" /\ jobs[j].doc \in DocIds
         /\ \A e \in DocIds : e # jobs[j].doc => docs'[e] = docs[e]
         /\ SameIdentity(docs[jobs[j].doc], docs'[jobs[j].doc])
         /\ JobOutcome(j)
<1>1. Inv /\ jobs[j] \in Job
  BY Typed DEF LifeInv
<1>2. jobs[j].pc # "free"
  BY DEF JobStep, StartJob, GiveUpJob, ConvertDocument, ConvertMark,
         ConvertFetch, ConvertGet, ConvertPut, ConvertLand,
         ConvertFinish, ConvertEnqueue,
         ConvertFail, ChunkAndEmbed, ChunkMark, ChunkFetch, ChunkGet,
         ChunkEmpty, ChunkClear, ChunkPut, ChunkFinish, ChunkEnqueue,
         ChunkFail, BuildGraph, GraphFetch, GraphMark, GraphChunks, GraphEmpty,
         GraphClear, GraphPut, GraphFinish, GraphFail, At, DisturbJob,
         CrashJob, AbandonJob, ErrorInJob, Running, Stages
<1>3. PICK d \in DocIds : d = jobs[j].doc /\ WorkOK(docs[d], jobs[j])
  BY <1>1, <1>2, JobHasDocument DEF LifeInv
<1>4. Live(d) /\ jobs[j].kind \in {"convert", "chunk"}
  BY <1>3 DEF WorkOK, Live
<1>5. ~ChunkEnqueue(j) /\ ~BuildGraph(j) /\ ~CrashJob(j)
  BY <1>3
     DEF WorkOK, ChunkEnqueue, BuildGraph, GraphFetch, GraphMark, GraphChunks,
         GraphEmpty, GraphClear, GraphPut, GraphFinish, GraphFail, At,
         CrashJob, Disturb, Undisturbed
<1>6. ASSUME ~ConvertEnqueue(j)
      PROVE  \A i \in JobIds : i # j => jobs'[i] = jobs[i]
  BY <1>1, <1>5, <1>6, OtherJobs
<1>7. ASSUME Return(j) PROVE jobs'[j].pc = "free"
  BY <1>1, <1>7, FreeSlotType, Typed DEF Return, Become, Disturb, Undisturbed
<1>8. \A e \in DocIds : SameIdentity(docs[e], docs'[e])
  BY <1>1, HandlersWrite DEF HandlerWrites
<1>9. CASE ConvertEnqueue(j)
  <2> DEFINE next == Queued("chunk", d)
  <2>1. jobs' = [jobs EXCEPT ![j] = FreeSlot, ![FreeJob] = next] /\ docs' = docs
    BY <1>3, <1>9 DEF ConvertEnqueue, EnqueueNext, Disturb, Undisturbed, stores
  <2>2. FreeJob \in JobIds /\ jobs[FreeJob].pc = "free"
    BY <1>9, FreeJobIsFree DEF ConvertEnqueue, EnqueueNext
  <2> HIDE DEF next
  <2>3. /\ jobs'[j] = FreeSlot /\ jobs'[FreeJob] = next
        /\ \A k \in JobIds : k \notin {FreeJob, j} => jobs'[k] = jobs[k]
    BY <1>1, <1>2, <2>1, <2>2, Typed
  <2> QED
    BY <1>2, <1>3, <1>8, <2>1, <2>2, <2>3, FreeSlotType DEF JobOutcome, next
<1>10. ASSUME jobs'[j].pc = "free", ~ConvertEnqueue(j) PROVE JobOutcome(j)
  BY <1>6, <1>10 DEF JobOutcome
<1>11. ASSUME ~ConvertEnqueue(j), jobs'[j].pc # "free",
              jobs'[j].pc = "enqueue" => jobs[j].kind = "convert",
              ~Settled(docs'[d])
       PROVE  JobOutcome(j)
  <2>1. jobs'[j].kind = jobs[j].kind /\ jobs'[j].doc = jobs[j].doc
    BY <1>1, <1>11, OwnJob, FreeSlotType
  <2>2. docs'[d].state = "live"
    BY <1>3, <1>8 DEF SameIdentity, WorkOK
  <2>3. WorkOK(docs'[d], jobs'[j])
    BY <1>3, <1>4, <1>11, <2>1, <2>2 DEF WorkOK
  <2> QED
    BY <1>3, <1>6, <1>11, <2>1, <2>3 DEF JobOutcome
<1>12. docs' = docs => ~Settled(docs'[d])
  BY <1>3 DEF WorkOK
<1>13. /\ \A e \in DocIds : e # d => docs'[e] = docs[e]
       /\ ~ConvertEnqueue(j) => JobOutcome(j)
  <2>1. CASE StartJob(j) \/ GiveUpJob(j)
    <3>1. docs' = docs
      BY <2>1 DEF StartJob, GiveUpJob, stores
    <3>2. jobs'[j].pc \in {"free", "mark", "fetch"}
      BY <1>1, <2>1, StartFields, FreeSlotType, Typed
         DEF FirstStage, GiveUpJob, Become
    <3> QED
      BY <1>10, <1>11, <1>12, <3>1, <3>2
  <2>2. CASE DisturbJob(j)
    <3>1. docs' = docs
      BY <2>2 DEF DisturbJob, CrashJob, AbandonJob, ErrorInJob, stores
    <3>2. jobs'[j].pc \in {"free", "fail", "landing"}
      BY <1>1, <1>5, <2>2, GotoFields, FreeSlotType, Typed
         DEF DisturbJob, AbandonJob, ErrorInJob, Become
    <3> QED
      BY <1>10, <1>11, <1>12, <3>1, <3>2
  <2>3. ASSUME NEW status, UpdateDocumentStatus(d, status)
        PROVE  /\ \A e \in DocIds : e # d => docs'[e] = docs[e]
               /\ docs'[d].status = status
    BY <1>1, <1>4, <2>3, StatusWrites
  <2>4. CASE ConvertDocument(j) /\ ~ConvertEnqueue(j)
    <3>1. CASE ConvertMark(j)
      BY <1>1, <1>3, <1>11, <2>3, <2>4, <3>1, GotoFields
         DEF ConvertMark, Settled, TerminalStatuses
    <3>2. CASE ConvertFetch(j)
      BY <1>1, <1>11, <1>12, <2>4, <3>2, FetchFields DEF ConvertFetch, stores
    <3>3. CASE ConvertGet(j)
      BY <1>1, <1>11, <1>12, <2>4, <3>3, GotoFields DEF ConvertGet, stores
    <3>4. CASE ConvertPut(j)
      BY <1>1, <1>11, <1>12, <2>4, <3>4, GotoFields DEF ConvertPut
    <3>5. CASE ConvertFinish(j)
      <4>1. /\ \A e \in DocIds : e # d => docs'[e] = docs[e]
            /\ docs'[d].status = "converted"
        BY <1>1, <1>3, <1>4, <3>5, ConvertedWrites DEF ConvertFinish
      <4> QED
        BY <1>1, <1>11, <2>4, <3>5, <4>1, GotoFields
           DEF ConvertFinish, At, Settled, TerminalStatuses
    <3>6. CASE ConvertFail(j)
      BY <1>3, <1>7, <1>10, <2>3, <2>4, <3>6 DEF ConvertFail
    <3>7. CASE ConvertLand(j)
      BY <1>1, <1>10, <2>4, <3>7, FreeSlotType, Typed DEF ConvertLand, Become
    <3> QED
      BY <2>4, <3>1, <3>2, <3>3, <3>4, <3>5, <3>6, <3>7 DEF ConvertDocument
  <2>5. CASE ChunkAndEmbed(j)
    <3>1. jobs[j].kind = "chunk" /\ ~ConvertEnqueue(j)
      BY <2>5
         DEF ChunkAndEmbed, ChunkMark, ChunkFetch, ChunkGet, ChunkEmpty,
             ChunkClear, ChunkPut, ChunkFinish, ChunkEnqueue, ChunkFail, At,
             ConvertEnqueue
    <3>2. ASSUME NEW n,
                 UpdateDocument(d, [docs[d] EXCEPT !.status = "complete",
                                                   !.chunkCount = n])
          PROVE  \A e \in DocIds : e # d => docs'[e] = docs[e]
      BY <1>1, <3>2, CompleteWrites
    <3>3. CASE ChunkMark(j)
      BY <1>1, <1>3, <1>11, <2>3, <3>1, <3>3, GotoFields
         DEF ChunkMark, Settled, TerminalStatuses
    <3>4. CASE ChunkFetch(j)
      BY <1>1, <1>11, <1>12, <3>1, <3>4, FetchFields DEF ChunkFetch, stores
    <3>5. CASE ChunkGet(j)
      BY <1>1, <1>11, <1>12, <3>1, <3>5, GotoFields DEF ChunkGet, stores
    <3>6. CASE ChunkEmpty(j)
      BY <1>3, <1>7, <1>10, <3>1, <3>2, <3>6 DEF ChunkEmpty
    <3>7. CASE ChunkClear(j) \/ ChunkPut(j)
      <4>1. docs' = docs /\ jobs'[j].pc \in {"put", "finish"}
        BY <1>1, <3>7, GotoFields, Typed DEF ChunkClear, ChunkPut, At, Job
      <4> QED
        BY <1>11, <1>12, <3>1, <4>1
    <3>8. CASE ChunkFinish(j)
      BY <1>3, <1>7, <1>10, <3>1, <3>2, <3>8 DEF ChunkFinish, Undisturbed
    <3>9. CASE ChunkFail(j)
      BY <1>3, <1>7, <1>10, <2>3, <3>1, <3>9 DEF ChunkFail
    <3> QED
      BY <1>5, <2>5, <3>3, <3>4, <3>5, <3>6, <3>7, <3>8, <3>9
         DEF ChunkAndEmbed
  <2>6. CASE ConvertEnqueue(j)
    BY <2>6 DEF ConvertEnqueue, stores
  <2> QED
    BY <1>5, <2>1, <2>2, <2>4, <2>5, <2>6 DEF JobStep
<1> QED
  BY <1>2, <1>3, <1>8, <1>9, <1>13

(* A request in hand has a document there is. *)
LEMMA ServingDocument ==
  ASSUME LifeInv, NEW r \in Reqs, Serving(reqs[r])
  PROVE  reqs[r].doc \in DocIds /\ ServiceOK(docs[reqs[r].doc], reqs[r])
BY Typed DEF LifeInv, Serving, Req

LEMMA JobsKeepLifeInv ==
  ASSUME LifeInv, Undisturbed, Inv', NEW j \in JobIds,
         JobStep(j) \/ DisturbJob(j)
  PROVE  LifeInv'
<1>1. PICK d \in DocIds : d = jobs[j].doc /\ jobs[j].pc # "free"
  BY JobsMoveOn
<1>2. /\ \A e \in DocIds : e # d => docs'[e] = docs[e]
      /\ SameIdentity(docs[d], docs'[d])
      /\ JobOutcome(j)
  BY <1>1, JobsMoveOn
<1>3. reqs' = reqs
  BY DEF JobStep, DisturbJob
<1>4. \A i \in JobIds : i # j /\ jobs[i].pc # "free" => jobs[i].doc # d
  BY <1>1 DEF LifeInv
<1>5. \A r \in Reqs : Serving(reqs[r]) => reqs[r].doc # d
  BY <1>1 DEF LifeInv
<1>6. ASSUME NEW i \in JobIds, jobs'[i].pc # "free"
      PROVE  /\ WorkOK(docs'[jobs'[i].doc], jobs'[i])
             /\ \A k \in JobIds :
                  k # i /\ jobs'[k].pc # "free" => jobs'[k].doc # jobs'[i].doc
             /\ \A r \in Reqs : Serving(reqs[r]) => reqs[r].doc # jobs'[i].doc
  <2>1. ASSUME NEW k \in JobIds, k # j, jobs[k].pc # "free"
        PROVE  /\ jobs[k].doc # d
               /\ WorkOK(docs'[jobs[k].doc], jobs[k])
               /\ \A r \in Reqs : Serving(reqs[r]) => reqs[r].doc # jobs[k].doc
               /\ \A m \in JobIds : m # k /\ jobs[m].pc # "free" =>
                    jobs[m].doc # jobs[k].doc
    <3>1. jobs[k].doc \in DocIds /\ jobs[k].doc # d
      BY <1>4, <2>1, JobHasDocument DEF LifeInv
    <3> QED
      BY <1>2, <2>1, <3>1 DEF LifeInv
  <2>2. CASE /\ \A m \in JobIds : m # j => jobs'[m] = jobs[m]
             /\ jobs'[j].doc = d
             /\ WorkOK(docs'[d], jobs'[j])
    BY <1>1, <1>5, <1>6, <2>1, <2>2
  <2>3. CASE /\ \A m \in JobIds : m # j => jobs'[m] = jobs[m]
             /\ jobs'[j].pc = "free"
    BY <1>6, <2>1, <2>3
  <2>4. CASE /\ docs' = docs /\ jobs'[j].pc = "free"
             /\ \E n \in JobIds :
                  /\ n # j /\ jobs[n].pc = "free" /\ jobs'[n] = Queued("chunk", d)
                  /\ \A k \in JobIds : k \notin {n, j} => jobs'[k] = jobs[k]
    <3>1. PICK n \in JobIds :
            /\ n # j /\ jobs[n].pc = "free" /\ jobs'[n] = Queued("chunk", d)
            /\ \A k \in JobIds : k \notin {n, j} => jobs'[k] = jobs[k]
      BY <2>4
    <3>2. /\ Queued("chunk", d).kind = "chunk"
          /\ Queued("chunk", d).pc = "queued"
          /\ Queued("chunk", d).doc = d
      BY DEF Queued, FreeSlot
    <3>3. docs'[d].state = "live" /\ ~Settled(docs'[d])
      BY <1>1, <2>4 DEF LifeInv, WorkOK
    <3>4. WorkOK(docs'[d], Queued("chunk", d))
      BY <3>2, <3>3 DEF WorkOK
    <3> QED
      BY <1>5, <1>6, <2>1, <2>4, <3>1, <3>2, <3>4
  <2> QED
    BY <1>1, <1>2, <2>2, <2>3, <2>4 DEF JobOutcome
<1>7. ASSUME NEW e \in DocIds, docs'[e].state = "unused"
      PROVE  docs'[e].version = 0
  BY <1>2, <1>7 DEF LifeInv, SameIdentity
<1>8. ASSUME NEW r \in Reqs, Serving(reqs[r])
      PROVE  ServiceOK(docs'[reqs[r].doc], reqs[r])
  BY <1>2, <1>5, <1>8, ServingDocument
<1> QED
  BY <1>3, <1>6, <1>7, <1>8 DEF LifeInv

-----------------------------------------------------------------------------
(* Steps of requests *)

(* A request goes on with the document it serves ... *)
GoesOn(r) ==
  /\ docs' = docs /\ jobs' = jobs
  /\ Serving(reqs[r]) /\ reqs'[r].doc = reqs[r].doc
  /\ reqs'[r].pc # "graph" /\ reqs'[r].pc # "enqueue"
  /\ reqs'[r].pc \notin {"new", "lookup", "store", "insert"}
  /\ reqs'[r].pc # "done"
  /\ reqs[r].pc # "enqueue" \/ reqs'[r].pc = "aborted"
  /\ reqs'[r].pc = "aborted" => "abort" \in Disturbances

(* ... has none yet, or never will ... *)
HasNone(r) ==
  /\ docs' = docs /\ jobs' = jobs /\ ~Serving(reqs[r])
  /\ reqs'[r].doc = None /\ reqs'[r].pc # "graph"

(* ... or takes one of the five steps that the promise is about.           *)
Receives(r, d) ==
  /\ docs' = docs /\ jobs' = jobs /\ ~Serving(reqs[r])
  /\ Live(d) /\ MayTouch(d)
  /\ reqs'[r].pc = "chunks" /\ reqs'[r].doc = d

Accepts(r, d) ==
  /\ jobs' = jobs /\ ~Serving(reqs[r]) /\ docs[d].state = "unused"
  /\ docs'[d].state = "live" /\ docs'[d].version = 1
  /\ docs'[d].status = "pending"
  /\ reqs'[r].pc = "enqueue" /\ reqs'[r].doc = d

Restarts(r, d) ==
  /\ jobs' = jobs /\ Serving(reqs[r]) /\ reqs[r].pc = "bump" /\ reqs[r].doc = d
  /\ docs'[d].state = "live" /\ docs'[d].status = "pending"
  /\ docs'[d].version = docs[d].version + 1
  /\ reqs'[r].pc = "enqueue" /\ reqs'[r].doc = d

Removes(r, d) ==
  /\ jobs' = jobs /\ Serving(reqs[r]) /\ reqs[r].pc = "record" /\ reqs[r].doc = d
  /\ docs'[d].state = "deleted" /\ docs'[d].version = 0
  /\ reqs'[r].pc = "done" /\ reqs'[r].doc = d

Enqueues(r, d) ==
  /\ docs' = docs /\ Serving(reqs[r]) /\ reqs[r].pc = "enqueue" /\ reqs[r].doc = d
  /\ \E i \in JobIds :
       /\ jobs[i].pc = "free" /\ jobs'[i] = Queued("convert", d)
       /\ \A k \in JobIds : k # i => jobs'[k] = jobs[k]
  /\ reqs'[r].pc = "done" /\ reqs'[r].doc = d

RequestOutcome(r) ==
  \/ GoesOn(r) \/ HasNone(r)
  \/ \E d \in DocIds :
       /\ \A e \in DocIds : e # d => docs'[e] = docs[e]
       /\ Receives(r, d) \/ Accepts(r, d) \/ Restarts(r, d) \/ Removes(r, d)
            \/ Enqueues(r, d)

LEMMA ProceedFields ==
  ASSUME Inv, NEW r \in Reqs, NEW pc, Proceed(r, pc)
  PROVE  reqs'[r].pc = pc /\ reqs'[r].doc = reqs[r].doc
BY Typed DEF Proceed, Req

LEMMA RequestsMoveOn ==
  ASSUME LifeInv, Undisturbed, NEW r \in Reqs,
         RequestStep(r) \/ ReceiveRequest(r) \/ AbortRequest(r)
  PROVE  RequestOutcome(r)
<1>1. Inv /\ reqs[r] \in Req /\ BlankOK(reqs[r]) /\ ReqOK(docs, reqs[r])
  BY Typed DEF LifeInv, Inv, ReqsOK
<1>2. ASSUME reqs[r].pc \in {"graph", "chunks", "blob", "markdown", "record",
                             "bump", "enqueue"}
      PROVE  /\ Serving(reqs[r]) /\ reqs[r].doc \in DocIds
             /\ Live(reqs[r].doc)
  <2>1. reqs[r].doc \in DocIds /\ Serving(reqs[r])
    BY <1>1, <1>2, StoresAssumption DEF ReqOK, Serving
  <2> QED
    BY <2>1 DEF LifeInv, ServiceOK, Live
<1>3. ASSUME NEW d \in DocIds, NEW new, UpdateDocument(d, new), Live(d)
      PROVE  docs'[d] = new /\ \A e \in DocIds : e # d => docs'[e] = docs[e]
  BY <1>1, <1>3, UpdateWrites
<1>4. CASE UploadReceive(r)
  <2>1. reqs'[r].doc = reqs[r].doc /\ reqs'[r].pc \in {"store", "lookup"}
    BY <1>1, <1>4, Typed DEF UploadReceive, Req
  <2> QED
    BY <1>1, <1>4, <2>1
       DEF UploadReceive, BlankOK, arqVars, stores, Serving, HasNone,
           RequestOutcome
<1>5. CASE UploadLookup(r) \/ UploadStore(r)
  BY <1>1, <1>5, ProceedFields
     DEF UploadLookup, UploadStore, BlankOK, arqVars, stores, Serving, HasNone,
         RequestOutcome
<1>6. CASE UploadInsert(r)
  <2> DEFINE e == CHOOSE e \in DocIds : docs[e].state = "unused"
             new == [NoDoc EXCEPT !.state = "live", !.version = 1,
                                  !.content = reqs[r].content]
  <2>1. e \in DocIds /\ docs[e].state = "unused"
    BY <1>6 DEF UploadInsert, FreshDocIds
  <2>2. docs' = [docs EXCEPT ![e] = new]
    BY <1>6 DEF UploadInsert, InsertDocument
  <2>3. reqs' = [reqs EXCEPT ![r].pc = "enqueue", ![r].doc = e]
    BY <1>6 DEF UploadInsert
  <2>4. new.state = "live" /\ new.version = 1 /\ new.status = "pending"
    BY DEF NoDoc
  <2> HIDE DEF e, new
  <2>5. reqs'[r].pc = "enqueue" /\ reqs'[r].doc = e
    BY <1>1, <2>3, Typed DEF Req
  <2>6. docs'[e] = new /\ \A f \in DocIds : f # e => docs'[f] = docs[f]
    BY <1>1, <2>1, <2>2, Typed
  <2>7. jobs' = jobs /\ ~Serving(reqs[r])
    BY <1>1, <1>6 DEF UploadInsert, arqVars, BlankOK, Serving
  <2> QED
    BY <2>1, <2>4, <2>5, <2>6, <2>7 DEF Accepts, RequestOutcome
<1>7. CASE EnqueueConversion(r)
  <2>1. /\ Serving(reqs[r]) /\ reqs[r].doc \in DocIds
        /\ reqs[r].pc = "enqueue"
    BY <1>2, <1>7 DEF EnqueueConversion
  <2>2. FreeJob \in JobIds /\ jobs[FreeJob].pc = "free"
    BY <1>7, FreeJobIsFree DEF EnqueueConversion, EnqueueJob
  <2>3. /\ jobs'[FreeJob] = Queued("convert", reqs[r].doc)
        /\ \A k \in JobIds : k # FreeJob => jobs'[k] = jobs[k]
    BY <1>1, <1>7, <2>2, Typed DEF EnqueueConversion, EnqueueJob
  <2>4. reqs'[r].pc = "done" /\ reqs'[r].doc = reqs[r].doc /\ docs' = docs
    BY <1>1, <1>7, ProceedFields DEF EnqueueConversion, stores
  <2>5. Enqueues(r, reqs[r].doc)
    BY <2>1, <2>2, <2>3, <2>4 DEF Enqueues
  <2> QED
    BY <2>1, <2>4, <2>5 DEF RequestOutcome
<1>8. CASE ReceiveForDocument(r)
  <2>1. PICK d \in DocIds :
          /\ Live(d) /\ MayTouch(d)
          /\ reqs' = [reqs EXCEPT ![r] =
                        [pc |-> FirstCleanup, doc |-> d,
                         content |-> docs[d].content, md |-> docs[d].md]]
    BY <1>8 DEF ReceiveForDocument
  <2>2. reqs'[r].pc = "chunks" /\ reqs'[r].doc = d
    BY <1>1, <2>1, Typed DEF FirstCleanup, Undisturbed
  <2> QED
    BY <1>8, <2>1, <2>2
       DEF ReceiveForDocument, arqVars, stores, Receives, Serving,
           RequestOutcome
<1>9. CASE \/ DeleteChunks(r) \/ DeleteRawBlob(r) \/ DeleteMarkdownBlob(r)
           \/ ReprocessChunks(r) \/ CleanGraph(r)
  <2>1. /\ reqs[r].pc \in {"graph", "chunks", "blob", "markdown"}
        /\ docs' = docs /\ jobs' = jobs
        /\ reqs'[r].doc = reqs[r].doc
        /\ reqs'[r].pc \in {"chunks", "blob", "markdown", "record", "bump"}
    BY <1>1, <1>9, ProceedFields
       DEF DeleteChunks, DeleteRawBlob, DeleteMarkdownBlob, ReprocessChunks,
           CleanGraph, arqVars
  <2> QED
    BY <1>2, <2>1 DEF GoesOn, RequestOutcome
<1>10. CASE DeleteRecord(r)
  <2> DEFINE new == [NoDoc EXCEPT !.state = "deleted"]
  <2>1. new.state = "deleted" /\ new.version = 0
    BY DEF NoDoc
  <2>2. UpdateDocument(reqs[r].doc, new)
    BY <1>10 DEF DeleteRecord, DeleteDocument
  <2> HIDE DEF new
  <2>3. /\ reqs[r].pc = "record" /\ jobs' = jobs
        /\ reqs'[r].pc = "done" /\ reqs'[r].doc = reqs[r].doc
    BY <1>1, <1>10, ProceedFields DEF DeleteRecord, arqVars
  <2>4. reqs[r].doc \in DocIds /\ Serving(reqs[r]) /\ Live(reqs[r].doc)
    BY <1>2, <2>3
  <2>5. Removes(r, reqs[r].doc) /\ \A e \in DocIds : e # reqs[r].doc => docs'[e] = docs[e]
    BY <1>3, <2>1, <2>2, <2>3, <2>4 DEF Removes
  <2> QED
    BY <2>4, <2>5 DEF RequestOutcome
<1>11. CASE ReprocessBump(r)
  <2> DEFINE d == reqs[r].doc
             new == [docs[d] EXCEPT !.version = @ + 1, !.status = "pending"]
  <2>1. /\ reqs[r].pc = "bump" /\ jobs' = jobs
        /\ reqs'[r].pc = "enqueue" /\ reqs'[r].doc = d
    BY <1>1, <1>11, ProceedFields DEF ReprocessBump, arqVars
  <2>2. d \in DocIds /\ Serving(reqs[r]) /\ Live(d)
    BY <1>2, <2>1
  <2>3. /\ new.state = "live" /\ new.status = "pending"
        /\ new.version = docs[d].version + 1
    BY <1>1, <2>2, Typed DEF DocRecord, Live
  <2>4. UpdateDocument(d, new)
    BY <1>11 DEF ReprocessBump, IncrementVersion
  <2> HIDE DEF new
  <2>5. Restarts(r, reqs[r].doc) /\ \A e \in DocIds : e # reqs[r].doc => docs'[e] = docs[e]
    BY <1>3, <2>1, <2>2, <2>3, <2>4 DEF Restarts
  <2> QED
    BY <2>2, <2>5 DEF RequestOutcome
<1>12. CASE AbortRequest(r)
  <2>1. /\ docs' = docs /\ jobs' = jobs /\ InProgress(r)
        /\ reqs'[r].pc = "aborted" /\ reqs'[r].doc = reqs[r].doc
        /\ "abort" \in Disturbances
    BY <1>1, <1>12, ProceedFields DEF AbortRequest, Disturb, stores
  <2> QED
    BY <2>1 DEF InProgress, Serving, GoesOn, HasNone, RequestOutcome
<1> QED
  BY <1>4, <1>5, <1>6, <1>7, <1>8, <1>9, <1>10, <1>11, <1>12
     DEF RequestStep, ReceiveRequest, UploadDocument, DeleteDocumentRoute,
         ReprocessDocument

(* The invariant as it concerns the requests, for one request r that       *)
(* changes and the document it has in hand.                                *)
LEMMA RequestParts ==
  ASSUME LifeInv, Inv', NEW r \in Reqs,
         \A s \in Reqs : s # r => reqs'[s] = reqs[s],
         \A d \in DocIds : docs'[d].state = "unused" => docs'[d].version = 0,
         \A s \in Reqs : s # r /\ Serving(reqs[s]) =>
           /\ docs'[reqs[s].doc] = docs[reqs[s].doc]
           /\ Serving(reqs'[r]) => reqs[s].doc # reqs'[r].doc,
         BlankOK(reqs'[r]),
         Serving(reqs'[r]) => ServiceOK(docs'[reqs'[r].doc], reqs'[r]),
         \A j \in JobIds : jobs'[j].pc # "free" =>
           /\ WorkOK(docs'[jobs'[j].doc], jobs'[j])
           /\ \A i \in JobIds :
                i # j /\ jobs'[i].pc # "free" => jobs'[i].doc # jobs'[j].doc
           /\ \A s \in Reqs : Serving(reqs'[s]) => reqs'[s].doc # jobs'[j].doc
  PROVE  LifeInv'
BY DEF LifeInv

(* The jobs are left alone, and none of them works on a document that      *)
(* changes or is taken in hand.                                            *)
LEMMA JobParts ==
  ASSUME LifeInv, jobs' = jobs, NEW r \in Reqs,
         \A s \in Reqs : s # r => reqs'[s] = reqs[s],
         \A j \in JobIds : jobs[j].pc # "free" =>
           /\ docs'[jobs[j].doc] = docs[jobs[j].doc]
           /\ Serving(reqs'[r]) => reqs'[r].doc # jobs[j].doc
  PROVE  \A j \in JobIds : jobs'[j].pc # "free" =>
           /\ WorkOK(docs'[jobs'[j].doc], jobs'[j])
           /\ \A i \in JobIds :
                i # j /\ jobs'[i].pc # "free" => jobs'[i].doc # jobs'[j].doc
           /\ \A s \in Reqs : Serving(reqs'[s]) => reqs'[s].doc # jobs'[j].doc
BY DEF LifeInv

LEMMA RequestsKeepLifeInv ==
  ASSUME LifeInv, Undisturbed, Inv', NEW r \in Reqs,
         RequestStep(r) \/ ReceiveRequest(r) \/ AbortRequest(r)
  PROVE  LifeInv'
<1>1. \A s \in Reqs : s # r => reqs'[s] = reqs[s]
  BY OtherRequests DEF LifeInv
<1>2. RequestOutcome(r)
  BY RequestsMoveOn
<1>3. \A d \in DocIds : docs[d].state = "unused" => docs[d].version = 0
  BY DEF LifeInv
<1>4. CASE GoesOn(r) \/ HasNone(r)
  <2>1. docs' = docs /\ jobs' = jobs
    BY <1>4 DEF GoesOn, HasNone
  <2>2. /\ BlankOK(reqs'[r])
        /\ Serving(reqs'[r]) =>
             /\ Serving(reqs[r]) /\ reqs'[r].doc = reqs[r].doc
             /\ reqs[r].pc # "enqueue" /\ reqs'[r].pc # "enqueue"
    BY <1>4 DEF GoesOn, HasNone, BlankOK, Serving
  <2>3. Serving(reqs'[r]) => ServiceOK(docs'[reqs'[r].doc], reqs'[r])
    BY <2>1, <2>2, ServingDocument DEF ServiceOK
  <2>4. \A j \in JobIds : jobs[j].pc # "free" /\ Serving(reqs'[r]) =>
          reqs'[r].doc # jobs[j].doc
    BY <2>2 DEF LifeInv
  <2>5. \A s \in Reqs : s # r /\ Serving(reqs[s]) /\ Serving(reqs'[r]) =>
          reqs[s].doc # reqs'[r].doc
    BY <2>2 DEF LifeInv
  <2> QED
    BY <1>1, <1>3, <2>1, <2>2, <2>3, <2>4, <2>5, JobParts, RequestParts
<1>5. ASSUME NEW d \in DocIds,
             \A e \in DocIds : e # d => docs'[e] = docs[e],
             \/ Receives(r, d) \/ Accepts(r, d) \/ Restarts(r, d)
             \/ Removes(r, d) \/ Enqueues(r, d)
      PROVE  LifeInv'
  <2>1. ASSUME NEW s \in Reqs, Serving(reqs[s])
        PROVE  reqs[s].doc \in DocIds /\ docs[reqs[s].doc].state # "unused"
    BY <2>1, ServingDocument DEF ServiceOK
  <2>2. ASSUME NEW j \in JobIds, jobs[j].pc # "free"
        PROVE  /\ jobs[j].doc \in DocIds
               /\ docs[jobs[j].doc].state = "live" /\ ~Settled(docs[jobs[j].doc])
    BY <2>2, JobHasDocument DEF LifeInv, WorkOK
  <2>3. \A s \in Reqs : s # r /\ Serving(reqs[s]) => reqs[s].doc # d
    <3>1. CASE Receives(r, d)
      BY <3>1, Typed
         DEF Receives, MayTouch, Undisturbed, Serving, InProgress
    <3>2. CASE Accepts(r, d)
      BY <2>1, <3>2 DEF Accepts
    <3>3. CASE Restarts(r, d) \/ Removes(r, d) \/ Enqueues(r, d)
      BY <3>3 DEF Restarts, Removes, Enqueues, LifeInv
    <3> QED
      BY <1>5, <3>1, <3>2, <3>3
  <2>4. \A j \in JobIds : jobs[j].pc # "free" => jobs[j].doc # d
    <3>1. CASE Receives(r, d)
      BY <2>2, <3>1 DEF Receives, MayTouch, Undisturbed, Settled
    <3>2. CASE Accepts(r, d)
      BY <2>2, <3>2 DEF Accepts
    <3>3. CASE Restarts(r, d) \/ Removes(r, d) \/ Enqueues(r, d)
      BY <3>3 DEF Restarts, Removes, Enqueues, LifeInv
    <3> QED
      BY <1>5, <3>1, <3>2, <3>3
  <2>5. /\ reqs'[r].doc = d /\ reqs'[r].pc \in {"chunks", "enqueue", "done"}
        /\ BlankOK(reqs'[r])
    BY <1>5
       DEF Receives, Accepts, Restarts, Removes, Enqueues, BlankOK
  <2>6. \A e \in DocIds : docs'[e].state = "unused" => docs'[e].version = 0
    BY <1>3, <1>5 DEF Receives, Accepts, Restarts, Removes, Enqueues
  <2>7. Serving(reqs'[r]) => ServiceOK(docs'[d], reqs'[r])
    BY <1>5
       DEF Receives, MayTouch, Undisturbed, Live, Accepts, Restarts, Removes,
           Enqueues, Serving, ServiceOK, Settled, TerminalStatuses
  <2>8. \A s \in Reqs : s # r /\ Serving(reqs[s]) =>
          docs'[reqs[s].doc] = docs[reqs[s].doc]
    BY <1>5, <2>1, <2>3
  <2>9. \A j \in JobIds : jobs'[j].pc # "free" =>
          /\ WorkOK(docs'[jobs'[j].doc], jobs'[j])
          /\ \A i \in JobIds :
               i # j /\ jobs'[i].pc # "free" => jobs'[i].doc # jobs'[j].doc
          /\ \A s \in Reqs : Serving(reqs'[s]) => reqs'[s].doc # jobs'[j].doc
    <3>1. CASE jobs' = jobs
      <4>1. \A j \in JobIds : jobs[j].pc # "free" =>
              docs'[jobs[j].doc] = docs[jobs[j].doc]
        BY <1>5, <2>2, <2>4
      <4> QED
        BY <1>1, <2>4, <2>5, <3>1, <4>1, JobParts
    <3>2. CASE Enqueues(r, d)
      <4>1. PICK i \in JobIds :
              /\ jobs[i].pc = "free" /\ jobs'[i] = Queued("convert", d)
              /\ \A k \in JobIds : k # i => jobs'[k] = jobs[k]
        BY <3>2 DEF Enqueues
      <4>2. docs' = docs /\ reqs'[r].pc = "done"
        BY <3>2 DEF Enqueues
      <4>3. /\ Queued("convert", d).kind = "convert"
            /\ Queued("convert", d).doc = d
        BY DEF Queued, FreeSlot
      <4>4. WorkOK(docs'[d], Queued("convert", d))
        BY <3>2, <4>2, <4>3, ServingDocument DEF Enqueues, ServiceOK, WorkOK
      <4>5. \A s \in Reqs : Serving(reqs'[s]) =>
              s # r /\ Serving(reqs[s]) /\ reqs'[s].doc = reqs[s].doc
        BY <1>1, <4>2 DEF Serving
      <4>6. ASSUME NEW j \in JobIds, jobs[j].pc # "free"
            PROVE  /\ WorkOK(docs'[jobs[j].doc], jobs[j])
                   /\ \A k \in JobIds : k # j /\ jobs[k].pc # "free" =>
                        jobs[k].doc # jobs[j].doc
                   /\ \A s \in Reqs : Serving(reqs[s]) => reqs[s].doc # jobs[j].doc
        BY <4>2, <4>6 DEF LifeInv
      <4> QED
        BY <2>3, <2>4, <4>1, <4>3, <4>4, <4>5, <4>6
    <3> QED
      BY <1>5, <3>1, <3>2 DEF Receives, Accepts, Restarts, Removes
  <2> QED
    BY <1>1, <2>3, <2>5, <2>6, <2>7, <2>8, <2>9, RequestParts
<1> QED
  BY <1>2, <1>4, <1>5 DEF RequestOutcome

LEMMA NextLifeInv ==
  ASSUME LifeInv, Undisturbed, [Next]_vars
  PROVE  LifeInv'
<1>1. Inv'
  BY NextInv DEF LifeInv
<1>2. CASE UNCHANGED vars
  BY <1>1, <1>2 DEF vars, LifeInv
<1> QED
  BY <1>1, <1>2, JobsKeepLifeInv, RequestsKeepLifeInv DEF Next

LEMMA InitLifeInv == Init => LifeInv
BY InitInv, FreeSlotType
   DEF Init, StoresInit, ArqInit, ApiInit, LifeInv, NoDoc, NewReq, Serving,
       BlankOK

-----------------------------------------------------------------------------
(* The refinement of Lifecycle *)

(* Nothing a client can tell apart changes ... *)
Stutters ==
  \A d \in DocIds :
    Phase(d)' = Phase(d) /\ docs'[d].version = docs[d].version

(* ... or one document takes a step of the promise. *)
Moves(d, from, to, v) ==
  /\ \A e \in DocIds : e # d => docs'[e] = docs[e]
  /\ Phase(d) = from /\ Phase(d)' = to /\ docs'[d].version = v

LEMMA PhaseSteps ==
  ASSUME LifeInv, Undisturbed, [Next]_vars
  PROVE  \/ Stutters
         \/ \E d \in DocIds :
              \/ Moves(d, "absent", "processing", 1)
              \/ Moves(d, "processing", "settled", docs[d].version)
              \/ Moves(d, "settled", "processing", docs[d].version + 1)
              \/ Moves(d, "settled", "deleted", 0)
<1>1. CASE docs' = docs
  BY <1>1 DEF Stutters, Phase
<1>2. ASSUME NEW j \in JobIds, JobStep(j) \/ DisturbJob(j)
      PROVE  \/ Stutters
             \/ \E d \in DocIds :
                  Moves(d, "processing", "settled", docs[d].version)
  <2>1. PICK d \in DocIds :
          /\ d = jobs[j].doc /\ jobs[j].pc # "free"
          /\ \A e \in DocIds : e # d => docs'[e] = docs[e]
          /\ SameIdentity(docs[d], docs'[d])
    BY <1>2, JobsMoveOn
  <2>2. Phase(d) = "processing"
    BY <2>1 DEF LifeInv, WorkOK, Settled, Phase
  <2>3. Phase(d)' \in {"processing", "settled"}
    BY <2>1, <2>2 DEF SameIdentity, Phase
  <2>4. \A e \in DocIds : e # d => Phase(e)' = Phase(e)
    BY <2>1 DEF Phase
  <2> QED
    BY <2>1, <2>2, <2>3, <2>4 DEF SameIdentity, Stutters, Moves
<1>3. ASSUME NEW r \in Reqs, RequestStep(r) \/ ReceiveRequest(r) \/ AbortRequest(r),
             docs' # docs
      PROVE  \E d \in DocIds :
               \/ Moves(d, "absent", "processing", 1)
               \/ Moves(d, "settled", "processing", docs[d].version + 1)
               \/ Moves(d, "settled", "deleted", 0)
  <2>1. PICK d \in DocIds :
          /\ \A e \in DocIds : e # d => docs'[e] = docs[e]
          /\ Accepts(r, d) \/ Restarts(r, d) \/ Removes(r, d)
    BY <1>3, RequestsMoveOn
       DEF RequestOutcome, GoesOn, HasNone, Receives, Enqueues
  <2>2. CASE Accepts(r, d)
    BY <2>1, <2>2 DEF Accepts, Phase, Moves, TerminalStatuses
  <2>3. CASE Restarts(r, d) \/ Removes(r, d)
    <3>1. Phase(d) = "settled"
      BY <2>3, ServingDocument
         DEF Restarts, Removes, ServiceOK, Settled, Phase
    <3> QED
      BY <2>1, <2>3, <3>1 DEF Restarts, Removes, Phase, Moves, TerminalStatuses
  <2> QED
    BY <2>1, <2>2, <2>3
<1> QED
  BY <1>1, <1>2, <1>3 DEF Next, vars

(* Every step is a step of the promise or a stutter. *)
LEMMA StepRefines ==
  ASSUME LifeInv, Undisturbed, [Next]_vars
  PROVE  [Promise!LifeNext]_(Promise!lifeVars)
<1> DEFINE phase == [d \in DocIds |-> Phase(d)]
           version == [d \in DocIds |-> docs[d].version]
<1>1. CASE Stutters
  <2>1. phase' = phase /\ version' = version
    BY <1>1 DEF Stutters
  <2> QED
    BY <2>1 DEF Promise!lifeVars
<1>2. ASSUME NEW d \in DocIds, NEW from, NEW to, NEW v, Moves(d, from, to, v)
      PROVE  Promise!Become(d, from, to, v)
  <2>1. \A e \in DocIds : e # d =>
          Phase(e)' = Phase(e) /\ docs'[e].version = docs[e].version
    BY <1>2 DEF Moves, Phase
  <2>2. phase[d] = from
    BY <1>2 DEF Moves
  <2>3. phase' = [phase EXCEPT ![d] = to]
    BY <1>2, <2>1 DEF Moves
  <2>4. version' = [version EXCEPT ![d] = v]
    BY <1>2, <2>1 DEF Moves
  <2> QED
    BY <2>2, <2>3, <2>4 DEF Promise!Become
<1>3. ASSUME NEW d \in DocIds,
             \/ Moves(d, "absent", "processing", 1)
             \/ Moves(d, "processing", "settled", docs[d].version)
             \/ Moves(d, "settled", "processing", docs[d].version + 1)
             \/ Moves(d, "settled", "deleted", 0)
      PROVE  Promise!LifeNext
  <2>1. CASE Moves(d, "absent", "processing", 1)
    <3>1. Promise!Accept(d)
      BY <1>2, <2>1 DEF Promise!Accept
    <3> QED
      BY <3>1 DEF Promise!LifeNext
  <2>2. CASE Moves(d, "processing", "settled", docs[d].version)
    <3>1. PICK v : v = docs[d].version
      OBVIOUS
    <3>2. Promise!Become(d, "processing", "settled", v)
      BY <1>2, <2>2, <3>1
    <3>3. version[d] = v
      BY <3>1
    <3>4. Promise!Settle(d)
      BY <3>2, <3>3 DEF Promise!Settle, Promise!Become
    <3> QED
      BY <3>4 DEF Promise!LifeNext
  <2>3. CASE Moves(d, "settled", "processing", docs[d].version + 1)
    <3>1. PICK v : v = docs[d].version
      OBVIOUS
    <3>2. Promise!Become(d, "settled", "processing", v + 1)
      BY <1>2, <2>3, <3>1
    <3>3. version[d] = v
      BY <3>1
    <3>4. Promise!Restart(d)
      BY <3>2, <3>3 DEF Promise!Restart, Promise!Become
    <3> QED
      BY <3>4 DEF Promise!LifeNext
  <2>4. CASE Moves(d, "settled", "deleted", 0)
    <3>1. Promise!Delete(d)
      BY <1>2, <2>4 DEF Promise!Delete
    <3> QED
      BY <3>1 DEF Promise!LifeNext
  <2> QED
    BY <1>3, <2>1, <2>2, <2>3, <2>4
<1> QED
  BY <1>1, <1>3, PhaseSteps

LEMMA InitRefines == Init => Promise!LifeInit
BY DEF Init, StoresInit, NoDoc, Phase, Promise!LifeInit

(* What a client that polls with wait_for sees of a document is what       *)
(* Lifecycle promises: it is processed until it settles, and changes again *)
(* only when the client reprocesses or deletes it.  Whatever steps raise   *)
(* and whichever jobs and requests are cut short, as long as no job runs   *)
(* twice and no graph is built.                                            *)
THEOREM PipelineImplementsLifecycle ==
  ASSUME Undisturbed
  PROVE  Spec => ImplementsLifecycle
<1>1. LifeInv /\ [Next]_vars => LifeInv' /\ [Promise!LifeNext]_(Promise!lifeVars)
  BY NextLifeInv, StepRefines
<1> QED
  BY <1>1, InitLifeInv, InitRefines, PTL
     DEF Spec, ImplementsLifecycle, Promise!LifeSpec

-----------------------------------------------------------------------------
(* The chunks of a complete document *)

(* No request is cut short half-way: a reprocess request that dies between *)
(* its cleanup and its new version leaves a complete document without its  *)
(* chunks.                                                                 *)
Uninterrupted == Undisturbed /\ "abort" \notin Disturbances

Of(P, d) == {p \in P : p.doc = d}

(* What one run of the chunker has written after n batches. *)
RunPoints(d, v, j, try, n) ==
  {[doc |-> d, version |-> v, job |-> j, try |-> try, batch |-> b] : b \in 1 .. n}

Matches(P, d, doc) ==
  /\ Cardinality(Of(P, d)) = doc.chunkCount
  /\ \A p \in Of(P, d) : p.version = doc.version
  /\ {p.batch : p \in Of(P, d)} = 1 .. doc.chunkCount
  /\ doc.chunkCount = ChunksOf(doc)

(* What is in Qdrant while a job works on a document: nothing of a first   *)
(* version before the chunker puts its first batch, and afterwards what    *)
(* this very run has put.                                                  *)
ChunkRunOK(P, doc, j, job) ==
  /\ doc.version = 1 =>
       \/ job.kind = "chunk" /\ job.pc \in {"put", "finish", "fail"}
       \/ Of(P, job.doc) = {}
  /\ job.kind = "chunk" =>
       /\ PastFetch(job) =>
            job.snap.version = doc.version /\ job.snap.content = doc.content
       /\ job.pc = "empty" => doc.content \in EmptyContents
       /\ job.pc \in {"clear", "put", "finish"} => doc.content \notin EmptyContents
       /\ job.pc = "put" =>
            /\ job.batch \in 1 .. Batches
            /\ Of(P, job.doc) =
                 RunPoints(job.doc, doc.version, j, job.tries, job.batch - 1)
       /\ job.pc = "finish" =>
            Of(P, job.doc) = RunPoints(job.doc, doc.version, j, job.tries, Batches)

Served(R, d) == \E r \in Reqs : Serving(R[r]) /\ R[r].doc = d

RecordOK(P, R, d, doc) ==
  doc.state = "live" =>
    /\ doc.content \in EmptyContents => Of(P, d) = {}
    /\ doc.status = "complete" => Matches(P, d, doc) \/ Served(R, d)

ConsistentInv ==
  /\ LifeInv
  /\ \A j \in JobIds :
       jobs[j].pc # "free" => ChunkRunOK(points, docs[jobs[j].doc], j, jobs[j])
  /\ \A r \in Reqs :
       /\ Serving(reqs[r]) /\ reqs[r].pc = "enqueue"
       /\ docs[reqs[r].doc].version = 1
       => Of(points, reqs[r].doc) = {}
  /\ \A d \in DocIds : RecordOK(points, reqs, d, docs[d])

(* A finished run has put one point per batch. *)
LEMMA RunPointsCount ==
  ASSUME NEW d, NEW v, NEW j, NEW try, NEW n \in Nat
  PROVE  /\ Cardinality(RunPoints(d, v, j, try, n)) = n
         /\ \A p \in RunPoints(d, v, j, try, n) : p.version = v
         /\ {p.batch : p \in RunPoints(d, v, j, try, n)} = 1 .. n
<1> DEFINE put(b) ==
             [doc |-> d, version |-> v, job |-> j, try |-> try, batch |-> b]
           f == [b \in 1 .. n |-> put(b)]
           S == RunPoints(d, v, j, try, n)
<1>1. \A b \in 1 .. n : put(b).batch = b /\ put(b).version = v
  OBVIOUS
<1>2. S = {put(b) : b \in 1 .. n}
  BY DEF RunPoints
<1> HIDE DEF put, S
<1>3. f \in Bijection(1 .. n, S)
  BY <1>1, <1>2 DEF Bijection, Injection, Surjection, IsInjective
<1>4. ExistsBijection(1 .. n, S)
  BY <1>3 DEF ExistsBijection
<1>5. IsFiniteSet(1 .. n) /\ Cardinality(1 .. n) = n
  <2>1. 1 \in Int /\ n \in Int
    OBVIOUS
  <2>2. IsFiniteSet(1 .. n) /\ Cardinality(1 .. n) = IF 1 > n THEN 0 ELSE n - 1 + 1
    BY <2>1, FS_Interval
  <2> QED
    BY <2>2
<1>6. Cardinality(S) = n
  BY <1>4, <1>5, FS_Bijection
<1>7. \A p \in S : p.version = v
  BY <1>1, <1>2
<1>8. {p.batch : p \in S} = 1 .. n
  BY <1>1, <1>2
<1> QED
  BY <1>6, <1>7, <1>8 DEF S

LEMMA FinishedRunMatches ==
  ASSUME NEW P, NEW d, NEW doc, NEW j, NEW try,
         doc.chunkCount = ChunksOf(doc),
         Of(P, d) = RunPoints(d, doc.version, j, try, doc.chunkCount)
  PROVE  Matches(P, d, doc)
BY RunPointsCount, StoresAssumption DEF Matches, ChunksOf

LEMMA NothingMatches ==
  ASSUME NEW P, NEW d, NEW doc, doc.chunkCount = 0, ChunksOf(doc) = 0,
         Of(P, d) = {}
  PROVE  Matches(P, d, doc)
<1>1. Cardinality(Of(P, d)) = 0
  BY FS_EmptySet
<1>2. {p.batch : p \in Of(P, d)} = 1 .. 0
  OBVIOUS
<1> QED
  BY <1>1, <1>2 DEF Matches

(* Only the chunker puts and clears points of its document. *)
LEMMA JobsAndPoints ==
  ASSUME NEW j \in JobIds, JobStep(j) \/ DisturbJob(j)
  PROVE  /\ points' = points \/ ChunkClear(j) \/ ChunkPut(j)
         /\ \A e \in DocIds : e # jobs[j].doc => Of(points', e) = Of(points, e)
<1>1. points' = points \/ ChunkClear(j) \/ ChunkPut(j)
  BY DEF JobStep, StartJob, GiveUpJob, ConvertDocument, ConvertMark,
         ConvertFetch, ConvertGet, ConvertPut, ConvertLand,
         ConvertFinish, ConvertEnqueue,
         ConvertFail, ChunkAndEmbed, ChunkMark, ChunkFetch, ChunkGet,
         ChunkEmpty, ChunkFinish, ChunkEnqueue, ChunkFail, BuildGraph,
         GraphFetch, GraphMark, GraphChunks, GraphEmpty, GraphClear, GraphPut,
         GraphFinish, GraphFail, DisturbJob, CrashJob, AbandonJob, ErrorInJob,
         stores
<1>2. CASE ChunkClear(j)
  BY <1>1, <1>2 DEF ChunkClear, DeleteDocChunks, PointsOf, Of
<1>3. CASE ChunkPut(j)
  <2>1. PICK p : p.doc = jobs[j].doc /\ points' = points \cup {p}
    BY <1>3 DEF ChunkPut
  <2> QED
    BY <1>1, <2>1 DEF Of
<1> QED
  BY <1>1, <1>2, <1>3

(* A job that has learnt nothing of its document is right about it. *)
LEMMA RunStarts ==
  ASSUME NEW P, NEW doc, NEW j, NEW job,
         job.pc \in {"queued", "mark", "fetch"} \/ job.kind # "chunk",
         doc.version = 1 => Of(P, job.doc) = {}
  PROVE  ChunkRunOK(P, doc, j, job)
BY DEF ChunkRunOK, PastFetch

(* Nor does a run that has failed. *)
LEMMA RunFails ==
  ASSUME NEW P, NEW doc, NEW j, NEW job, job.pc = "fail",
         job.kind = "chunk" \/ (doc.version = 1 => Of(P, job.doc) = {})
  PROVE  ChunkRunOK(P, doc, j, job)
BY DEF ChunkRunOK, PastFetch

(* One run of the chunker, stage by stage. *)
LEMMA OwnChunks ==
  ASSUME ConsistentInv, Uninterrupted,
         NEW j \in JobIds, JobStep(j) \/ DisturbJob(j),
         NEW d \in DocIds, d = jobs[j].doc
  PROVE  /\ docs[d].content \in EmptyContents => Of(points', d) = {}
         /\ docs'[d].status = "complete" => Matches(points', d, docs'[d])
         /\ jobs'[j].pc # "free" => ChunkRunOK(points', docs'[d], j, jobs'[j])
         /\ ConvertEnqueue(j) /\ docs[d].version = 1 => Of(points', d) = {}
<1>1. Inv /\ jobs[j] \in Job /\ LifeInv /\ Undisturbed
  BY Typed DEF ConsistentInv, LifeInv, Uninterrupted
<1>2. /\ jobs[j].pc # "free"
      /\ SameIdentity(docs[d], docs'[d])
      /\ JobOutcome(j)
  BY <1>1, JobsMoveOn
<1>3. /\ WorkOK(docs[d], jobs[j]) /\ Live(d)
      /\ ChunkRunOK(points, docs[d], j, jobs[j])
      /\ docs[d].content \in EmptyContents => Of(points, d) = {}
  BY <1>2 DEF ConsistentInv, LifeInv, WorkOK, Live, RecordOK
<1>4. jobs'[j].pc # "free" => jobs'[j].kind = jobs[j].kind /\ jobs'[j].doc = d
  BY <1>1, OwnJob, FreeSlotType
<1>5. docs'[d].status = "complete" => ChunkEmpty(j) \/ ChunkFinish(j)
  <2>1. HandlerWrites(j, d)
    BY <1>1, HandlersWrite
  <2> QED
    BY <1>3, <2>1 DEF HandlerWrites, WorkOK, Settled, TerminalStatuses
<1>6. ASSUME NEW job, ChunkRunOK(points, docs[d], j, job)
      PROVE  ChunkRunOK(points, docs'[d], j, job)
  BY <1>2, <1>6 DEF ChunkRunOK, SameIdentity
<1>7. Return(j) => jobs'[j].pc = "free"
  BY <1>1, FreeSlotType, Typed DEF Return, Become, Disturb, Undisturbed
<1>8. points' = points \/ ChunkClear(j) \/ ChunkPut(j)
  BY <1>1, JobsAndPoints
<1>9. docs[d].version >= 1
  BY <1>1, <1>3 DEF Inv, DocsOK, DocOK, Live
<1>12. ASSUME jobs[j].kind = "chunk"
       PROVE  ~ConvertDocument(j) /\ ~BuildGraph(j) /\ ~ChunkEnqueue(j)
  BY <1>3, <1>12
     DEF WorkOK, ConvertDocument, ConvertMark, ConvertFetch, ConvertGet,
         ConvertPut, ConvertLand,
         ConvertFinish, ConvertEnqueue, ConvertFail, BuildGraph,
         GraphFetch, GraphMark, GraphChunks, GraphEmpty, GraphClear, GraphPut,
         GraphFinish, GraphFail, ChunkEnqueue, At
<1>10. CASE jobs[j].kind # "chunk"
  <2>1. points' = points /\ ~ChunkEmpty(j) /\ ~ChunkFinish(j)
    BY <1>8, <1>10 DEF ChunkClear, ChunkPut, ChunkEmpty, ChunkFinish, At
  <2>2. docs[d].version = 1 => Of(points, d) = {}
    BY <1>3, <1>10 DEF ChunkRunOK
  <2>3. jobs'[j].pc # "free" => ChunkRunOK(points', docs'[d], j, jobs'[j])
    BY <1>2, <1>4, <1>10, <2>1, <2>2, RunStarts DEF SameIdentity
  <2> QED
    BY <1>3, <1>5, <2>1, <2>2, <2>3
<1>11. CASE jobs[j].kind = "chunk"
  <2>1. ~ConvertEnqueue(j)
    BY <1>11 DEF ConvertEnqueue, At
  <2>2. CASE ~(ChunkClear(j) \/ ChunkPut(j) \/ ChunkEmpty(j) \/ ChunkFinish(j))
    <3>1. ASSUME jobs'[j].pc # "free"
          PROVE  ChunkRunOK(points, docs[d], j, jobs'[j])
      <4>1. CASE jobs'[j].pc = "fail"
        BY <1>4, <1>11, <4>1, RunFails
      <4>2. CASE StartJob(j) \/ ChunkMark(j)
        <5>1. jobs'[j].pc \in {"mark", "fetch"}
          BY <1>1, <1>11, <4>2, StartFields, GotoFields
             DEF FirstStage, ChunkMark
        <5>2. jobs[j].pc \in {"queued", "mark"}
          BY <4>2 DEF StartJob, ChunkMark, At
        <5>3. docs[d].version = 1 => Of(points, d) = {}
          BY <1>3, <5>2 DEF ChunkRunOK
        <5> QED
          BY <1>4, <3>1, <5>1, <5>3, RunStarts
      <4>3. CASE ChunkFetch(j)
        <5>1. /\ jobs[j].pc = "fetch"
              /\ \/ jobs'[j].pc = "fail"
                 \/ jobs'[j].pc = "get" /\ jobs'[j].snap = docs[d]
          BY <1>1, <4>3, FetchFields DEF ChunkFetch, At
        <5>2. docs[d].version = 1 => Of(points, d) = {}
          BY <1>3, <5>1 DEF ChunkRunOK
        <5> QED
          BY <1>4, <3>1, <4>1, <5>1, <5>2 DEF ChunkRunOK
      <4>4. CASE ChunkGet(j)
        <5>1. /\ jobs[j].pc = "get"
              /\ jobs'[j].snap = jobs[j].snap
              /\ \/ jobs'[j].pc = "fail"
                 \/ jobs'[j].pc = "empty" /\ jobs[j].snap.content \in EmptyContents
                 \/ jobs'[j].pc = "clear" /\ jobs[j].snap.content \notin EmptyContents
          BY <1>1, <4>4, GotoFields DEF ChunkGet, At
        <5> QED
          BY <1>3, <1>4, <1>11, <3>1, <4>1, <5>1 DEF ChunkRunOK, PastFetch
      <4>5. CASE ChunkFail(j) \/ GiveUpJob(j)
        BY <1>1, <1>7, <3>1, <4>5, FreeSlotType, Typed
           DEF ChunkFail, GiveUpJob, Become
      <4>6. CASE DisturbJob(j)
        BY <1>1, <1>11, <3>1, <4>1, <4>6, GotoFields, FreeSlotType, Typed
           DEF DisturbJob, CrashJob, Disturb, Undisturbed, AbandonJob,
               ErrorInJob, Become, At
      <4> QED
        BY <1>11, <2>2, <4>2, <4>3, <4>4, <4>5, <4>6, <1>12
           DEF JobStep, ChunkAndEmbed
    <3>2. points' = points
      BY <1>8, <2>2
    <3> QED
      BY <1>3, <1>5, <1>6, <2>1, <2>2, <3>1, <3>2
  <2>3. CASE ChunkClear(j)
    <3>1. /\ jobs[j].pc = "clear" /\ docs' = docs
          /\ jobs'[j].pc = "put" /\ jobs'[j].batch = 1
          /\ jobs'[j].snap = jobs[j].snap
      BY <1>1, <2>3, Typed DEF ChunkClear, At, Job
    <3>2. Of(points', d) = {}
      <4>1. CASE jobs[j].snap.version > 1
        BY <2>3, <4>1 DEF ChunkClear, DeleteDocChunks, PointsOf, Of
      <4>2. CASE ~(jobs[j].snap.version > 1)
        <5>1. docs[d].version = 1
          <6>1. docs[d].version \in Nat
            BY <1>1, Typed DEF DocRecord
          <6> QED
            BY <1>3, <1>9, <1>11, <3>1, <4>2, <6>1 DEF ChunkRunOK, PastFetch
        <5>2. Of(points, d) = {}
          BY <1>3, <3>1, <5>1 DEF ChunkRunOK
        <5> QED
          BY <2>3, <4>2, <5>2 DEF ChunkClear
      <4> QED
        BY <4>1, <4>2
    <3>3. RunPoints(d, docs[d].version, j, jobs'[j].tries, 1 - 1) = {}
      BY DEF RunPoints
    <3>4. ChunkRunOK(points', docs[d], j, jobs'[j])
      BY <1>3, <1>4, <1>11, <3>1, <3>2, <3>3, StoresAssumption
         DEF ChunkRunOK, PastFetch
    <3> QED
      BY <1>3, <2>1, <3>1, <3>2, <3>4 DEF WorkOK, Settled, TerminalStatuses
  <2>4. CASE ChunkPut(j)
    <3> DEFINE b == jobs[j].batch
               try == jobs[j].tries
               v == docs[d].version
               new == [doc |-> d, version |-> v, job |-> j, try |-> try,
                       batch |-> b]
    <3>1. /\ jobs[j].pc = "put" /\ docs' = docs
          /\ jobs'[j].tries = jobs[j].tries
          /\ jobs'[j].snap = jobs[j].snap
          /\ \/ b < Batches /\ jobs'[j].pc = "put" /\ jobs'[j].batch = b + 1
             \/ b >= Batches /\ jobs'[j].pc = "finish"
      <4>1. b \in Nat /\ Batches \in Nat
        BY <1>1, StoresAssumption DEF Job
      <4> QED
        BY <1>1, <2>4, <4>1, GotoFields, Typed DEF ChunkPut, At, Job
    <3>2. /\ b \in 1 .. Batches
          /\ jobs[j].snap.version = v /\ jobs[j].snap.content = docs[d].content
          /\ docs[d].content \notin EmptyContents
          /\ Of(points, d) = RunPoints(d, v, j, try, b - 1)
      BY <1>3, <1>11, <3>1 DEF ChunkRunOK, PastFetch
    <3>3. points' = points \cup {new}
      BY <2>4, <3>2 DEF ChunkPut
    <3>4. Of(points', d) = Of(points, d) \cup {new}
      BY <3>3 DEF Of
    <3>5. RunPoints(d, v, j, try, b) = RunPoints(d, v, j, try, b - 1) \cup {new}
      <4>1. 1 .. b = (1 .. (b - 1)) \cup {b}
        BY <3>2, StoresAssumption
      <4> QED
        BY <4>1 DEF RunPoints
    <3>6. Of(points', d) = RunPoints(d, v, j, try, b)
      BY <3>2, <3>4, <3>5
    <3> HIDE DEF new
    <3>7. CASE b < Batches /\ jobs'[j].pc = "put" /\ jobs'[j].batch = b + 1
      <4>1. jobs'[j].batch \in 1 .. Batches /\ jobs'[j].batch - 1 = b
        BY <3>2, <3>7, StoresAssumption
      <4> QED
        BY <1>3, <1>4, <1>11, <2>1, <3>1, <3>2, <3>6, <3>7, <4>1
           DEF ChunkRunOK, WorkOK, Settled, TerminalStatuses
    <3>8. CASE b >= Batches /\ jobs'[j].pc = "finish"
      <4>1. b = Batches
        BY <3>2, <3>8, StoresAssumption
      <4> QED
        BY <1>3, <1>4, <1>11, <2>1, <3>1, <3>2, <3>6, <3>8, <4>1
           DEF ChunkRunOK, WorkOK, Settled, TerminalStatuses
    <3> QED
      BY <3>1, <3>7, <3>8
  <2>5. CASE ChunkEmpty(j)
    <3>1. jobs[j].pc = "empty" /\ jobs'[j].pc = "free" /\ points' = points
      BY <1>7, <2>5 DEF ChunkEmpty, At
    <3>2. docs[d].content \in EmptyContents /\ Of(points, d) = {}
      BY <1>3, <1>11, <3>1 DEF ChunkRunOK
    <3>3. docs'[d].chunkCount = 0
      BY <1>1, <1>3, <2>5, CompleteWrites DEF ChunkEmpty
    <3>4. ChunksOf(docs'[d]) = 0
      BY <1>2, <3>2 DEF ChunksOf, SameIdentity
    <3> QED
      BY <2>1, <3>1, <3>2, <3>3, <3>4, NothingMatches
  <2>6. CASE ChunkFinish(j)
    <3>1. jobs[j].pc = "finish" /\ jobs'[j].pc = "free" /\ points' = points
      BY <1>1, <1>7, <2>6 DEF ChunkFinish, At, Undisturbed
    <3>2. /\ docs[d].content \notin EmptyContents
          /\ Of(points, d) = RunPoints(d, docs[d].version, j, jobs[j].tries, Batches)
      BY <1>3, <1>11, <3>1 DEF ChunkRunOK
    <3>3. docs'[d].chunkCount = Batches
      BY <1>1, <1>3, <2>6, CompleteWrites DEF ChunkFinish
    <3>4. docs'[d].version = docs[d].version /\ ChunksOf(docs'[d]) = Batches
      BY <1>2, <3>2 DEF ChunksOf, SameIdentity
    <3> QED
      BY <2>1, <3>1, <3>2, <3>3, <3>4, FinishedRunMatches
  <2> QED
    BY <2>2, <2>3, <2>4, <2>5, <2>6
<1> QED
  BY <1>10, <1>11

LEMMA JobsKeepConsistentInv ==
  ASSUME ConsistentInv, Uninterrupted, LifeInv',
         NEW j \in JobIds, JobStep(j) \/ DisturbJob(j)
  PROVE  ConsistentInv'
<1>1. Inv /\ LifeInv /\ Undisturbed /\ reqs' = reqs
  BY DEF ConsistentInv, LifeInv, Uninterrupted, JobStep, DisturbJob
<1>2. PICK d \in DocIds :
        /\ d = jobs[j].doc /\ jobs[j].pc # "free"
        /\ \A e \in DocIds : e # d => docs'[e] = docs[e]
        /\ SameIdentity(docs[d], docs'[d])
  BY <1>1, JobsMoveOn
<1>3. \A e \in DocIds : e # d => Of(points', e) = Of(points, e)
  BY <1>1, <1>2, JobsAndPoints
<1>4. /\ docs[d].content \in EmptyContents => Of(points', d) = {}
      /\ docs'[d].status = "complete" => Matches(points', d, docs'[d])
      /\ jobs'[j].pc # "free" => ChunkRunOK(points', docs'[d], j, jobs'[j])
      /\ ConvertEnqueue(j) /\ docs[d].version = 1 => Of(points', d) = {}
  BY <1>2, OwnChunks
<1>5. ASSUME NEW i \in JobIds, jobs'[i].pc # "free"
      PROVE  ChunkRunOK(points', docs'[jobs'[i].doc], i, jobs'[i])
  <2>1. CASE i = j
    BY <1>1, <1>2, <1>4, <1>5, <2>1, OwnJob, FreeSlotType
  <2>2. CASE i # j /\ jobs'[i] = jobs[i]
    <3>1. jobs[i].doc \in DocIds /\ jobs[i].doc # d
      BY <1>1, <1>2, <1>5, <2>2, JobHasDocument DEF LifeInv
    <3>2. ChunkRunOK(points, docs[jobs[i].doc], i, jobs[i])
      BY <1>5, <2>2 DEF ConsistentInv
    <3> QED
      BY <1>2, <1>3, <2>2, <3>1, <3>2 DEF ChunkRunOK
  <2>3. CASE ConvertEnqueue(j) /\ jobs'[i] = Queued("chunk", jobs[j].doc)
    <3>1. Queued("chunk", d).pc = "queued" /\ Queued("chunk", d).doc = d
      BY DEF Queued, FreeSlot
    <3>2. docs'[d].version = 1 => Of(points', d) = {}
      BY <1>2, <1>4, <2>3 DEF SameIdentity
    <3> QED
      BY <1>2, <2>3, <3>1, <3>2, RunStarts
  <2>4. ~ChunkEnqueue(j)
    BY <1>1, <1>2 DEF LifeInv, WorkOK, ChunkEnqueue, At
  <2> QED
    BY <1>1, <2>1, <2>2, <2>3, <2>4, OtherJobs
<1>6. ASSUME NEW r \in Reqs, Serving(reqs[r]), reqs[r].pc = "enqueue",
             docs'[reqs[r].doc].version = 1
      PROVE  Of(points', reqs[r].doc) = {}
  <2>1. reqs[r].doc \in DocIds /\ reqs[r].doc # d
    BY <1>1, <1>2, <1>6, ServingDocument DEF LifeInv
  <2> QED
    BY <1>2, <1>3, <1>6, <2>1 DEF ConsistentInv
<1>7. ASSUME NEW e \in DocIds PROVE RecordOK(points', reqs', e, docs'[e])
  <2>1. CASE e = d
    BY <1>2, <1>4, <2>1 DEF RecordOK, SameIdentity
  <2>2. CASE e # d
    BY <1>1, <1>2, <1>3, <2>2
       DEF ConsistentInv, RecordOK, Matches
  <2> QED
    BY <2>1, <2>2
<1> QED
  BY <1>1, <1>5, <1>6, <1>7 DEF ConsistentInv

(* Requests clear points of the document they have in hand, and put none.  *)
LEMMA RequestsAndPoints ==
  ASSUME LifeInv, Undisturbed, NEW r \in Reqs,
         RequestStep(r) \/ ReceiveRequest(r) \/ AbortRequest(r)
  PROVE  \/ points' = points
         \/ /\ GoesOn(r) /\ points' \subseteq points
            /\ \A e \in DocIds :
                 e # reqs[r].doc => Of(points', e) = Of(points, e)
<1>1. CASE ~DeleteChunks(r) /\ ~ReprocessChunks(r)
  <2>1. points' = points
    BY <1>1
       DEF RequestStep, ReceiveRequest, UploadDocument, DeleteDocumentRoute,
           ReprocessDocument, UploadLookup, UploadStore, UploadInsert,
           EnqueueConversion, CleanGraph, DeleteRawBlob, DeleteMarkdownBlob,
           DeleteRecord, ReprocessBump, UploadReceive, ReceiveForDocument,
           AbortRequest, stores
  <2> QED
    BY <2>1
<1>2. CASE DeleteChunks(r) \/ ReprocessChunks(r)
  <2>1. points' = points \/ points' = points \ PointsOf(reqs[r].doc)
    BY <1>2 DEF DeleteChunks, ReprocessChunks, DeleteDocChunks
  <2>2. /\ reqs[r].pc = "chunks" /\ docs' = docs /\ jobs' = jobs
        /\ reqs'[r].doc = reqs[r].doc /\ reqs'[r].pc \in {"blob", "bump"}
    BY <1>2, ProceedFields
       DEF DeleteChunks, ReprocessChunks, arqVars, LifeInv
  <2>3. reqs[r].doc # None
    BY <2>2, Typed, StoresAssumption DEF LifeInv, Inv, ReqsOK, ReqOK
  <2>4. GoesOn(r)
    BY <2>2, <2>3 DEF GoesOn, Serving
  <2> QED
    BY <2>1, <2>4 DEF PointsOf, Of
<1> QED
  BY <1>1, <1>2

LEMMA RequestsKeepConsistentInv ==
  ASSUME ConsistentInv, Uninterrupted, LifeInv', NEW r \in Reqs,
         RequestStep(r) \/ ReceiveRequest(r) \/ AbortRequest(r)
  PROVE  ConsistentInv'
<1>1. Inv /\ LifeInv /\ Undisturbed
  BY DEF ConsistentInv, LifeInv, Uninterrupted
<1>2. \A s \in Reqs : s # r => reqs'[s] = reqs[s]
  BY <1>1, OtherRequests
<1>3. RequestOutcome(r)
  BY <1>1, RequestsMoveOn
<1>4. /\ points' \subseteq points
      /\ ~GoesOn(r) => points' = points
  BY <1>1, RequestsAndPoints
<1>5. \A d \in DocIds : Of(points', d) \subseteq Of(points, d)
  BY <1>4 DEF Of
<1>6. ASSUME NEW j \in JobIds, jobs[j].pc # "free"
      PROVE  /\ jobs[j].doc \in DocIds
             /\ ChunkRunOK(points, docs[jobs[j].doc], j, jobs[j])
             /\ Serving(reqs[r]) => reqs[r].doc # jobs[j].doc
             /\ docs[jobs[j].doc].state = "live"
  BY <1>1, <1>6, JobHasDocument DEF ConsistentInv, LifeInv, WorkOK
<1>7. ASSUME NEW s \in Reqs, Serving(reqs[s])
      PROVE  /\ reqs[s].doc \in DocIds /\ docs[reqs[s].doc].state = "live"
             /\ s # r /\ Serving(reqs[r]) => reqs[s].doc # reqs[r].doc
             /\ reqs[s].pc = "enqueue" /\ docs[reqs[s].doc].version = 1 =>
                  Of(points, reqs[s].doc) = {}
  BY <1>1, <1>7, ServingDocument DEF ConsistentInv, LifeInv, ServiceOK
<1>8. CASE GoesOn(r) \/ HasNone(r)
  <2>1. docs' = docs /\ jobs' = jobs
    BY <1>8 DEF GoesOn, HasNone
  <2>2. \A e \in DocIds : Of(points', e) = Of(points, e)
          \/ (GoesOn(r) /\ e = reqs[r].doc)
    BY <1>1, RequestsAndPoints
  <2>3. GoesOn(r) =>
          /\ Serving(reqs[r]) /\ Serving(reqs'[r]) /\ reqs'[r].doc = reqs[r].doc
          /\ reqs'[r].pc # "enqueue"
    BY DEF GoesOn, Serving, Uninterrupted
  <2>4. HasNone(r) => ~Serving(reqs[r]) /\ ~Serving(reqs'[r])
    BY DEF HasNone, Serving
  <2>5. ASSUME NEW j \in JobIds, jobs'[j].pc # "free"
        PROVE  ChunkRunOK(points', docs'[jobs'[j].doc], j, jobs'[j])
    <3>1. Of(points', jobs[j].doc) = Of(points, jobs[j].doc)
      BY <1>6, <2>1, <2>2, <2>3, <2>5
    <3> QED
      BY <1>6, <2>1, <2>5, <3>1 DEF ChunkRunOK
  <2>6. ASSUME NEW s \in Reqs, Serving(reqs'[s]), reqs'[s].pc = "enqueue",
               docs'[reqs'[s].doc].version = 1
        PROVE  Of(points', reqs'[s].doc) = {}
    BY <1>2, <1>5, <1>7, <1>8, <2>1, <2>3, <2>4, <2>6
  <2>7. ASSUME NEW d \in DocIds PROVE RecordOK(points', reqs', d, docs'[d])
    <3>1. RecordOK(points, reqs, d, docs[d])
      BY DEF ConsistentInv
    <3>2. Served(reqs, d) => Served(reqs', d)
      BY <1>2, <1>8, <2>3, <2>4 DEF Served
    <3>3. Of(points', d) = Of(points, d) \/ Served(reqs', d)
      BY <2>2, <2>3 DEF Served
    <3> QED
      BY <1>5, <2>1, <3>1, <3>2, <3>3 DEF RecordOK, Matches
  <2> QED
    BY <2>5, <2>6, <2>7 DEF ConsistentInv
<1>9. ASSUME NEW d \in DocIds, ~GoesOn(r),
             \A e \in DocIds : e # d => docs'[e] = docs[e],
             \/ Receives(r, d) \/ Accepts(r, d) \/ Restarts(r, d)
             \/ Removes(r, d) \/ Enqueues(r, d)
      PROVE  ConsistentInv'
  <2>1. points' = points
    BY <1>4, <1>9
  <2>2. docs[d].state = "unused" => Of(points, d) = {}
    BY <1>1 DEF Inv, PointsOK, PointOK, Of
  <2>3. \A e \in DocIds : docs[e].state = "live" => docs[e].version >= 1
    BY <1>1 DEF Inv, DocsOK, DocOK
  <2>4. docs[d].version \in Nat
    BY <1>1, Typed DEF DocRecord
  <2>5. reqs'[r].doc = d
    BY <1>9 DEF Receives, Accepts, Restarts, Removes, Enqueues
  <2>6. Serving(reqs'[r]) /\ reqs'[r].pc = "enqueue" /\ docs'[d].version = 1 =>
          Of(points, d) = {}
    <3>1. CASE Accepts(r, d)
      BY <2>2, <3>1 DEF Accepts
    <3>2. CASE Restarts(r, d)
      <4>1. docs[d].version >= 1 /\ docs'[d].version = docs[d].version + 1
        BY <1>7, <2>3, <3>2 DEF Restarts
      <4> QED
        BY <2>4, <4>1
    <3>3. CASE Receives(r, d) \/ Removes(r, d) \/ Enqueues(r, d)
      BY <3>3 DEF Receives, Removes, Enqueues
    <3> QED
      BY <1>9, <3>1, <3>2, <3>3
  <2>7. ASSUME NEW j \in JobIds, jobs[j].pc # "free"
        PROVE  docs'[jobs[j].doc] = docs[jobs[j].doc]
    BY <1>6, <1>9, <2>7 DEF Receives, Accepts, Restarts, Removes, Enqueues
  <2>8. ASSUME NEW s \in Reqs, s # r, Serving(reqs[s])
        PROVE  docs'[reqs[s].doc] = docs[reqs[s].doc]
    BY <1>7, <1>9, <2>8 DEF Receives, Accepts, Restarts, Removes, Enqueues
  <2>9. ASSUME NEW j \in JobIds, jobs'[j].pc # "free"
        PROVE  ChunkRunOK(points', docs'[jobs'[j].doc], j, jobs'[j])
    <3>1. CASE jobs'[j] = jobs[j]
      BY <1>6, <2>1, <2>7, <2>9, <3>1
    <3>2. CASE Enqueues(r, d) /\ jobs'[j] = Queued("convert", d)
      <4>1. /\ Queued("convert", d).pc = "queued"
            /\ Queued("convert", d).doc = d
        BY DEF Queued, FreeSlot
      <4>2. docs'[d].version = 1 => Of(points', d) = {}
        BY <1>7, <2>1, <3>2 DEF Enqueues
      <4> QED
        BY <3>2, <4>1, <4>2, RunStarts
    <3> QED
      BY <1>9, <3>1, <3>2 DEF Receives, Accepts, Restarts, Removes, Enqueues
  <2>10. ASSUME NEW s \in Reqs, Serving(reqs'[s]), reqs'[s].pc = "enqueue",
                docs'[reqs'[s].doc].version = 1
         PROVE  Of(points', reqs'[s].doc) = {}
    BY <1>2, <1>7, <2>1, <2>5, <2>6, <2>8, <2>10
  <2>11. ASSUME NEW e \in DocIds PROVE RecordOK(points', reqs', e, docs'[e])
    <3>1. RecordOK(points, reqs, e, docs[e])
      BY DEF ConsistentInv
    <3>2. CASE e # d
      <4>1. Served(reqs, e) => Served(reqs', e)
        BY <1>2, <1>9, <3>2
           DEF Served, Receives, Accepts, Restarts, Removes, Enqueues
      <4> QED
        BY <1>9, <2>1, <3>1, <3>2, <4>1 DEF RecordOK
    <3>3. CASE e = d /\ Receives(r, d)
      BY <1>9, <2>1, <3>1, <3>3, StoresAssumption
         DEF RecordOK, Receives, Served, Serving
    <3>4. CASE e = d /\ Accepts(r, d)
      BY <2>1, <2>2, <3>4 DEF Accepts, RecordOK
    <3>5. CASE e = d /\ Restarts(r, d)
      <4>1. docs[d].state = "live" /\ docs'[d].state = "live"
        BY <1>7, <3>5 DEF Restarts
      <4>2. RequestWrites(r, d)
        BY <1>1, RequestsWrite
      <4>3. docs'[d].content = docs[d].content
        BY <4>1, <4>2 DEF RequestWrites
      <4> QED
        BY <2>1, <3>1, <3>5, <4>1, <4>3 DEF Restarts, RecordOK
    <3>6. CASE e = d /\ Removes(r, d)
      BY <3>6 DEF Removes, RecordOK
    <3>7. CASE e = d /\ Enqueues(r, d)
      <4>1. docs'[d] = docs[d] /\ docs[d].status # "complete"
        BY <1>1, <3>7, ServingDocument
           DEF Enqueues, ServiceOK, Settled, TerminalStatuses
      <4> QED
        BY <2>1, <3>1, <3>7, <4>1 DEF RecordOK
    <3> QED
      BY <1>9, <3>2, <3>3, <3>4, <3>5, <3>6, <3>7
  <2> QED
    BY <2>9, <2>10, <2>11 DEF ConsistentInv
<1> QED
  BY <1>3, <1>8, <1>9 DEF RequestOutcome

LEMMA NextConsistentInv ==
  ASSUME ConsistentInv, Uninterrupted, [Next]_vars
  PROVE  ConsistentInv'
<1>1. LifeInv'
  BY NextLifeInv DEF ConsistentInv, Uninterrupted
<1>2. CASE UNCHANGED vars
  BY <1>1, <1>2 DEF vars, ConsistentInv, RecordOK, Served
<1> QED
  BY <1>1, <1>2, JobsKeepConsistentInv, RequestsKeepConsistentInv DEF Next

LEMMA InitConsistentInv == Init => ConsistentInv
BY InitLifeInv, FreeSlotType
   DEF Init, StoresInit, ArqInit, ApiInit, ConsistentInv, NoDoc, NewReq,
       Serving, RecordOK

LEMMA ConsistentInvImplies == ConsistentInv => CompleteIsConsistent
<1> SUFFICES ASSUME ConsistentInv, NEW d \in DocIds, Live(d),
                    docs[d].status = "complete", Quiet(d)
             PROVE  ChunksMatchRecord(d)
  BY DEF CompleteIsConsistent
<1>1. d # None
  BY StoresAssumption
<1>2. ~Served(reqs, d)
  BY DEF Served, Serving, Quiet, InProgress
<1>3. Matches(points, d, docs[d])
  BY <1>2 DEF ConsistentInv, RecordOK, Live
<1> QED
  BY <1>3 DEF Matches, ChunksMatchRecord, ChunksOf, Of, PointsOf

(* With clients that wait, a complete document at rest has the chunks of   *)
(* one run of the chunker and of its current version, one per batch and    *)
(* none left over from earlier versions or failed runs: whatever steps     *)
(* raise, whichever jobs are abandoned and however often the document is   *)
(* reprocessed.                                                            *)
THEOREM CompleteDocumentsAreConsistent ==
  ASSUME Uninterrupted
  PROVE  Spec => []CompleteIsConsistent
<1>1. ConsistentInv /\ [Next]_vars => ConsistentInv'
  BY NextConsistentInv
<1> QED
  BY <1>1, InitConsistentInv, ConsistentInvImplies, PTL DEF Spec

-----------------------------------------------------------------------------
(* What a deletion leaves *)

(* A conversion of d has uploaded the markdown and not yet said so. *)
Finishing(d) == \E j \in JobIds : At(j, "convert", "finish") /\ jobs[j].doc = d

MarkdownOwned ==
  /\ \A d \in markdown : Live(d) /\ (docs[d].md \/ Finishing(d))
  /\ \A j \in JobIds : jobs[j].pc # "landing"
  /\ \A r \in Reqs :
       Serving(reqs[r]) /\ reqs[r].pc = "record" => reqs[r].doc \notin markdown

(* A deletion that is past a store has emptied it, because no job works on *)
(* the document, and it will empty the next one, because the record it     *)
(* read is still the one there is.                                         *)
CleanInv ==
  /\ LifeInv
  /\ \A p \in points : Live(p.doc)
  /\ \A r \in Reqs :
       Serving(reqs[r]) =>
         /\ reqs[r].pc \in {"blob", "markdown", "record"} =>
              Of(points, reqs[r].doc) = {}
         /\ reqs[r].pc \in {"chunks", "blob"} =>
              reqs[r].md = docs[reqs[r].doc].md
  /\ disturbances = 0 => MarkdownOwned

LEMMA JobsAndMarkdown ==
  ASSUME NEW j \in JobIds, JobStep(j) \/ DisturbJob(j)
  PROVE  markdown' = markdown \/ ConvertPut(j) \/ ConvertLand(j)
BY DEF JobStep, StartJob, GiveUpJob, ConvertDocument, ConvertMark,
       ConvertFetch, ConvertGet, ConvertFinish, ConvertEnqueue, ConvertFail,
       ChunkAndEmbed, ChunkMark, ChunkFetch, ChunkGet, ChunkEmpty, ChunkClear,
       ChunkPut, ChunkFinish, ChunkEnqueue, ChunkFail, BuildGraph, GraphFetch,
       GraphMark, GraphChunks, GraphEmpty, GraphClear, GraphPut, GraphFinish,
       GraphFail, DisturbJob, CrashJob, AbandonJob, ErrorInJob, stores

(* Only a run that is abandoned leaves an upload behind. *)
LEMMA NoUploadLands ==
  ASSUME Inv, NEW j \in JobIds, JobStep(j) \/ DisturbJob(j), ~AbandonJob(j)
  PROVE  jobs'[j].pc # "landing"
<1>1. jobs[j] \in Job
  BY Typed
<1>2. CASE StartJob(j) \/ GiveUpJob(j)
  BY <1>2, StartFields, FreeSlotType, Typed
     DEF FirstStage, GiveUpJob, Become
<1>3. CASE ConvertDocument(j)
  <2>1. CASE ConvertLand(j)
    BY <2>1, FreeSlotType, Typed DEF ConvertLand, Become
  <2> QED
    BY <1>1, <1>3, <2>1, GotoFields, FetchFields, ReturnFields,
       EnqueueNextFields, RedeliveredFields, FreeSlotType
       DEF ConvertDocument, ConvertMark, ConvertFetch, ConvertGet, ConvertPut,
           ConvertFinish, ConvertEnqueue, ConvertFail, At
<1>4. CASE ChunkAndEmbed(j)
  <2>1. CASE ChunkClear(j) \/ ChunkPut(j)
    BY <1>1, <2>1, GotoFields, Typed DEF ChunkClear, ChunkPut, At, Job
  <2> QED
    BY <1>1, <1>4, <2>1, GotoFields, FetchFields, ReturnFields,
       EnqueueNextFields, RedeliveredFields, FreeSlotType
       DEF ChunkAndEmbed, ChunkMark, ChunkFetch, ChunkGet, ChunkEmpty,
           ChunkFinish, ChunkEnqueue, ChunkFail, At
<1>5. CASE BuildGraph(j)
  BY <1>1, <1>5, GotoFields, FetchFields, ReturnFields, RedeliveredFields,
     FreeSlotType
     DEF BuildGraph, GraphFetch, GraphMark, GraphChunks, GraphEmpty,
         GraphClear, GraphPut, GraphFinish, GraphFail
<1>6. CASE DisturbJob(j)
  BY <1>1, <1>6, GotoFields, RedeliveredFields, Typed
     DEF DisturbJob, CrashJob, ErrorInJob, Become
<1> QED
  BY <1>2, <1>3, <1>4, <1>5, <1>6 DEF JobStep

LEMMA RequestsAndMarkdown ==
  ASSUME NEW r \in Reqs, RequestStep(r) \/ ReceiveRequest(r) \/ AbortRequest(r)
  PROVE  markdown' \subseteq markdown
BY DEF RequestStep, ReceiveRequest, UploadDocument, DeleteDocumentRoute,
       ReprocessDocument, UploadLookup, UploadStore, UploadInsert,
       EnqueueConversion, CleanGraph, DeleteChunks, DeleteRawBlob,
       DeleteMarkdownBlob, DeleteRecord, ReprocessChunks, ReprocessBump,
       UploadReceive, ReceiveForDocument, AbortRequest, stores

(* A path that a record has is not taken away while the record is there. *)
LEMMA PathsLast ==
  ASSUME Inv, [Next]_vars, NEW d \in DocIds, Live(d), docs[d].md, Live(d)'
  PROVE  docs'[d].md
BY NextInv DEF Evolves, AliveIn, Live

LEMMA JobsKeepCleanInv ==
  ASSUME CleanInv, Undisturbed, LifeInv',
         NEW j \in JobIds, JobStep(j) \/ DisturbJob(j)
  PROVE  CleanInv'
<1>1. Inv /\ Inv' /\ LifeInv /\ reqs' = reqs /\ [Next]_vars
  BY DEF CleanInv, LifeInv, JobStep, DisturbJob, Next
<1>2. PICK d \in DocIds :
        /\ d = jobs[j].doc /\ jobs[j].pc # "free"
        /\ \A e \in DocIds : e # d => docs'[e] = docs[e]
        /\ SameIdentity(docs[d], docs'[d])
        /\ JobOutcome(j)
  BY <1>1, JobsMoveOn
<1>3. Live(d) /\ Live(d)'
  BY <1>1, <1>2 DEF LifeInv, WorkOK, Live, SameIdentity
<1>4. \A e \in DocIds : e # d => Of(points', e) = Of(points, e)
  BY <1>2, JobsAndPoints
<1>5. ASSUME NEW r \in Reqs, Serving(reqs[r])
      PROVE  /\ reqs[r].doc \in DocIds /\ reqs[r].doc # d
             /\ docs'[reqs[r].doc] = docs[reqs[r].doc]
             /\ Of(points', reqs[r].doc) = Of(points, reqs[r].doc)
  BY <1>1, <1>2, <1>4, <1>5, ServingDocument DEF LifeInv
<1>6. ASSUME NEW p \in points' PROVE docs'[p.doc].state = "live"
  <2>1. p.doc \in DocIds
    BY <1>1, <1>6 DEF Inv, PointsOK, PointOK, Point
  <2>2. CASE p.doc # d
    <3>1. p \in points
      BY <1>4, <1>6, <2>1, <2>2 DEF Of
    <3> QED
      BY <1>2, <2>1, <2>2, <3>1 DEF CleanInv, Live
  <2> QED
    BY <1>3, <2>2 DEF Live
<1>7. ASSUME disturbances' = 0 PROVE MarkdownOwned'
  <2>1. MarkdownOwned
    BY <1>1, <1>7, DisturbancesGrow DEF CleanInv
  <2>2. ASSUME NEW what PROVE ~Disturb(what)
    BY <1>1, <1>7, DisturbancesGrow DEF Disturb
  <2>3. \A e \in markdown' : e \in markdown \/ (ConvertPut(j) /\ e = d)
    BY <1>2, <2>1, JobsAndMarkdown DEF ConvertPut, ConvertLand, At, MarkdownOwned
  <2>4. ASSUME ConvertPut(j) PROVE Finishing(d)'
    BY <1>1, <1>2, <2>4, GotoFields DEF ConvertPut, At, Finishing
  <2>5. ASSUME NEW e \in markdown
        PROVE  Live(e)' /\ (docs'[e].md \/ Finishing(e)')
    <3>1. e \in DocIds /\ Live(e) /\ (docs[e].md \/ Finishing(e))
      BY <1>1, <2>1, <2>5 DEF MarkdownOwned, Inv, StoresTypeOK
    <3>2. Live(e)'
      BY <1>2, <1>3, <3>1 DEF Live
    <3>3. ASSUME NEW i \in JobIds, At(i, "convert", "finish"), jobs[i].doc = e
          PROVE  docs'[e].md \/ Finishing(e)'
      <4>1. CASE i # j
        <5>1. jobs[i].pc # "free"
          BY <3>3 DEF At
        <5>2. jobs'[i] = jobs[i]
          BY <1>2, <4>1, <5>1 DEF JobOutcome
        <5> QED
          BY <3>3, <5>2 DEF At, Finishing
      <4>2. CASE i = j
        <5>1. ConvertFinish(j)
          BY <2>2, <3>3, <4>2
             DEF At, JobStep, StartJob, GiveUpJob, ConvertDocument,
                 ConvertMark, ConvertFetch, ConvertGet, ConvertPut, ConvertLand,
                 ConvertEnqueue, ConvertFail, ChunkAndEmbed, ChunkMark,
                 ChunkFetch, ChunkGet, ChunkEmpty, ChunkClear, ChunkPut,
                 ChunkFinish, ChunkEnqueue, ChunkFail, BuildGraph, GraphFetch,
                 GraphMark, GraphChunks, GraphEmpty, GraphClear, GraphPut,
                 GraphFinish, GraphFail, DisturbJob, CrashJob, AbandonJob,
                 ErrorInJob
        <5>2. UpdateDocument(d, [docs[d] EXCEPT !.status = "converted", !.md = TRUE])
          BY <1>2, <5>1 DEF ConvertFinish
        <5>3. docs'[d].md
          BY <1>1, <1>3, <5>2, ConvertedWrites, Zenon
        <5> QED
          BY <1>2, <3>3, <4>2, <5>3
      <4> QED
        BY <4>1, <4>2
    <3> QED
      BY <1>1, <3>1, <3>2, <3>3, PathsLast DEF Finishing
  <2>6. ASSUME NEW r \in Reqs, Serving(reqs[r]), reqs[r].pc = "record"
        PROVE  reqs[r].doc \notin markdown'
    BY <1>5, <2>1, <2>3, <2>6 DEF MarkdownOwned
  <2>7. ASSUME NEW i \in JobIds PROVE jobs'[i].pc # "landing"
    <3>1. CASE i # j
      BY <1>2, <2>1, <3>1 DEF JobOutcome, MarkdownOwned, Queued, FreeSlot
    <3>2. CASE i = j
      BY <1>1, <2>2, <3>2, NoUploadLands DEF AbandonJob
    <3> QED
      BY <3>1, <3>2
  <2> QED
    BY <1>1, <1>3, <2>3, <2>4, <2>5, <2>6, <2>7 DEF MarkdownOwned
<1> QED
  BY <1>1, <1>5, <1>6, <1>7 DEF CleanInv, Live

(* The stages of a deletion: each comes after the one before it, and the   *)
(* first, which a reprocess has too, with what the record says.            *)
LEMMA CleanupStages ==
  ASSUME LifeInv, NEW r \in Reqs,
         RequestStep(r) \/ ReceiveRequest(r) \/ AbortRequest(r)
  PROVE  /\ reqs'[r].pc = "chunks" =>
              /\ docs' = docs /\ reqs'[r].doc \in DocIds
              /\ reqs'[r].md = docs[reqs'[r].doc].md
         /\ reqs'[r].pc = "blob" => DeleteChunks(r)
         /\ reqs'[r].pc = "markdown" => DeleteRawBlob(r)
         /\ reqs'[r].pc = "record" =>
              DeleteMarkdownBlob(r) \/ (DeleteRawBlob(r) /\ ~reqs[r].md)
<1>1. Inv /\ reqs[r] \in Req /\ reqs[r].pc # "graph"
  BY Typed DEF LifeInv, BlankOK
<1>2. ASSUME NEW pc, Proceed(r, pc) PROVE reqs'[r].pc = pc
  BY <1>1, <1>2, ProceedFields
<1>3. CASE RequestStep(r)
  <2>1. ~UploadInsert(r) \/ reqs'[r].pc = "enqueue"
    BY <1>1, Typed DEF UploadInsert, Req
  <2> QED
    BY <1>1, <1>2, <1>3, <2>1
       DEF RequestStep, UploadDocument, DeleteDocumentRoute, ReprocessDocument,
           UploadLookup, UploadStore, UploadInsert, EnqueueConversion,
           CleanGraph, DeleteChunks, DeleteRawBlob, DeleteMarkdownBlob,
           DeleteRecord, ReprocessChunks, ReprocessBump
<1>4. CASE AbortRequest(r)
  BY <1>2, <1>4 DEF AbortRequest
<1>5. CASE UploadReceive(r)
  BY <1>1, <1>5, Typed DEF UploadReceive, Req
<1>6. CASE ReceiveForDocument(r)
  <2>1. PICK d \in DocIds :
          reqs' = [reqs EXCEPT ![r] =
                     [pc |-> FirstCleanup, doc |-> d,
                      content |-> docs[d].content, md |-> docs[d].md]]
    BY <1>6 DEF ReceiveForDocument
  <2>2. /\ reqs'[r].pc \in {"graph", "chunks"} /\ reqs'[r].doc = d
        /\ reqs'[r].md = docs[d].md
    BY <1>1, <2>1, Typed DEF FirstCleanup
  <2> QED
    BY <1>6, <2>2 DEF ReceiveForDocument, stores
<1> QED
  BY <1>3, <1>4, <1>5, <1>6 DEF ReceiveRequest

LEMMA RequestsKeepCleanInv ==
  ASSUME CleanInv, Undisturbed, LifeInv', NEW r \in Reqs,
         RequestStep(r) \/ ReceiveRequest(r) \/ AbortRequest(r)
  PROVE  CleanInv'
<1>1. Inv /\ Inv' /\ LifeInv /\ [Next]_vars
  BY DEF CleanInv, LifeInv, Next
<1>2. \A s \in Reqs : s # r => reqs'[s] = reqs[s]
  BY <1>1, OtherRequests
<1>3. /\ points' \subseteq points /\ \A d \in DocIds : Of(points', d) \subseteq Of(points, d)
      /\ markdown' \subseteq markdown
  <2>1. points' \subseteq points
    BY <1>1, RequestsAndPoints
  <2> QED
    BY <2>1, RequestsAndMarkdown DEF Of
<1>4. ASSUME DeleteRecord(r)
      PROVE  Serving(reqs[r]) /\ reqs[r].pc = "record" /\ reqs[r].doc \in DocIds
  <2>1. reqs[r].doc \in DocIds
    BY <1>1, <1>4 DEF DeleteRecord, Inv, ReqsOK, ReqOK
  <2> QED
    BY <1>4, <2>1, StoresAssumption DEF DeleteRecord, Serving
<1>5. ASSUME NEW p \in points' PROVE docs'[p.doc].state = "live"
  <2>1. p \in points /\ Live(p.doc) /\ p.doc \in DocIds
    BY <1>1, <1>3, <1>5 DEF CleanInv, Inv, PointsOK, PointOK, Point
  <2>2. ASSUME DeleteRecord(r), reqs[r].doc = p.doc PROVE FALSE
    BY <1>4, <2>1, <2>2 DEF CleanInv, Of
  <2> QED
    BY <1>1, <2>1, <2>2, RequestsAndContents
<1>6. ASSUME NEW s \in Reqs, s # r, Serving(reqs'[s])
      PROVE  /\ Serving(reqs[s]) /\ reqs'[s] = reqs[s] /\ reqs[s].doc \in DocIds
             /\ docs'[reqs[s].doc].md = docs[reqs[s].doc].md
  <2>1. Serving(reqs[s]) /\ reqs'[s] = reqs[s]
    BY <1>2, <1>6
  <2>2. reqs[s].doc \in DocIds /\ docs[reqs[s].doc].state = "live"
    BY <1>1, <2>1, ServingDocument DEF ServiceOK
  <2>3. ASSUME DeleteRecord(r), reqs[r].doc = reqs[s].doc PROVE FALSE
    BY <1>1, <1>4, <1>6, <2>1, <2>3 DEF LifeInv
  <2>4. RequestWrites(r, reqs[s].doc)
    BY <1>1, <2>2, RequestsWrite
  <2> QED
    BY <2>1, <2>2, <2>3, <2>4 DEF RequestWrites
<1>7. ASSUME Serving(reqs'[r])
      PROVE  /\ reqs'[r].pc \in {"blob", "markdown", "record"} =>
                  Of(points', reqs'[r].doc) = {}
             /\ reqs'[r].pc \in {"chunks", "blob"} =>
                  reqs'[r].md = docs'[reqs'[r].doc].md
  <2>1. ASSUME NEW pc, Proceed(r, pc)
        PROVE  /\ reqs'[r].pc = pc /\ reqs'[r].doc = reqs[r].doc
               /\ reqs'[r].md = reqs[r].md
    BY <1>1, <2>1, Typed DEF Proceed, Req
  <2>2. CASE reqs'[r].pc = "chunks"
    BY <1>1, <2>2, CleanupStages
  <2>3. CASE reqs'[r].pc = "blob"
    <3>1. DeleteChunks(r)
      BY <1>1, <2>3, CleanupStages
    <3>2. /\ reqs[r].pc = "chunks" /\ docs' = docs
          /\ reqs'[r].doc = reqs[r].doc /\ reqs'[r].md = reqs[r].md
          /\ points' = points \ PointsOf(reqs[r].doc)
      BY <2>1, <3>1 DEF DeleteChunks, DeleteDocChunks
    <3>3. Serving(reqs[r])
      BY <1>7, <3>2 DEF Serving
    <3>4. Of(points', reqs'[r].doc) = {}
      BY <3>2 DEF Of, PointsOf
    <3> QED
      BY <2>3, <3>2, <3>3, <3>4 DEF CleanInv
  <2>4. CASE reqs'[r].pc \in {"markdown", "record"}
    <3>1. DeleteRawBlob(r) \/ DeleteMarkdownBlob(r)
      BY <1>1, <2>4, CleanupStages
    <3>2. /\ reqs[r].pc \in {"blob", "markdown"} /\ points' = points
          /\ reqs'[r].doc = reqs[r].doc
      BY <2>1, <3>1 DEF DeleteRawBlob, DeleteMarkdownBlob
    <3>3. Serving(reqs[r])
      BY <1>7, <3>2 DEF Serving
    <3> QED
      BY <2>4, <3>2, <3>3 DEF CleanInv
  <2> QED
    BY <2>2, <2>3, <2>4
<1>8. ASSUME disturbances' = 0 PROVE MarkdownOwned'
  <2>1. MarkdownOwned
    BY <1>1, <1>8, DisturbancesGrow DEF CleanInv
  <2>2. ASSUME NEW what PROVE ~Disturb(what)
    BY <1>1, <1>8, DisturbancesGrow DEF Disturb
  <2>3. ASSUME NEW e \in markdown'
        PROVE  docs'[e].state = "live" /\ (docs'[e].md \/ Finishing(e)')
    <3>1. /\ e \in markdown /\ e \in DocIds
          /\ Live(e) /\ (docs[e].md \/ Finishing(e))
      BY <1>1, <1>3, <2>1, <2>3 DEF MarkdownOwned, Inv, StoresTypeOK
    <3>2. ASSUME DeleteRecord(r), reqs[r].doc = e PROVE FALSE
      BY <1>4, <2>1, <3>1, <3>2 DEF MarkdownOwned
    <3>3. docs'[e].state = "live"
      BY <1>1, <3>1, <3>2, RequestsAndContents
    <3>4. ASSUME Finishing(e) PROVE Finishing(e)'
      <4>1. PICK i \in JobIds : At(i, "convert", "finish") /\ jobs[i].doc = e
        BY <3>4 DEF Finishing
      <4>2. jobs[i].pc # "free"
        BY <4>1 DEF At
      <4>3. jobs'[i] = jobs[i]
        BY <1>1, <4>2, RequestsMoveOn
           DEF RequestOutcome, GoesOn, HasNone, Receives, Accepts, Restarts,
               Removes, Enqueues
      <4> QED
        BY <4>1, <4>3 DEF At, Finishing
    <3> QED
      BY <1>1, <3>1, <3>3, <3>4, PathsLast DEF Live
  <2>4. ASSUME NEW s \in Reqs, Serving(reqs'[s]), reqs'[s].pc = "record"
        PROVE  reqs'[s].doc \notin markdown'
    <3>1. CASE s # r
      BY <1>3, <1>6, <2>1, <2>4, <3>1 DEF MarkdownOwned
    <3>2. CASE s = r /\ DeleteMarkdownBlob(r)
      <4>1. reqs'[r].doc = reqs[r].doc
        BY <1>1, <3>2, ProceedFields DEF DeleteMarkdownBlob
      <4> QED
        BY <2>2, <3>2, <4>1 DEF DeleteMarkdownBlob
    <3>3. CASE s = r /\ DeleteRawBlob(r) /\ ~reqs[r].md
      <4>1. /\ reqs'[r].doc = reqs[r].doc /\ reqs[r].pc = "blob"
            /\ markdown' = markdown
        BY <1>1, <3>3, ProceedFields DEF DeleteRawBlob
      <4>2. Serving(reqs[r])
        BY <2>4, <3>3, <4>1 DEF Serving
      <4>3. ~docs[reqs[r].doc].md
        BY <3>3, <4>1, <4>2 DEF CleanInv
      <4>4. ~Finishing(reqs[r].doc)
        BY <1>1, <4>2 DEF Finishing, At, LifeInv
      <4> QED
        BY <2>1, <3>3, <4>1, <4>3, <4>4 DEF MarkdownOwned
    <3> QED
      BY <1>1, <2>4, <3>1, <3>2, <3>3, CleanupStages
  <2>5. ASSUME NEW i \in JobIds PROVE jobs'[i].pc # "landing"
    <3>1. jobs'[i] = jobs[i] \/ jobs'[i] = Queued("convert", reqs[r].doc)
      BY <1>1, RequestsAndJobs
    <3> QED
      BY <2>1, <3>1 DEF MarkdownOwned, Queued, FreeSlot
  <2> QED
    BY <2>3, <2>4, <2>5 DEF MarkdownOwned, Live
<1>9. ASSUME NEW s \in Reqs, s # r, Serving(reqs'[s])
      PROVE  /\ reqs'[s].pc \in {"blob", "markdown", "record"} =>
                  Of(points', reqs'[s].doc) = {}
             /\ reqs'[s].pc \in {"chunks", "blob"} =>
                  reqs'[s].md = docs'[reqs'[s].doc].md
  BY <1>3, <1>6, <1>9 DEF CleanInv
<1> QED
  BY <1>5, <1>7, <1>8, <1>9 DEF CleanInv, Live

LEMMA NextCleanInv ==
  ASSUME CleanInv, Undisturbed, [Next]_vars
  PROVE  CleanInv'
<1>1. LifeInv'
  BY NextLifeInv DEF CleanInv
<1>2. CASE UNCHANGED vars
  BY <1>1, <1>2
     DEF vars, CleanInv, MarkdownOwned, Live, Finishing, At
<1> QED
  BY <1>1, <1>2, JobsKeepCleanInv, RequestsKeepCleanInv DEF Next

LEMMA InitCleanInv == Init => CleanInv
BY InitLifeInv
   DEF Init, StoresInit, ArqInit, ApiInit, CleanInv, MarkdownOwned, NewReq,
       Serving, FreeSlot

(* With clients that wait, no chunk outlives its document, whatever steps  *)
(* raise and whichever jobs are abandoned and requests cut short; and      *)
(* without these, no markdown does.                                        *)
THEOREM DeletedDocumentsLeaveNothing ==
  ASSUME Undisturbed
  PROVE  Spec => []DeletionLeavesNothing
<1>1. CleanInv => DeletionLeavesNothing
  BY DEF CleanInv, MarkdownOwned, DeletionLeavesNothing
<1>2. CleanInv /\ [Next]_vars => CleanInv'
  BY NextCleanInv
<1> QED
  BY <1>1, <1>2, InitCleanInv, PTL DEF Spec

=============================================================================
