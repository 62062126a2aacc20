--------------------------- MODULE PipelineProofs ---------------------------
(***************************************************************************)
(* Theorems about the pipeline, for every number of documents, contents,   *)
(* jobs, requests, batches, tries and disturbances: first what jobs and    *)
(* requests know of the documents, then what the records promise.          *)
(***************************************************************************)
EXTENDS Pipeline, TLAPS

-----------------------------------------------------------------------------
(* The inductive invariant speaks of one job, one request, one point at a  *)
(* time, given the documents D.  D is a parameter because the argument is  *)
(* always the same: a step changes the documents in one of the few ways    *)
(* that Evolves allows, and what was known of a job survives all of them.  *)

AliveIn(D, d) == D[d].state = "live"

(* What a step may do to the documents. *)
Evolves(D, E) ==
  /\ D \in [DocIds -> DocRecord]
  /\ E \in [DocIds -> DocRecord]
  /\ \A d \in DocIds :
       /\ D[d].state # "unused" => E[d].state # "unused"
       /\ D[d].state = "deleted" => E[d] = D[d]
       /\ AliveIn(D, d) /\ AliveIn(E, d) =>
            /\ D[d].version <= E[d].version
            /\ D[d].md => E[d].md
       /\ AliveIn(E, d) /\ ~AliveIn(D, d) => E[d].version = 1

(* The handler of this job has read a record and not yet returned. *)
PastFetch(job) ==
  \/ job.pc \in {"get", "put", "landing", "finish", "empty", "clear", "chunks",
                 "enqueue"}
  \/ job.kind = "graph" /\ job.pc = "mark"

JobOK(D, job) ==
  /\ job \in Job
  /\ job.pc # "free" =>
       /\ job.kind \in Kinds
       /\ job.doc \in DocIds
       /\ D[job.doc].state # "unused"
       /\ PastFetch(job) => job.snap.state = "live"
       /\ job.snap.state = "live" /\ AliveIn(D, job.doc) =>
            job.snap.version \in 1 .. D[job.doc].version
       /\ AliveIn(D, job.doc) /\ job.kind = "chunk" => D[job.doc].md
       /\ AliveIn(D, job.doc) /\ job.kind = "convert" /\ job.pc = "enqueue" =>
            D[job.doc].md
       /\ job.kind = "chunk" /\ PastFetch(job) => job.snap.md

ReqOK(D, req) ==
  /\ req \in Req
  /\ req.pc \in {"lookup", "store", "insert"} => req.content \in Contents
  /\ req.pc \in {"graph", "chunks", "blob", "markdown", "record", "bump",
                 "enqueue"} =>
       req.doc \in DocIds /\ D[req.doc].state # "unused"

PointOK(D, p) ==
  /\ p \in Point
  /\ D[p.doc].state # "unused"
  /\ AliveIn(D, p.doc) => p.version \in 1 .. D[p.doc].version

DocOK(doc) == doc.state = "live" => doc.version >= 1

DocsOK == \A d \in DocIds : DocOK(docs[d])

JobsOK == jobs \in [JobIds -> Job] /\ \A j \in JobIds : JobOK(docs, jobs[j])

ReqsOK == reqs \in [Reqs -> Req] /\ \A r \in Reqs : ReqOK(docs, reqs[r])

PointsOK == \A p \in points : PointOK(docs, p)

Inv ==
  /\ StoresTypeOK
  /\ disturbances \in Nat
  /\ DocsOK
  /\ JobsOK
  /\ ReqsOK
  /\ PointsOK

-----------------------------------------------------------------------------
(* Facts about the values *)

LEMMA NoDocType == NoDoc \in DocRecord
BY DEF NoDoc, DocRecord, Statuses, GraphStatuses

LEMMA FreeSlotType == FreeSlot \in Job /\ FreeSlot.pc = "free"
BY NoDocType DEF FreeSlot, Job, Kinds, Stages

LEMMA EvolvesReflexive ==
  ASSUME NEW D \in [DocIds -> DocRecord]
  PROVE  Evolves(D, D)
BY DEF Evolves, AliveIn, DocRecord

LEMMA JobStable ==
  ASSUME NEW D, NEW E, NEW job, Evolves(D, E), JobOK(D, job)
  PROVE  JobOK(E, job)
BY DEF Evolves, JobOK, AliveIn, Job, DocRecord

LEMMA ReqStable ==
  ASSUME NEW D, NEW E, NEW req, Evolves(D, E), ReqOK(D, req)
  PROVE  ReqOK(E, req)
BY DEF Evolves, ReqOK, AliveIn

LEMMA PointStable ==
  ASSUME NEW D, NEW E, NEW p, Evolves(D, E), PointOK(D, p)
  PROVE  PointOK(E, p)
BY DEF Evolves, PointOK, Point, AliveIn, DocRecord

LEMMA FreeJobIsFree ==
  ASSUME FreeJobs # {}
  PROVE  FreeJob \in JobIds /\ jobs[FreeJob].pc = "free"
BY DEF FreeJobs, FreeJob

-----------------------------------------------------------------------------
(* How the parts of the invariant survive a step                           *)

LEMMA UnchangedParts ==
  ASSUME Inv, Evolves(docs, docs')
  PROVE  /\ jobs' = jobs => JobsOK'
         /\ reqs' = reqs => ReqsOK'
         /\ points' \subseteq points => PointsOK'
BY JobStable, ReqStable, PointStable
   DEF Inv, JobsOK, ReqsOK, PointsOK

LEMMA OneJobChanges ==
  ASSUME Inv, Evolves(docs, docs'),
         NEW j \in JobIds, NEW job, JobOK(docs', job),
         jobs' = [jobs EXCEPT ![j] = job]
  PROVE  JobsOK'
<1>1. job \in Job
  BY DEF JobOK
<1>2. jobs' \in [JobIds -> Job]
  BY <1>1 DEF Inv, JobsOK
<1>3. ASSUME NEW i \in JobIds PROVE JobOK(docs', jobs'[i])
  BY JobStable DEF Inv, JobsOK
<1> QED
  BY <1>2, <1>3 DEF JobsOK

LEMMA OneReqChanges ==
  ASSUME Inv, Evolves(docs, docs'),
         NEW r \in Reqs, NEW req, ReqOK(docs', req),
         reqs' = [reqs EXCEPT ![r] = req]
  PROVE  ReqsOK'
<1>1. req \in Req
  BY DEF ReqOK
<1>2. reqs' \in [Reqs -> Req]
  BY <1>1 DEF Inv, ReqsOK
<1>3. ASSUME NEW i \in Reqs PROVE ReqOK(docs', reqs'[i])
  BY ReqStable DEF Inv, ReqsOK
<1> QED
  BY <1>2, <1>3 DEF ReqsOK

LEMMA InvFromParts ==
  ASSUME Inv, Evolves(docs, docs'),
         raw' \subseteq Contents, markdown' \subseteq DocIds,
         graph' \subseteq GraphRef, disturbances' \in Nat,
         JobsOK', ReqsOK', PointsOK'
  PROVE  Inv' /\ Evolves(docs, docs')
<1>1. points' \subseteq Point
  BY DEF PointsOK, PointOK
<1>2. DocsOK'
  BY DEF Inv, DocsOK, DocOK, Evolves, AliveIn, DocRecord
<1> QED
  BY <1>1, <1>2 DEF Inv, StoresTypeOK, Evolves

(* The documents change in no other way than Evolves allows. *)
LEMMA UpdateEvolves ==
  ASSUME Inv, NEW d \in DocIds, NEW new \in DocRecord,
         UpdateDocument(d, new),
         Live(d) =>
           \/ new.state = "deleted"
           \/ /\ new.state = "live"
              /\ docs[d].version <= new.version
              /\ docs[d].md => new.md
  PROVE  Evolves(docs, docs')
<1>1. docs \in [DocIds -> DocRecord]
  BY DEF Inv, StoresTypeOK
<1>2. docs' = [docs EXCEPT ![d] = IF docs[d].state = "live" THEN new ELSE docs[d]]
  BY DEF UpdateDocument
<1>3. docs' \in [DocIds -> DocRecord]
  BY <1>1, <1>2
<1>4. ASSUME NEW e \in DocIds, e # d PROVE docs'[e] = docs[e]
  BY <1>1, <1>2, <1>4
<1>5. docs'[d] = IF docs[d].state = "live" THEN new ELSE docs[d]
  BY <1>1, <1>2
<1> QED
  BY <1>1, <1>3, <1>4, <1>5 DEF Evolves, AliveIn, Live, DocRecord

LEMMA FieldsEvolve ==
  ASSUME Inv, NEW d \in DocIds, NEW new \in DocRecord,
         UpdateDocument(d, new),
         new.state = docs[d].state,
         new.version = docs[d].version,
         docs[d].md => new.md
  PROVE  Evolves(docs, docs')
<1>1. docs[d] \in DocRecord
  BY DEF Inv, StoresTypeOK
<1>2. docs[d].version <= new.version
  BY <1>1 DEF DocRecord
<1> QED
  BY <1>2, UpdateEvolves DEF Live

LEMMA StatusEvolves ==
  ASSUME Inv, NEW d \in DocIds, NEW status \in Statuses,
         UpdateDocumentStatus(d, status)
  PROVE  Evolves(docs, docs')
<1> DEFINE new == [docs[d] EXCEPT !.status = status]
<1>1. docs[d] \in DocRecord
  BY DEF Inv, StoresTypeOK
<1>2. /\ new \in DocRecord
      /\ new.state = docs[d].state
      /\ new.version = docs[d].version
      /\ new.md = docs[d].md
  BY <1>1 DEF DocRecord
<1>3. UpdateDocument(d, new)
  BY DEF UpdateDocumentStatus
<1> HIDE DEF new
<1> QED
  BY <1>2, <1>3, FieldsEvolve

LEMMA InsertEvolves ==
  ASSUME Inv, NEW d \in DocIds, NEW c \in Contents,
         docs[d].state = "unused", InsertDocument(d, c)
  PROVE  Evolves(docs, docs')
<1> DEFINE new == [NoDoc EXCEPT !.state = "live", !.version = 1, !.content = c]
<1>1. docs \in [DocIds -> DocRecord]
  BY DEF Inv, StoresTypeOK
<1>2. new \in DocRecord /\ new.state = "live" /\ new.version = 1
  BY DEF NoDoc, DocRecord, Statuses, GraphStatuses
<1>3. docs' = [docs EXCEPT ![d] = new]
  BY DEF InsertDocument
<1>4. docs' \in [DocIds -> DocRecord]
  BY <1>1, <1>2, <1>3
<1> QED
  BY <1>1, <1>2, <1>3, <1>4 DEF Evolves, AliveIn, DocRecord

LEMMA SameDocsEvolve ==
  ASSUME Inv, docs' = docs
  PROVE  Evolves(docs, docs')
BY EvolvesReflexive DEF Inv, StoresTypeOK

-----------------------------------------------------------------------------
(* Steps of jobs *)

(* A handler that goes to its next stage takes what it knows with it. *)
LEMMA GotoOK ==
  ASSUME Inv, Evolves(docs, docs'),
         NEW j \in JobIds, NEW pc \in Stages \cup {"landing"}, jobs[j].pc # "free",
         PastFetch(jobs[j]) \/ pc = "fail"
           \/ (pc = "fetch" /\ jobs[j].kind # "graph"),
         Goto(j, pc),
         jobs[j].kind = "convert" /\ pc = "enqueue" /\ AliveIn(docs', jobs[j].doc) =>
           docs'[jobs[j].doc].md
  PROVE  JobsOK'
<1> DEFINE job == [jobs[j] EXCEPT !.pc = pc]
<1>1. JobOK(docs', jobs[j])
  BY JobStable DEF Inv, JobsOK
<1>2. /\ job \in Job
      /\ job.pc = pc
      /\ job.kind = jobs[j].kind
      /\ job.doc = jobs[j].doc
      /\ job.snap = jobs[j].snap
  BY <1>1 DEF JobOK, Job
<1>3. PastFetch(job) => PastFetch(jobs[j])
  BY <1>2 DEF PastFetch
<1>4. JobOK(docs', job)
  BY <1>1, <1>2, <1>3 DEF JobOK
<1>5. jobs' = [jobs EXCEPT ![j] = job]
  BY DEF Goto
<1> QED
  BY <1>4, <1>5, OneJobChanges

(* The record a handler reads becomes its snapshot. *)
LEMMA FetchOK ==
  ASSUME Inv, docs' = docs,
         NEW j \in JobIds, jobs[j].pc # "free", NEW next \in Stages,
         next # "enqueue",
         FetchDocument(j, next)
  PROVE  JobsOK'
<1>1. JobOK(docs, jobs[j]) /\ jobs[j] \in Job
  BY DEF Inv, JobsOK, JobOK
<1>2. Evolves(docs, docs')
  BY SameDocsEvolve
<1>3. CASE Live(jobs[j].doc)
  <2> DEFINE job == [jobs[j] EXCEPT !.pc = next, !.snap = docs[jobs[j].doc]]
  <2>1. jobs[j].doc \in DocIds
    BY <1>1 DEF JobOK
  <2>2. docs[jobs[j].doc] \in DocRecord /\ DocOK(docs[jobs[j].doc])
    BY <2>1 DEF Inv, StoresTypeOK, DocsOK
  <2>3. /\ job \in Job
        /\ job.pc = next
        /\ job.kind = jobs[j].kind
        /\ job.doc = jobs[j].doc
        /\ job.snap = docs[jobs[j].doc]
    BY <1>1, <2>2 DEF Job
  <2>4. JobOK(docs, job)
    BY <1>1, <1>3, <2>1, <2>2, <2>3
       DEF JobOK, AliveIn, Live, DocOK, DocRecord
  <2>5. jobs' = [jobs EXCEPT ![j] = job]
    BY <1>3 DEF FetchDocument
  <2> QED
    BY <1>2, <2>4, <2>5, OneJobChanges
<1>4. CASE ~Live(jobs[j].doc)
  <2>1. Goto(j, "fail")
    BY <1>4 DEF FetchDocument, Goto
  <2> QED
    BY <1>2, <2>1, GotoOK DEF Stages
<1> QED
  BY <1>3, <1>4

LEMMA FreeSlotOK ==
  ASSUME NEW D
  PROVE  JobOK(D, FreeSlot)
BY FreeSlotType DEF JobOK

LEMMA RedeliveredOK ==
  ASSUME NEW D, NEW job, JobOK(D, job), job.pc # "free"
  PROVE  JobOK(D, Redelivered(job))
<1>1. /\ Redelivered(job) \in Job
      /\ Redelivered(job).pc = "queued"
      /\ Redelivered(job).kind = job.kind
      /\ Redelivered(job).doc = job.doc
      /\ Redelivered(job).snap = NoDoc
  BY NoDocType DEF JobOK, Redelivered, Job
<1> QED
  BY <1>1 DEF JobOK, PastFetch, NoDoc

(* A handler returns, and its job is over or delivered again. *)
LEMMA ReturnOK ==
  ASSUME Inv, Evolves(docs, docs'), NEW j \in JobIds, jobs[j].pc # "free",
         Return(j)
  PROVE  JobsOK' /\ disturbances' \in Nat
<1>1. JobOK(docs', jobs[j])
  BY JobStable DEF Inv, JobsOK
<1>2. disturbances' \in Nat
  BY DEF Return, Disturb, Inv
<1>3. CASE Become(j, FreeSlot)
  BY <1>2, <1>3, FreeSlotOK, OneJobChanges DEF Become
<1>4. CASE Become(j, Redelivered(jobs[j]))
  BY <1>1, <1>2, <1>4, RedeliveredOK, OneJobChanges DEF Become
<1> QED
  BY <1>3, <1>4 DEF Return

LEMMA QueuedOK ==
  ASSUME NEW D, NEW kind \in Kinds, NEW d \in DocIds,
         D[d].state # "unused",
         kind = "chunk" /\ AliveIn(D, d) => D[d].md
  PROVE  JobOK(D, Queued(kind, d))
<1>1. /\ Queued(kind, d) \in Job
      /\ Queued(kind, d).pc = "queued"
      /\ Queued(kind, d).kind = kind
      /\ Queued(kind, d).doc = d
      /\ Queued(kind, d).snap = NoDoc
  BY NoDocType DEF Queued, FreeSlot, Job
<1> QED
  BY <1>1 DEF JobOK, PastFetch, NoDoc

(* A handler enqueues the job of the next kind, and returns or fails. *)
LEMMA EnqueueNextOK ==
  ASSUME Inv, docs' = docs, NEW j \in JobIds, NEW kind \in Kinds,
         jobs[j].pc = "enqueue",
         kind = "chunk" => jobs[j].kind = "convert",
         EnqueueNext(j, kind)
  PROVE  JobsOK' /\ disturbances' \in Nat
<1> DEFINE next == Queued(kind, jobs[j].doc)
<1>1. JobOK(docs, jobs[j]) /\ jobs[j] \in Job
  BY DEF Inv, JobsOK, JobOK
<1>2. FreeJob \in JobIds /\ FreeJob # j
  BY FreeJobIsFree DEF EnqueueNext
<1>3. JobOK(docs, next) /\ next \in Job
  <2>1. JobOK(docs, next)
    BY <1>1, QueuedOK DEF JobOK
  <2> QED
    BY <2>1 DEF JobOK
<1>4. ASSUME NEW mine, JobOK(docs, mine),
             jobs' = [jobs EXCEPT ![j] = mine, ![FreeJob] = next]
      PROVE  JobsOK'
  <2>1. mine \in Job
    BY <1>4 DEF JobOK
  <2>2. jobs \in [JobIds -> Job] /\ \A i \in JobIds : JobOK(docs, jobs[i])
    BY DEF Inv, JobsOK
  <2>3. jobs' \in [JobIds -> Job]
    BY <1>3, <1>4, <2>1, <2>2
  <2>4. ASSUME NEW i \in JobIds PROVE JobOK(docs', jobs'[i])
    BY <1>2, <1>3, <1>4, <2>2
  <2> QED
    BY <2>3, <2>4 DEF JobsOK
<1>5. jobs[j].pc # "free"
  OBVIOUS
<1>6. JobOK(docs, FreeSlot) /\ JobOK(docs, Redelivered(jobs[j]))
  BY <1>1, <1>5, FreeSlotOK, RedeliveredOK
<1>7. JobOK(docs, [jobs[j] EXCEPT !.pc = "fail"])
  <2> DEFINE mine == [jobs[j] EXCEPT !.pc = "fail"]
  <2>1. /\ mine \in Job
        /\ mine.pc = "fail"
        /\ mine.kind = jobs[j].kind
        /\ mine.doc = jobs[j].doc
        /\ mine.snap = jobs[j].snap
    BY <1>1 DEF Job, Stages
  <2> QED
    BY <1>1, <2>1 DEF JobOK, PastFetch
<1>8. JobsOK'
  <2>1. CASE jobs' = [jobs EXCEPT ![j] = FreeSlot, ![FreeJob] = next]
    BY <1>4, <1>6, <2>1
  <2>2. CASE jobs' = [jobs EXCEPT ![j] = Redelivered(jobs[j]), ![FreeJob] = next]
    BY <1>4, <1>6, <2>2
  <2>3. CASE jobs' = [jobs EXCEPT ![j] = [jobs[j] EXCEPT !.pc = "fail"],
                                  ![FreeJob] = next]
    BY <1>4, <1>7, <2>3
  <2> QED
    BY <2>1, <2>2, <2>3 DEF EnqueueNext
<1>9. disturbances' \in Nat
  BY DEF EnqueueNext, Inv, Disturb
<1> QED
  BY <1>8, <1>9

-----------------------------------------------------------------------------
(* The converter *)

LEMMA ConverterKeepsInv ==
  ASSUME Inv, NEW j \in JobIds, ConvertDocument(j), reqs' = reqs
  PROVE  Inv' /\ Evolves(docs, docs')
<1> DEFINE d == jobs[j].doc
<1>1. JobOK(docs, jobs[j]) /\ jobs[j] \in Job
  BY DEF Inv, JobsOK, JobOK
<1>2. jobs[j].pc # "free" => d \in DocIds /\ docs[d] \in DocRecord
  BY <1>1 DEF JobOK, Inv, StoresTypeOK
<1>3. CASE ConvertMark(j)
  <2>1. Evolves(docs, docs')
    BY <1>2, <1>3, StatusEvolves DEF ConvertMark, At, Statuses
  <2>2. JobsOK'
    BY <1>3, <2>1, GotoOK DEF ConvertMark, At, Stages
  <2> QED
    BY <1>3, <2>1, <2>2, UnchangedParts, InvFromParts
       DEF ConvertMark, Inv, StoresTypeOK
<1>4. CASE ConvertFetch(j)
  <2>1. JobsOK'
    BY <1>4, FetchOK DEF ConvertFetch, At, stores, Stages
  <2> QED
    BY <1>4, <2>1, SameDocsEvolve, UnchangedParts, InvFromParts
       DEF ConvertFetch, stores, Inv, StoresTypeOK
<1>5. CASE ConvertGet(j)
  <2>1. Evolves(docs, docs')
    BY <1>5, SameDocsEvolve DEF ConvertGet, stores
  <2>2. JobsOK'
    BY <1>5, <2>1, GotoOK DEF ConvertGet, At, PastFetch, Stages
  <2> QED
    BY <1>5, <2>1, <2>2, UnchangedParts, InvFromParts
       DEF ConvertGet, stores, Inv, StoresTypeOK
<1>6. CASE ConvertPut(j)
  <2>1. Evolves(docs, docs')
    BY <1>6, SameDocsEvolve DEF ConvertPut
  <2>2. JobsOK'
    BY <1>6, <2>1, GotoOK DEF ConvertPut, ConvertLand, At, PastFetch, Stages
  <2> QED
    BY <1>2, <1>6, <2>1, <2>2, UnchangedParts, InvFromParts
       DEF ConvertPut, ConvertLand, At, Inv, StoresTypeOK
<1>10. CASE ConvertLand(j)
  <2>1. Evolves(docs, docs')
    BY <1>10, SameDocsEvolve DEF ConvertLand
  <2>2. JobsOK'
    BY <1>10, <2>1, FreeSlotOK, OneJobChanges DEF ConvertLand, Become
  <2> QED
    BY <1>2, <1>10, <2>1, <2>2, UnchangedParts, InvFromParts
       DEF ConvertLand, At, Inv, StoresTypeOK
<1>7. CASE ConvertFinish(j)
  <2> DEFINE new == [docs[d] EXCEPT !.status = "converted", !.md = TRUE]
  <2>1. d \in DocIds /\ docs[d] \in DocRecord
    BY <1>2, <1>7 DEF ConvertFinish, At
  <2>2. /\ new \in DocRecord
        /\ new.state = docs[d].state
        /\ new.version = docs[d].version
        /\ new.md
    BY <2>1 DEF DocRecord, Statuses
  <2>3. UpdateDocument(d, new)
    BY <1>7 DEF ConvertFinish
  <2> HIDE DEF new
  <2>4. Evolves(docs, docs')
    BY <2>1, <2>2, <2>3, FieldsEvolve
  <2>5. AliveIn(docs', d) => docs'[d].md
    BY <2>1, <2>2, <2>3 DEF UpdateDocument, AliveIn, Inv, StoresTypeOK
  <2>6. JobsOK'
    BY <1>7, <2>4, <2>5, GotoOK DEF ConvertFinish, At, PastFetch, Stages
  <2> QED
    BY <1>7, <2>4, <2>6, UnchangedParts, InvFromParts
       DEF ConvertFinish, Inv, StoresTypeOK
<1>8. CASE ConvertEnqueue(j)
  <2>1. JobsOK' /\ disturbances' \in Nat
    BY <1>8, EnqueueNextOK DEF ConvertEnqueue, At, stores, Kinds
  <2> QED
    BY <1>8, <2>1, SameDocsEvolve, UnchangedParts, InvFromParts
       DEF ConvertEnqueue, stores, Inv, StoresTypeOK
<1>9. CASE ConvertFail(j)
  <2>1. Evolves(docs, docs')
    BY <1>2, <1>9, StatusEvolves DEF ConvertFail, At, Statuses
  <2>2. JobsOK' /\ disturbances' \in Nat
    BY <1>9, <2>1, ReturnOK DEF ConvertFail, At
  <2> QED
    BY <1>9, <2>1, <2>2, UnchangedParts, InvFromParts
       DEF ConvertFail, Inv, StoresTypeOK
<1> QED
  BY <1>3, <1>4, <1>5, <1>6, <1>7, <1>8, <1>9, <1>10 DEF ConvertDocument

-----------------------------------------------------------------------------
(* The chunker *)

LEMMA ChunkPutOK ==
  ASSUME Inv, NEW j \in JobIds, ChunkPut(j)
  PROVE  JobsOK' /\ PointsOK'
<1> DEFINE job == jobs[j]
           new == [doc |-> job.doc, version |-> job.snap.version, job |-> j,
                   try |-> job.tries, batch |-> job.batch]
           more == [job EXCEPT !.batch = @ + 1]
<1>1. JobOK(docs, job) /\ job \in Job
  BY DEF Inv, JobsOK, JobOK
<1>2. docs' = docs /\ job.pc = "put" /\ job.kind = "chunk" /\ job.pc # "free"
  BY DEF ChunkPut, At
<1>3. Evolves(docs, docs')
  BY <1>2, SameDocsEvolve
<1>4. JobsOK'
  <2>1. /\ more \in Job
        /\ more.pc = job.pc
        /\ more.kind = job.kind
        /\ more.doc = job.doc
        /\ more.snap = job.snap
    BY <1>1 DEF Job
  <2>2. JobOK(docs, more)
    BY <1>1, <2>1 DEF JobOK, PastFetch
  <2>3. CASE jobs' = [jobs EXCEPT ![j].batch = @ + 1]
    <3>1. jobs' = [jobs EXCEPT ![j] = more]
      BY <2>3
    <3> QED
      BY <1>2, <1>3, <2>2, <3>1, OneJobChanges
  <2>4. CASE Goto(j, "finish")
    BY <1>2, <1>3, <2>4, GotoOK DEF PastFetch, Stages
  <2> QED
    BY <2>3, <2>4 DEF ChunkPut
<1>5. PointOK(docs, new)
  <2>1. PastFetch(job)
    BY <1>2 DEF PastFetch
  <2>2. job.doc \in DocIds /\ job.tries \in Nat /\ job.batch \in Nat
    BY <1>1, <1>2 DEF JobOK, Job
  <2>3. job.snap \in DocRecord
    BY <1>1 DEF Job
  <2>4. new \in Point
    BY <2>2, <2>3 DEF Point, DocRecord
  <2> QED
    BY <1>1, <1>2, <2>1, <2>4 DEF JobOK, PointOK
<1>6. PointsOK'
  <2>1. points' = points \cup {new}
    BY DEF ChunkPut
  <2> QED
    BY <1>2, <1>5, <2>1 DEF PointsOK, Inv
<1> QED
  BY <1>4, <1>6

(* ChunkEmpty and ChunkFinish write status and chunk_count. *)
LEMMA CompleteEvolves ==
  ASSUME Inv, NEW d \in DocIds, NEW n \in Nat,
         UpdateDocument(d, [docs[d] EXCEPT !.status = "complete",
                                           !.chunkCount = n])
  PROVE  Evolves(docs, docs')
<1> DEFINE new == [docs[d] EXCEPT !.status = "complete", !.chunkCount = n]
<1>1. docs[d] \in DocRecord
  BY DEF Inv, StoresTypeOK
<1>2. /\ new \in DocRecord
      /\ new.state = docs[d].state
      /\ new.version = docs[d].version
      /\ new.md = docs[d].md
  BY <1>1 DEF DocRecord, Statuses
<1>3. UpdateDocument(d, new)
  OBVIOUS
<1> HIDE DEF new
<1> QED
  BY <1>2, <1>3, FieldsEvolve

LEMMA ChunkerKeepsInv ==
  ASSUME Inv, NEW j \in JobIds, ChunkAndEmbed(j), reqs' = reqs
  PROVE  Inv' /\ Evolves(docs, docs')
<1> DEFINE d == jobs[j].doc
<1>1. JobOK(docs, jobs[j]) /\ jobs[j] \in Job
  BY DEF Inv, JobsOK, JobOK
<1>2. jobs[j].pc # "free" => d \in DocIds
  BY <1>1 DEF JobOK
<1>3. CASE ChunkMark(j)
  <2>1. Evolves(docs, docs')
    BY <1>2, <1>3, StatusEvolves DEF ChunkMark, At, Statuses
  <2>2. JobsOK'
    BY <1>3, <2>1, GotoOK DEF ChunkMark, At, Stages
  <2> QED
    BY <1>3, <2>1, <2>2, UnchangedParts, InvFromParts
       DEF ChunkMark, Inv, StoresTypeOK
<1>4. CASE ChunkFetch(j)
  <2>1. JobsOK'
    BY <1>4, FetchOK DEF ChunkFetch, At, stores, Stages
  <2> QED
    BY <1>4, <2>1, SameDocsEvolve, UnchangedParts, InvFromParts
       DEF ChunkFetch, stores, Inv, StoresTypeOK
<1>5. CASE ChunkGet(j)
  <2>1. Evolves(docs, docs')
    BY <1>5, SameDocsEvolve DEF ChunkGet, stores
  <2>2. JobsOK'
    BY <1>5, <2>1, GotoOK DEF ChunkGet, At, PastFetch, Stages
  <2> QED
    BY <1>5, <2>1, <2>2, UnchangedParts, InvFromParts
       DEF ChunkGet, stores, Inv, StoresTypeOK
<1>6. CASE ChunkEmpty(j)
  <2>1. Evolves(docs, docs')
    BY <1>2, <1>6, CompleteEvolves DEF ChunkEmpty, At
  <2>2. JobsOK' /\ disturbances' \in Nat
    BY <1>6, <2>1, ReturnOK DEF ChunkEmpty, At
  <2> QED
    BY <1>6, <2>1, <2>2, UnchangedParts, InvFromParts
       DEF ChunkEmpty, Inv, StoresTypeOK
<1>7. CASE ChunkClear(j)
  <2> DEFINE job == [jobs[j] EXCEPT !.pc = "put", !.batch = 1]
  <2>1. Evolves(docs, docs')
    BY <1>7, SameDocsEvolve DEF ChunkClear
  <2>2. jobs[j].pc = "clear" /\ jobs[j].kind = "chunk" /\ docs' = docs
    BY <1>7 DEF ChunkClear, At
  <2>3. /\ job \in Job
        /\ job.pc = "put"
        /\ job.kind = jobs[j].kind
        /\ job.doc = jobs[j].doc
        /\ job.snap = jobs[j].snap
    BY <1>1 DEF Job, Stages
  <2>4. JobOK(docs', job)
    BY <1>1, <2>2, <2>3 DEF JobOK, PastFetch
  <2>5. JobsOK'
    <3>1. jobs' = [jobs EXCEPT ![j] = job]
      BY <1>7 DEF ChunkClear
    <3> QED
      BY <2>1, <2>4, <3>1, OneJobChanges
  <2>6. points' \subseteq points
    BY <1>7 DEF ChunkClear, DeleteDocChunks
  <2> QED
    BY <1>7, <2>1, <2>5, <2>6, UnchangedParts, InvFromParts
       DEF ChunkClear, Inv, StoresTypeOK
<1>8. CASE ChunkPut(j)
  <2>1. JobsOK' /\ PointsOK'
    BY <1>8, ChunkPutOK
  <2> QED
    BY <1>8, <2>1, SameDocsEvolve, UnchangedParts, InvFromParts
       DEF ChunkPut, Inv, StoresTypeOK
<1>9. CASE ChunkFinish(j)
  <2>1. Evolves(docs, docs')
    BY <1>2, <1>9, CompleteEvolves, StoresAssumption DEF ChunkFinish, At
  <2>2. JobsOK' /\ disturbances' \in Nat
    <3>1. CASE Goto(j, "enqueue") /\ disturbances' = disturbances
      BY <1>9, <2>1, <3>1, GotoOK DEF ChunkFinish, At, PastFetch, Stages, Inv
    <3>2. CASE Return(j)
      BY <1>9, <2>1, <3>2, ReturnOK DEF ChunkFinish, At
    <3> QED
      BY <1>9, <3>1, <3>2 DEF ChunkFinish
  <2> QED
    BY <1>9, <2>1, <2>2, UnchangedParts, InvFromParts
       DEF ChunkFinish, Inv, StoresTypeOK
<1>10. CASE ChunkEnqueue(j)
  <2>1. JobsOK' /\ disturbances' \in Nat
    BY <1>10, EnqueueNextOK DEF ChunkEnqueue, At, stores, Kinds
  <2> QED
    BY <1>10, <2>1, SameDocsEvolve, UnchangedParts, InvFromParts
       DEF ChunkEnqueue, stores, Inv, StoresTypeOK
<1>11. CASE ChunkFail(j)
  <2>1. Evolves(docs, docs')
    BY <1>2, <1>11, StatusEvolves DEF ChunkFail, At, Statuses
  <2>2. JobsOK' /\ disturbances' \in Nat
    BY <1>11, <2>1, ReturnOK DEF ChunkFail, At
  <2> QED
    BY <1>11, <2>1, <2>2, UnchangedParts, InvFromParts
       DEF ChunkFail, Inv, StoresTypeOK
<1> QED
  BY <1>3, <1>4, <1>5, <1>6, <1>7, <1>8, <1>9, <1>10, <1>11
     DEF ChunkAndEmbed

-----------------------------------------------------------------------------
(* The graph worker *)

LEMMA GraphStatusEvolves ==
  ASSUME Inv, NEW d \in DocIds, NEW graphStatus \in GraphStatuses,
         WriteGraphStatus(d, graphStatus)
  PROVE  Evolves(docs, docs')
<1> DEFINE new == [docs[d] EXCEPT !.status = "complete",
                                  !.graphStatus = graphStatus]
<1>1. docs[d] \in DocRecord
  BY DEF Inv, StoresTypeOK
<1>2. /\ new \in DocRecord
      /\ new.state = docs[d].state
      /\ new.version = docs[d].version
      /\ new.md = docs[d].md
  BY <1>1 DEF DocRecord, Statuses
<1>3. UpdateDocument(d, new)
  BY DEF WriteGraphStatus
<1> HIDE DEF new
<1> QED
  BY <1>2, <1>3, FieldsEvolve

LEMMA GraphKeepsInv ==
  ASSUME Inv, NEW j \in JobIds, BuildGraph(j), reqs' = reqs
  PROVE  Inv' /\ Evolves(docs, docs')
<1> DEFINE d == jobs[j].doc
<1>1. JobOK(docs, jobs[j]) /\ jobs[j] \in Job
  BY DEF Inv, JobsOK, JobOK
<1>2. jobs[j].pc # "free" => d \in DocIds
  BY <1>1 DEF JobOK
<1>3. CASE GraphFetch(j)
  <2>1. jobs[j].kind = "graph" /\ jobs[j].pc = "fetch" /\ docs' = docs
    BY <1>3 DEF GraphFetch, At, stores
  <2>2. Evolves(docs, docs')
    BY <2>1, SameDocsEvolve
  <2>3. JobsOK' /\ disturbances' \in Nat
    <3>1. CASE Return(j)
      BY <2>1, <2>2, <3>1, ReturnOK
    <3>2. CASE FetchDocument(j, "mark") /\ disturbances' = disturbances
      BY <2>1, <3>2, FetchOK DEF Stages, Inv
    <3> QED
      BY <1>3, <3>1, <3>2 DEF GraphFetch
  <2> QED
    BY <1>3, <2>2, <2>3, UnchangedParts, InvFromParts
       DEF GraphFetch, stores, Inv, StoresTypeOK
<1>4. CASE GraphMark(j)
  <2>1. Evolves(docs, docs')
    BY <1>2, <1>4, GraphStatusEvolves DEF GraphMark, At, GraphStatuses
  <2>2. JobsOK'
    BY <1>4, <2>1, GotoOK DEF GraphMark, At, PastFetch, Stages
  <2> QED
    BY <1>4, <2>1, <2>2, UnchangedParts, InvFromParts
       DEF GraphMark, Inv, StoresTypeOK
<1>5. CASE GraphChunks(j)
  <2>1. Evolves(docs, docs')
    BY <1>5, SameDocsEvolve DEF GraphChunks, stores
  <2>2. JobsOK'
    BY <1>5, <2>1, GotoOK DEF GraphChunks, At, PastFetch, Stages
  <2> QED
    BY <1>5, <2>1, <2>2, UnchangedParts, InvFromParts
       DEF GraphChunks, stores, Inv, StoresTypeOK
<1>6. CASE GraphEmpty(j)
  <2>1. Evolves(docs, docs')
    BY <1>2, <1>6, GraphStatusEvolves DEF GraphEmpty, At, GraphStatuses
  <2>2. JobsOK' /\ disturbances' \in Nat
    BY <1>6, <2>1, ReturnOK DEF GraphEmpty, At
  <2> QED
    BY <1>6, <2>1, <2>2, UnchangedParts, InvFromParts
       DEF GraphEmpty, Inv, StoresTypeOK
<1>7. CASE GraphClear(j)
  <2>1. Evolves(docs, docs')
    BY <1>7, SameDocsEvolve DEF GraphClear
  <2>2. JobsOK'
    BY <1>7, <2>1, GotoOK DEF GraphClear, At, PastFetch, Stages
  <2> QED
    BY <1>7, <2>1, <2>2, UnchangedParts, InvFromParts
       DEF GraphClear, DeleteDocGraphData, Inv, StoresTypeOK
<1>8. CASE GraphPut(j)
  <2>1. Evolves(docs, docs')
    BY <1>8, SameDocsEvolve DEF GraphPut
  <2>2. JobsOK'
    BY <1>8, <2>1, GotoOK DEF GraphPut, At, PastFetch, Stages
  <2>3. graph' \subseteq GraphRef
    BY <1>2, <1>8 DEF GraphPut, At, GraphRef, Inv, StoresTypeOK
  <2> QED
    BY <1>8, <2>1, <2>2, <2>3, UnchangedParts, InvFromParts
       DEF GraphPut, Inv, StoresTypeOK
<1>9. CASE GraphFinish(j)
  <2>1. Evolves(docs, docs')
    BY <1>2, <1>9, GraphStatusEvolves DEF GraphFinish, At, GraphStatuses
  <2>2. JobsOK' /\ disturbances' \in Nat
    BY <1>9, <2>1, ReturnOK DEF GraphFinish, At
  <2> QED
    BY <1>9, <2>1, <2>2, UnchangedParts, InvFromParts
       DEF GraphFinish, Inv, StoresTypeOK
<1>10. CASE GraphFail(j)
  <2>1. Evolves(docs, docs')
    BY <1>2, <1>10, GraphStatusEvolves DEF GraphFail, At, GraphStatuses
  <2>2. JobsOK' /\ disturbances' \in Nat
    BY <1>10, <2>1, ReturnOK DEF GraphFail, At
  <2> QED
    BY <1>10, <2>1, <2>2, UnchangedParts, InvFromParts
       DEF GraphFail, Inv, StoresTypeOK
<1> QED
  BY <1>3, <1>4, <1>5, <1>6, <1>7, <1>8, <1>9, <1>10 DEF BuildGraph

-----------------------------------------------------------------------------
(* arq and the environment *)

LEMMA StartedType ==
  ASSUME NEW job \in Job, NEW pc \in Stages
  PROVE  LET started == [job EXCEPT !.pc = pc, !.tries = @ + 1] IN
         /\ started \in Job
         /\ started.pc = pc
         /\ started.kind = job.kind
         /\ started.doc = job.doc
         /\ started.snap = job.snap
<1>2. job.tries + 1 \in Nat
  BY DEF Job
<1>3. ASSUME NEW n \in Nat
      PROVE  LET started == [job EXCEPT !.pc = pc, !.tries = n] IN
             /\ started \in Job
             /\ started.pc = pc
             /\ started.kind = job.kind
             /\ started.doc = job.doc
             /\ started.snap = job.snap
  BY DEF Job
<1> QED
  BY <1>2, <1>3

LEMMA ArqKeepsInv ==
  ASSUME Inv, NEW j \in JobIds, reqs' = reqs,
         \/ StartJob(j) \/ GiveUpJob(j)
         \/ CrashJob(j) \/ AbandonJob(j) \/ ErrorInJob(j)
  PROVE  Inv' /\ Evolves(docs, docs')
<1>1. JobOK(docs, jobs[j]) /\ jobs[j] \in Job
  BY DEF Inv, JobsOK, JobOK
<1>2. UNCHANGED stores /\ docs' = docs
  BY DEF StartJob, GiveUpJob, CrashJob, AbandonJob, ErrorInJob,
         stores
<1>3. Evolves(docs, docs')
  BY <1>2, SameDocsEvolve
<1>4. disturbances' \in Nat
  BY DEF StartJob, GiveUpJob, CrashJob, AbandonJob, ErrorInJob,
         Disturb, Inv
<1>5. JobsOK'
  <2>1. CASE StartJob(j)
    <3> DEFINE job == [jobs[j] EXCEPT !.pc = FirstStage(jobs[j].kind),
                                      !.tries = @ + 1]
    <3>0. FirstStage(jobs[j].kind) \in Stages
      BY DEF Stages, FirstStage
    <3>1. /\ job \in Job
          /\ job.pc = FirstStage(jobs[j].kind)
          /\ job.kind = jobs[j].kind
          /\ job.doc = jobs[j].doc
          /\ job.snap = jobs[j].snap
      BY <1>1, <3>0, StartedType
    <3>2. JobOK(docs', job)
      BY <1>1, <1>2, <2>1, <3>1
         DEF StartJob, FirstStage, JobOK, PastFetch
    <3>3. jobs' = [jobs EXCEPT ![j] = job]
      BY <2>1 DEF StartJob
    <3> QED
      BY <1>3, <3>2, <3>3, OneJobChanges
  <2>2. CASE Become(j, FreeSlot)
    BY <1>3, <2>2, FreeSlotOK, OneJobChanges DEF Become
  <2>3. CASE CrashJob(j)
    <3>1. jobs[j].pc # "free"
      BY <2>3 DEF CrashJob, Running, Stages
    <3>2. JobOK(docs', Redelivered(jobs[j]))
      BY <1>1, <1>2, <3>1, RedeliveredOK
    <3> QED
      BY <1>3, <2>3, <3>2, OneJobChanges DEF CrashJob, Become
  <2>4. CASE ErrorInJob(j)
    BY <1>3, <2>4, GotoOK DEF ErrorInJob, Running, Stages
  <2>5. CASE AbandonJob(j) /\ At(j, "convert", "put") /\ Goto(j, "landing")
    BY <1>3, <2>5, GotoOK DEF At, PastFetch, Stages
  <2> QED
    BY <2>1, <2>2, <2>3, <2>4, <2>5 DEF GiveUpJob, AbandonJob
<1> QED
  BY <1>2, <1>3, <1>4, <1>5, UnchangedParts, InvFromParts
     DEF stores, Inv, StoresTypeOK

-----------------------------------------------------------------------------
(* The API *)

BeforeInsert == {"lookup", "store", "insert"}

WithDocument ==
  {"graph", "chunks", "blob", "markdown", "record", "bump", "enqueue"}

LEMMA ProceedOK ==
  ASSUME Inv, Evolves(docs, docs'), NEW r \in Reqs,
         NEW pc \in BeforeInsert \cup WithDocument \cup {"done", "aborted"},
         pc \in BeforeInsert => reqs[r].pc \in BeforeInsert,
         pc \in WithDocument => reqs[r].pc \in WithDocument,
         Proceed(r, pc)
  PROVE  ReqsOK'
<1> DEFINE req == [reqs[r] EXCEPT !.pc = pc]
<1>1. ReqOK(docs', reqs[r])
  BY ReqStable DEF Inv, ReqsOK
<1>2. /\ req \in Req
      /\ req.pc = pc
      /\ req.doc = reqs[r].doc
      /\ req.content = reqs[r].content
  BY <1>1 DEF ReqOK, Req, BeforeInsert, WithDocument
<1>3. ReqOK(docs', req)
  BY <1>1, <1>2 DEF ReqOK, BeforeInsert, WithDocument
<1>4. reqs' = [reqs EXCEPT ![r] = req]
  BY DEF Proceed
<1> QED
  BY <1>3, <1>4, OneReqChanges

LEMMA EnqueueConversionKeepsInv ==
  ASSUME Inv, NEW r \in Reqs, EnqueueConversion(r)
  PROVE  Inv' /\ Evolves(docs, docs')
<1> DEFINE next == Queued("convert", reqs[r].doc)
<1>1. docs' = docs /\ Evolves(docs, docs')
  BY SameDocsEvolve DEF EnqueueConversion, stores
<1>2. reqs[r].doc \in DocIds /\ docs[reqs[r].doc].state # "unused"
  BY DEF EnqueueConversion, Inv, ReqsOK, ReqOK
<1>3. JobOK(docs', next)
  BY <1>1, <1>2, QueuedOK DEF Kinds
<1>4. JobsOK'
  BY <1>1, <1>3, FreeJobIsFree, OneJobChanges
     DEF EnqueueConversion, EnqueueJob
<1>5. ReqsOK'
  BY <1>1, ProceedOK DEF EnqueueConversion, BeforeInsert, WithDocument
<1> QED
  BY <1>1, <1>4, <1>5, UnchangedParts, InvFromParts
     DEF EnqueueConversion, stores, Inv, StoresTypeOK

LEMMA UploadKeepsInv ==
  ASSUME Inv, NEW r \in Reqs, UploadReceive(r) \/ UploadDocument(r)
  PROVE  Inv' /\ Evolves(docs, docs')
<1>1. ReqOK(docs, reqs[r]) /\ reqs[r] \in Req
  BY DEF Inv, ReqsOK, ReqOK
<1>2. CASE UploadReceive(r)
  <2>1. PICK c \in Contents, force \in Forces :
          reqs' = [reqs EXCEPT ![r].content = c,
                               ![r].pc = IF force THEN "store" ELSE "lookup"]
    BY <1>2 DEF UploadReceive
  <2> DEFINE req == [reqs[r] EXCEPT !.content = c,
                                    !.pc = IF force THEN "store" ELSE "lookup"]
  <2>2. Evolves(docs, docs')
    BY <1>2, SameDocsEvolve DEF UploadReceive, stores
  <2>3. ReqOK(docs', req)
    BY <1>1 DEF ReqOK, Req
  <2>4. ReqsOK'
    BY <2>1, <2>2, <2>3, OneReqChanges
  <2> QED
    BY <1>2, <2>2, <2>4, UnchangedParts, InvFromParts
       DEF UploadReceive, arqVars, stores, Inv, StoresTypeOK
<1>3. CASE UploadLookup(r)
  <2>1. Evolves(docs, docs')
    BY <1>3, SameDocsEvolve DEF UploadLookup, stores
  <2>2. ReqsOK'
    BY <1>3, <2>1, ProceedOK DEF UploadLookup, BeforeInsert, WithDocument
  <2> QED
    BY <1>3, <2>1, <2>2, UnchangedParts, InvFromParts
       DEF UploadLookup, arqVars, stores, Inv, StoresTypeOK
<1>4. CASE UploadStore(r)
  <2>1. Evolves(docs, docs')
    BY <1>4, SameDocsEvolve DEF UploadStore
  <2>2. ReqsOK'
    BY <1>4, <2>1, ProceedOK DEF UploadStore, BeforeInsert, WithDocument
  <2>3. raw' \subseteq Contents
    BY <1>1, <1>4 DEF UploadStore, ReqOK, Inv, StoresTypeOK
  <2> QED
    BY <1>4, <2>1, <2>2, <2>3, UnchangedParts, InvFromParts
       DEF UploadStore, arqVars, Inv, StoresTypeOK
<1>5. CASE UploadInsert(r)
  <2> DEFINE d == CHOOSE d \in DocIds : docs[d].state = "unused"
             req == [reqs[r] EXCEPT !.pc = "enqueue", !.doc = d]
  <2>1. d \in DocIds /\ docs[d].state = "unused"
    BY <1>5 DEF UploadInsert, FreshDocIds
  <2>2. reqs[r].content \in Contents
    BY <1>1, <1>5 DEF UploadInsert, ReqOK
  <2>3. InsertDocument(d, reqs[r].content)
    BY <1>5 DEF UploadInsert
  <2>4. reqs' = [reqs EXCEPT ![r].pc = "enqueue", ![r].doc = d]
    BY <1>5 DEF UploadInsert
  <2> HIDE DEF d
  <2>5. Evolves(docs, docs')
    BY <2>1, <2>2, <2>3, InsertEvolves
  <2>6. docs'[d].state # "unused"
    BY <2>1, <2>3 DEF InsertDocument, NoDoc, Inv, StoresTypeOK
  <2>7. ReqOK(docs', req)
    BY <1>1, <2>1, <2>6 DEF ReqOK, Req
  <2>8. ReqsOK'
    <3>1. reqs \in [Reqs -> Req]
      BY DEF Inv, ReqsOK
    <3>2. reqs' = [reqs EXCEPT ![r] = req]
      BY <2>4, <3>1
    <3> HIDE DEF req
    <3> QED
      BY <2>5, <2>7, <3>2, OneReqChanges
  <2> QED
    BY <1>5, <2>5, <2>8, UnchangedParts, InvFromParts
       DEF UploadInsert, arqVars, Inv, StoresTypeOK
<1>6. CASE EnqueueConversion(r)
  BY <1>6, EnqueueConversionKeepsInv
<1> QED
  BY <1>2, <1>3, <1>4, <1>5, <1>6 DEF UploadDocument

LEMMA ReceiveKeepsInv ==
  ASSUME Inv, NEW r \in Reqs, ReceiveForDocument(r)
  PROVE  Inv' /\ Evolves(docs, docs')
<1>1. PICK d \in DocIds :
        /\ Live(d)
        /\ reqs' = [reqs EXCEPT ![r] =
                      [pc |-> FirstCleanup, doc |-> d,
                       content |-> docs[d].content, md |-> docs[d].md]]
  BY DEF ReceiveForDocument
<1> DEFINE req == [pc |-> FirstCleanup, doc |-> d,
                   content |-> docs[d].content, md |-> docs[d].md]
<1>2. docs' = docs /\ Evolves(docs, docs')
  BY SameDocsEvolve DEF ReceiveForDocument, stores
<1>3. docs[d] \in DocRecord
  BY DEF Inv, StoresTypeOK
<1>4. req \in Req
  BY <1>3 DEF Req, DocRecord, FirstCleanup
<1>5. ReqOK(docs', req)
  BY <1>1, <1>2, <1>4 DEF ReqOK, Live, FirstCleanup
<1>6. ReqsOK'
  BY <1>1, <1>2, <1>5, OneReqChanges
<1> QED
  BY <1>2, <1>6, UnchangedParts, InvFromParts
     DEF ReceiveForDocument, arqVars, stores, Inv, StoresTypeOK

LEMMA CleanGraphKeepsInv ==
  ASSUME Inv, NEW r \in Reqs, CleanGraph(r)
  PROVE  Inv' /\ Evolves(docs, docs')
<1>1. Evolves(docs, docs')
  BY SameDocsEvolve DEF CleanGraph
<1>2. ReqsOK'
  BY <1>1, ProceedOK DEF CleanGraph, BeforeInsert, WithDocument
<1>3. graph' \subseteq GraphRef /\ disturbances' \in Nat
  BY DEF CleanGraph, DeleteDocGraphData, Disturb, Inv, StoresTypeOK
<1> QED
  BY <1>1, <1>2, <1>3, UnchangedParts, InvFromParts
     DEF CleanGraph, Inv, StoresTypeOK

(* DeleteDocument and IncrementVersion, the two updates that change more   *)
(* than fields.                                                            *)
LEMMA DeleteEvolves ==
  ASSUME Inv, NEW d \in DocIds, DeleteDocument(d)
  PROVE  Evolves(docs, docs')
<1> DEFINE new == [NoDoc EXCEPT !.state = "deleted"]
<1>1. new \in DocRecord /\ new.state = "deleted"
  BY DEF NoDoc, DocRecord, Statuses, GraphStatuses
<1>2. UpdateDocument(d, new)
  BY DEF DeleteDocument
<1> HIDE DEF new
<1> QED
  BY <1>1, <1>2, UpdateEvolves

LEMMA IncrementEvolves ==
  ASSUME Inv, NEW d \in DocIds, IncrementVersion(d)
  PROVE  Evolves(docs, docs')
<1> DEFINE new == [docs[d] EXCEPT !.version = @ + 1, !.status = "pending"]
<1>1. docs[d] \in DocRecord
  BY DEF Inv, StoresTypeOK
<1>2. docs[d].version \in Nat /\ docs[d].version + 1 \in Nat
  BY <1>1 DEF DocRecord
<1>3. ASSUME NEW n \in Nat
      PROVE  LET bumped == [docs[d] EXCEPT !.version = n, !.status = "pending"]
             IN  /\ bumped \in DocRecord
                 /\ bumped.state = docs[d].state
                 /\ bumped.version = n
                 /\ bumped.md = docs[d].md
  BY <1>1 DEF DocRecord, Statuses
<1>4. /\ new \in DocRecord
      /\ new.state = docs[d].state
      /\ new.version = docs[d].version + 1
      /\ new.md = docs[d].md
  BY <1>2, <1>3
<1>5. UpdateDocument(d, new)
  BY DEF IncrementVersion
<1> HIDE DEF new
<1>6. docs[d].version <= new.version
  BY <1>2, <1>4
<1> QED
  BY <1>4, <1>5, <1>6, UpdateEvolves DEF Live

LEMMA DeleteRouteKeepsInv ==
  ASSUME Inv, NEW r \in Reqs, DeleteDocumentRoute(r)
  PROVE  Inv' /\ Evolves(docs, docs')
<1>1. ReqOK(docs, reqs[r]) /\ reqs[r] \in Req
  BY DEF Inv, ReqsOK, ReqOK
<1>2. CASE CleanGraph(r)
  BY <1>2, CleanGraphKeepsInv
<1>3. CASE DeleteChunks(r)
  <2>1. Evolves(docs, docs')
    BY <1>3, SameDocsEvolve DEF DeleteChunks
  <2>2. ReqsOK'
    BY <1>3, <2>1, ProceedOK DEF DeleteChunks, BeforeInsert, WithDocument
  <2> QED
    BY <1>3, <2>1, <2>2, UnchangedParts, InvFromParts
       DEF DeleteChunks, DeleteDocChunks, arqVars, Inv, StoresTypeOK
<1>4. CASE DeleteRawBlob(r)
  <2>1. Evolves(docs, docs')
    BY <1>4, SameDocsEvolve DEF DeleteRawBlob
  <2>2. ReqsOK'
    BY <1>4, <2>1, ProceedOK DEF DeleteRawBlob, BeforeInsert, WithDocument
  <2>3. raw' \subseteq Contents /\ disturbances' \in Nat
    BY <1>4 DEF DeleteRawBlob, Disturb, Inv, StoresTypeOK
  <2> QED
    BY <1>4, <2>1, <2>2, <2>3, UnchangedParts, InvFromParts
       DEF DeleteRawBlob, Inv, StoresTypeOK
<1>5. CASE DeleteMarkdownBlob(r)
  <2>1. Evolves(docs, docs')
    BY <1>5, SameDocsEvolve DEF DeleteMarkdownBlob
  <2>2. ReqsOK'
    BY <1>5, <2>1, ProceedOK DEF DeleteMarkdownBlob, BeforeInsert, WithDocument
  <2>3. markdown' \subseteq DocIds /\ disturbances' \in Nat
    BY <1>5 DEF DeleteMarkdownBlob, Disturb, Inv, StoresTypeOK
  <2> QED
    BY <1>5, <2>1, <2>2, <2>3, UnchangedParts, InvFromParts
       DEF DeleteMarkdownBlob, Inv, StoresTypeOK
<1>6. CASE DeleteRecord(r)
  <2>1. Evolves(docs, docs')
    BY <1>1, <1>6, DeleteEvolves DEF DeleteRecord, ReqOK
  <2>2. ReqsOK'
    BY <1>6, <2>1, ProceedOK DEF DeleteRecord, BeforeInsert, WithDocument
  <2> QED
    BY <1>6, <2>1, <2>2, UnchangedParts, InvFromParts
       DEF DeleteRecord, arqVars, Inv, StoresTypeOK
<1> QED
  BY <1>2, <1>3, <1>4, <1>5, <1>6 DEF DeleteDocumentRoute

LEMMA ReprocessKeepsInv ==
  ASSUME Inv, NEW r \in Reqs, ReprocessDocument(r)
  PROVE  Inv' /\ Evolves(docs, docs')
<1>1. ReqOK(docs, reqs[r]) /\ reqs[r] \in Req
  BY DEF Inv, ReqsOK, ReqOK
<1>2. CASE CleanGraph(r)
  BY <1>2, CleanGraphKeepsInv
<1>3. CASE ReprocessChunks(r)
  <2>1. Evolves(docs, docs')
    BY <1>3, SameDocsEvolve DEF ReprocessChunks
  <2>2. ReqsOK'
    BY <1>3, <2>1, ProceedOK DEF ReprocessChunks, BeforeInsert, WithDocument
  <2>3. points' \subseteq points /\ disturbances' \in Nat
    BY <1>3 DEF ReprocessChunks, DeleteDocChunks, Disturb, Inv
  <2> QED
    BY <1>3, <2>1, <2>2, <2>3, UnchangedParts, InvFromParts
       DEF ReprocessChunks, Inv, StoresTypeOK
<1>4. CASE ReprocessBump(r)
  <2>1. Evolves(docs, docs')
    BY <1>1, <1>4, IncrementEvolves DEF ReprocessBump, ReqOK
  <2>2. ReqsOK'
    BY <1>4, <2>1, ProceedOK DEF ReprocessBump, BeforeInsert, WithDocument
  <2> QED
    BY <1>4, <2>1, <2>2, UnchangedParts, InvFromParts
       DEF ReprocessBump, arqVars, Inv, StoresTypeOK
<1>5. CASE EnqueueConversion(r)
  BY <1>5, EnqueueConversionKeepsInv
<1> QED
  BY <1>2, <1>3, <1>4, <1>5 DEF ReprocessDocument

LEMMA AbortKeepsInv ==
  ASSUME Inv, NEW r \in Reqs, AbortRequest(r)
  PROVE  Inv' /\ Evolves(docs, docs')
<1>1. Evolves(docs, docs')
  BY SameDocsEvolve DEF AbortRequest, stores
<1>2. ReqsOK'
  BY <1>1, ProceedOK DEF AbortRequest, BeforeInsert, WithDocument
<1> QED
  BY <1>1, <1>2, UnchangedParts, InvFromParts
     DEF AbortRequest, Disturb, stores, Inv, StoresTypeOK

-----------------------------------------------------------------------------
(* The inductive invariant *)

LEMMA InitInv == Init => Inv
<1> SUFFICES ASSUME Init PROVE Inv
  OBVIOUS
<1>1. StoresTypeOK
  BY NoDocType DEF Init, StoresInit, StoresTypeOK
<1>2. DocsOK
  BY DEF Init, StoresInit, DocsOK, DocOK, NoDoc
<1>3. JobsOK
  BY FreeSlotType DEF Init, ArqInit, JobsOK, JobOK
<1>4. NewReq \in Req /\ NewReq.pc = "new"
  BY DEF NewReq, Req
<1>5. ReqsOK
  BY <1>4 DEF Init, ApiInit, ReqsOK, ReqOK
<1> QED
  BY <1>1, <1>2, <1>3, <1>5
     DEF Init, StoresInit, ArqInit, PointsOK, Inv

LEMMA NextInv == Inv /\ [Next]_vars => Inv' /\ Evolves(docs, docs')
<1> SUFFICES ASSUME Inv, [Next]_vars PROVE Inv' /\ Evolves(docs, docs')
  OBVIOUS
<1>1. ASSUME NEW r \in Reqs, RequestStep(r) PROVE Inv' /\ Evolves(docs, docs')
  BY <1>1, UploadKeepsInv, DeleteRouteKeepsInv, ReprocessKeepsInv
     DEF RequestStep
<1>2. ASSUME NEW r \in Reqs, ReceiveRequest(r)
      PROVE  Inv' /\ Evolves(docs, docs')
  BY <1>2, UploadKeepsInv, ReceiveKeepsInv DEF ReceiveRequest
<1>3. ASSUME NEW r \in Reqs, AbortRequest(r) PROVE Inv' /\ Evolves(docs, docs')
  BY <1>3, AbortKeepsInv
<1>4. ASSUME NEW j \in JobIds, JobStep(j) PROVE Inv' /\ Evolves(docs, docs')
  BY <1>4, ArqKeepsInv, ConverterKeepsInv, ChunkerKeepsInv, GraphKeepsInv
     DEF JobStep
<1>5. ASSUME NEW j \in JobIds, DisturbJob(j) PROVE Inv' /\ Evolves(docs, docs')
  BY <1>5, ArqKeepsInv DEF DisturbJob
<1>6. CASE UNCHANGED vars
  <2>1. Evolves(docs, docs')
    BY <1>6, SameDocsEvolve DEF vars
  <2> QED
    BY <1>6, <2>1, UnchangedParts, InvFromParts DEF vars, Inv, StoresTypeOK
<1> QED
  BY <1>1, <1>2, <1>3, <1>4, <1>5, <1>6 DEF Next

(* Every reachable state satisfies the inductive invariant. *)
THEOREM Invariance == Spec => []Inv
BY InitInv, NextInv, PTL DEF Spec

-----------------------------------------------------------------------------
(* What follows from it *)

(* Documents, stores, jobs and requests always hold what the code puts in  *)
(* them.                                                                   *)
THEOREM TypeCorrect == Spec => []TypeOK
<1>1. Inv => TypeOK
  BY DEF Inv, JobsOK, ReqsOK, TypeOK, ArqTypeOK, ApiTypeOK
<1> QED
  BY <1>1, Invariance, PTL

(* chunk_and_embed never goes past the fetch with a record that lacks      *)
(* markdown_blob_path, however often the document was reprocessed and      *)
(* however many conversions run at the same time.  The reason: the job is  *)
(* enqueued after the path was written, and nothing removes the path from  *)
(* a record that exists.                                                   *)
THEOREM SnapshotsHaveMarkdown == Spec => []SnapshotHasMarkdown
<1>1. Inv => SnapshotHasMarkdown
  BY DEF Inv, JobsOK, JobOK, PastFetch, SnapshotHasMarkdown
<1> QED
  BY <1>1, Invariance, PTL

(* No chunk carries a doc_version ahead of its document: a snapshot is     *)
(* never ahead, and versions only grow while a document exists.            *)
THEOREM PointVersionsBounded == Spec => []PointVersionBound
<1>1. Inv => PointVersionBound
  BY DEF Inv, PointsOK, PointOK, AliveIn, Live, PointVersionBound
<1> QED
  BY <1>1, Invariance, PTL

-----------------------------------------------------------------------------
(* Who writes *)

(* The steps that add to a store belong to jobs that hold a record. *)
Writes(j) == ConvertPut(j) \/ ConvertLand(j) \/ ChunkPut(j) \/ GraphPut(j)

LEMMA WritersHoldSnapshots ==
  ASSUME Inv, NEW j \in JobIds, Writes(j)
  PROVE  HoldsSnapshot(j, jobs[j].doc)
BY DEF Inv, JobsOK, JobOK, PastFetch, Writes, ConvertPut, ConvertLand,
       ChunkPut, GraphPut,
       At, HoldsSnapshot

(* Nothing is added to Qdrant, the graph or the markdown. *)
NothingAdded ==
  points' \subseteq points /\ graph' \subseteq graph /\ markdown' \subseteq markdown

LEMMA OnlyWritersAdd ==
  ASSUME [Next]_vars
  PROVE  NothingAdded \/ \E j \in JobIds : Writes(j)
<1>1. ASSUME NEW r \in Reqs, RequestStep(r) PROVE NothingAdded
  <2>1. CASE UploadDocument(r)
    BY <2>1 DEF UploadDocument, UploadLookup, UploadStore, UploadInsert,
                EnqueueConversion, stores, NothingAdded
  <2>2. CASE DeleteDocumentRoute(r)
    BY <2>2 DEF DeleteDocumentRoute, CleanGraph, DeleteDocGraphData,
                DeleteChunks, DeleteDocChunks, DeleteRawBlob,
                DeleteMarkdownBlob, DeleteRecord, NothingAdded
  <2>3. CASE ReprocessDocument(r)
    BY <2>3 DEF ReprocessDocument, CleanGraph, DeleteDocGraphData,
                ReprocessChunks, DeleteDocChunks, ReprocessBump,
                EnqueueConversion, stores, NothingAdded
  <2> QED
    BY <1>1, <2>1, <2>2, <2>3 DEF RequestStep
<1>2. ASSUME NEW r \in Reqs, ReceiveRequest(r) \/ AbortRequest(r)
      PROVE  NothingAdded
  BY <1>2 DEF ReceiveRequest, UploadReceive, ReceiveForDocument, AbortRequest,
              stores, NothingAdded
<1>3. ASSUME NEW j \in JobIds, JobStep(j) PROVE NothingAdded \/ Writes(j)
  <2>1. CASE StartJob(j) \/ GiveUpJob(j)
    BY <2>1 DEF StartJob, GiveUpJob, stores, NothingAdded
  <2>2. CASE ConvertDocument(j)
    BY <2>2 DEF ConvertDocument, ConvertMark, ConvertFetch, ConvertGet,
                ConvertFinish, ConvertEnqueue, ConvertFail, stores,
                NothingAdded, Writes
  <2>3. CASE ChunkAndEmbed(j)
    BY <2>3 DEF ChunkAndEmbed, ChunkMark, ChunkFetch, ChunkGet, ChunkEmpty,
                ChunkClear, DeleteDocChunks, ChunkFinish, ChunkEnqueue,
                ChunkFail, stores, NothingAdded, Writes
  <2>4. CASE BuildGraph(j)
    BY <2>4 DEF BuildGraph, GraphFetch, GraphMark, GraphChunks, GraphEmpty,
                GraphClear, DeleteDocGraphData, GraphFinish, GraphFail, stores,
                NothingAdded, Writes
  <2> QED
    BY <1>3, <2>1, <2>2, <2>3, <2>4 DEF JobStep
<1>4. ASSUME NEW j \in JobIds, DisturbJob(j) PROVE NothingAdded
  BY <1>4 DEF DisturbJob, CrashJob, AbandonJob, ErrorInJob, stores, NothingAdded
<1>5. CASE UNCHANGED vars
  BY <1>5 DEF vars, NothingAdded
<1> QED
  BY <1>1, <1>2, <1>3, <1>4, <1>5 DEF Next

(* What a writer adds is about the document of its job. *)
LEMMA WritersAddToTheirDocument ==
  ASSUME NEW j \in JobIds, Writes(j), NEW d \in DocIds, d # jobs[j].doc
  PROVE  /\ PointsOf(d)' \subseteq PointsOf(d)
         /\ GraphOf(d)' \subseteq GraphOf(d)
         /\ d \in markdown' => d \in markdown
BY DEF Writes, ConvertPut, ConvertLand, ChunkPut, GraphPut, PointsOf, GraphOf

(* Deletion is final, and a deleted document gains chunks, references or   *)
(* markdown only from a job that had read its record before.               *)
THEOREM DeletedDocumentsGainNothing == Spec => DeletedGainsNothing
<1> DEFINE Quiescent(d) ==
             docs[d].state = "deleted" =>
               /\ docs'[d] = docs[d]
               /\ (\A j \in JobIds : ~HoldsSnapshot(j, d)) =>
                    /\ PointsOf(d)' \subseteq PointsOf(d)
                    /\ GraphOf(d)' \subseteq GraphOf(d)
                    /\ d \in markdown' => d \in markdown
<1>1. ASSUME Inv, [Next]_vars, NEW d \in DocIds PROVE Quiescent(d)
  <2>1. docs[d].state = "deleted" => docs'[d] = docs[d]
    BY <1>1, NextInv DEF Evolves
  <2>2. CASE NothingAdded
    BY <2>1, <2>2 DEF NothingAdded, PointsOf, GraphOf
  <2>3. ASSUME NEW j \in JobIds, Writes(j), \A i \in JobIds : ~HoldsSnapshot(i, d)
        PROVE  /\ PointsOf(d)' \subseteq PointsOf(d)
               /\ GraphOf(d)' \subseteq GraphOf(d)
               /\ d \in markdown' => d \in markdown
    BY <1>1, <2>3, WritersHoldSnapshots, WritersAddToTheirDocument
  <2> QED
    BY <1>1, <2>1, <2>2, <2>3, OnlyWritersAdd
<1>2. Inv /\ [Next]_vars => [\A d \in DocIds : Quiescent(d)]_vars
  BY <1>1
<1> QED
  BY <1>2, Invariance, PTL DEF Spec, DeletedGainsNothing

-----------------------------------------------------------------------------
(***************************************************************************)
(* What the records promise about the blobs and the chunks: the markdown   *)
(* of a converted document, the raw bytes of a document that is yet to be  *)
(* converted, and the chunks of a document that is complete.  Each of the  *)
(* three holds although the record, the blob and the chunks are written by *)
(* different calls, because the calls come in one order.                   *)
(***************************************************************************)

-----------------------------------------------------------------------------
(* What one step does to the documents *)

LEMMA Typed ==
  ASSUME Inv
  PROVE  /\ docs \in [DocIds -> DocRecord]
         /\ jobs \in [JobIds -> Job]
         /\ reqs \in [Reqs -> Req]
BY DEF Inv, StoresTypeOK, JobsOK, ReqsOK

LEMMA JobHasDocument ==
  ASSUME Inv, NEW j \in JobIds, jobs[j].pc # "free"
  PROVE  jobs[j].doc \in DocIds
BY DEF Inv, JobsOK, JobOK

LEMMA UpdateWrites ==
  ASSUME Inv, NEW d \in DocIds, NEW new, UpdateDocument(d, new)
  PROVE  /\ \A e \in DocIds : e # d => docs'[e] = docs[e]
         /\ docs'[d] = IF Live(d) THEN new ELSE docs[d]
BY Typed DEF UpdateDocument, Live

(* The fields that no handler writes. *)
SameIdentity(old, new) ==
  new.state = old.state /\ new.content = old.content /\ new.version = old.version

(* The four ways in which a handler writes a record. *)
LEMMA StatusWrites ==
  ASSUME Inv, NEW d \in DocIds, NEW status, UpdateDocumentStatus(d, status)
  PROVE  /\ \A e \in DocIds : e # d => docs'[e] = docs[e]
         /\ SameIdentity(docs[d], docs'[d])
         /\ docs'[d].md = docs[d].md
         /\ docs'[d].chunkCount = docs[d].chunkCount
         /\ docs'[d].status = IF Live(d) THEN status ELSE docs[d].status
<1> DEFINE new == [docs[d] EXCEPT !.status = status]
<1>1. docs[d] \in DocRecord
  BY Typed
<1>2. /\ SameIdentity(docs[d], new)
      /\ new.md = docs[d].md
      /\ new.chunkCount = docs[d].chunkCount
      /\ new.status = status
  BY <1>1 DEF SameIdentity, DocRecord
<1>3. UpdateDocument(d, new)
  BY DEF UpdateDocumentStatus
<1> HIDE DEF new
<1> QED
  BY <1>2, <1>3, UpdateWrites DEF SameIdentity

LEMMA CompleteWrites ==
  ASSUME Inv, NEW d \in DocIds, NEW n,
         UpdateDocument(d, [docs[d] EXCEPT !.status = "complete",
                                           !.chunkCount = n])
  PROVE  /\ \A e \in DocIds : e # d => docs'[e] = docs[e]
         /\ SameIdentity(docs[d], docs'[d])
         /\ docs'[d].md = docs[d].md
         /\ Live(d) => docs'[d].chunkCount = n /\ docs'[d].status = "complete"
<1> DEFINE new == [docs[d] EXCEPT !.status = "complete", !.chunkCount = n]
<1>1. docs[d] \in DocRecord
  BY Typed
<1>2. /\ SameIdentity(docs[d], new)
      /\ new.md = docs[d].md
      /\ new.chunkCount = n
      /\ new.status = "complete"
  BY <1>1 DEF SameIdentity, DocRecord
<1>3. UpdateDocument(d, new)
  OBVIOUS
<1> HIDE DEF new
<1> QED
  BY <1>2, <1>3, UpdateWrites DEF SameIdentity

LEMMA GraphStatusWrites ==
  ASSUME Inv, NEW d \in DocIds, NEW graphStatus, WriteGraphStatus(d, graphStatus)
  PROVE  /\ \A e \in DocIds : e # d => docs'[e] = docs[e]
         /\ SameIdentity(docs[d], docs'[d])
         /\ docs'[d].md = docs[d].md
         /\ docs'[d].chunkCount = docs[d].chunkCount
         /\ docs'[d].status = IF Live(d) THEN "complete" ELSE docs[d].status
<1> DEFINE new == [docs[d] EXCEPT !.status = "complete",
                                  !.graphStatus = graphStatus]
<1>1. docs[d] \in DocRecord
  BY Typed
<1>2. /\ SameIdentity(docs[d], new)
      /\ new.md = docs[d].md
      /\ new.chunkCount = docs[d].chunkCount
      /\ new.status = "complete"
  BY <1>1 DEF SameIdentity, DocRecord
<1>3. UpdateDocument(d, new)
  BY DEF WriteGraphStatus
<1> HIDE DEF new
<1> QED
  BY <1>2, <1>3, UpdateWrites DEF SameIdentity

LEMMA ConvertedWrites ==
  ASSUME Inv, NEW d \in DocIds,
         UpdateDocument(d, [docs[d] EXCEPT !.status = "converted", !.md = TRUE])
  PROVE  /\ \A e \in DocIds : e # d => docs'[e] = docs[e]
         /\ SameIdentity(docs[d], docs'[d])
         /\ docs'[d].chunkCount = docs[d].chunkCount
         /\ docs'[d].status = IF Live(d) THEN "converted" ELSE docs[d].status
         /\ Live(d) => docs'[d].md
<1> DEFINE new == [docs[d] EXCEPT !.status = "converted", !.md = TRUE]
<1>1. docs[d] \in DocRecord
  BY Typed
<1>2. /\ SameIdentity(docs[d], new)
      /\ new.chunkCount = docs[d].chunkCount
      /\ new.status = "converted" /\ new.md
  BY <1>1 DEF SameIdentity, DocRecord
<1>3. UpdateDocument(d, new)
  OBVIOUS
<1> HIDE DEF new
<1> QED
  BY <1>2, <1>3, UpdateWrites DEF SameIdentity

(* What a job may do to a record: its path and its count come from the     *)
(* steps that have put the object and the chunks in place.                 *)
HandlerWrites(j, d) ==
  /\ SameIdentity(docs[d], docs'[d])
  /\ docs'[d].md => docs[d].md \/ (ConvertFinish(j) /\ d = jobs[j].doc)
  /\ \/ docs'[d].chunkCount = docs[d].chunkCount
     \/ (ChunkEmpty(j) \/ ChunkFinish(j)) /\ d = jobs[j].doc
  /\ docs'[d].status = "complete" =>
       \/ docs[d].status = "complete" /\ docs'[d].chunkCount = docs[d].chunkCount
       \/ (ChunkEmpty(j) \/ ChunkFinish(j)) /\ d = jobs[j].doc
       \/ /\ jobs[j].kind = "graph" /\ jobs[j].pc # "free" /\ d = jobs[j].doc
          /\ docs'[d].chunkCount = docs[d].chunkCount

LEMMA SameDocWrites ==
  ASSUME NEW j, NEW d, docs'[d] = docs[d]
  PROVE  HandlerWrites(j, d)
BY DEF HandlerWrites, SameIdentity

LEMMA HandlersWrite ==
  ASSUME Inv, NEW j \in JobIds, JobStep(j) \/ DisturbJob(j), NEW d \in DocIds
  PROVE  HandlerWrites(j, d)
<1>1. jobs[j].pc # "free" => jobs[j].doc \in DocIds
  BY JobHasDocument
<1>2. CASE docs' = docs
  BY <1>2, SameDocWrites
<1>3. CASE ConvertDocument(j)
  <2>1. CASE ConvertMark(j)
    BY <1>1, <2>1, StatusWrites, SameDocWrites
       DEF ConvertMark, At, HandlerWrites, SameIdentity
  <2>2. CASE ConvertFinish(j)
    BY <1>1, <2>2, ConvertedWrites, SameDocWrites
       DEF ConvertFinish, At, HandlerWrites, SameIdentity
  <2>3. CASE ConvertFail(j)
    BY <1>1, <2>3, StatusWrites, SameDocWrites
       DEF ConvertFail, At, HandlerWrites, SameIdentity
  <2> QED
    BY <1>2, <1>3, <2>1, <2>2, <2>3
       DEF ConvertDocument, ConvertFetch, ConvertGet, ConvertPut, ConvertLand,
           ConvertEnqueue, stores
<1>4. CASE ChunkAndEmbed(j)
  <2>1. CASE ChunkMark(j)
    BY <1>1, <2>1, StatusWrites, SameDocWrites
       DEF ChunkMark, At, HandlerWrites, SameIdentity
  <2>2. CASE ChunkEmpty(j)
    <3>1. /\ \A e \in DocIds : e # jobs[j].doc => docs'[e] = docs[e]
          /\ SameIdentity(docs[jobs[j].doc], docs'[jobs[j].doc])
          /\ docs'[jobs[j].doc].md = docs[jobs[j].doc].md
      BY <1>1, <2>2, CompleteWrites DEF ChunkEmpty, At
    <3> QED
      BY <2>2, <3>1, SameDocWrites DEF HandlerWrites
  <2>3. CASE ChunkFinish(j)
    <3>1. /\ \A e \in DocIds : e # jobs[j].doc => docs'[e] = docs[e]
          /\ SameIdentity(docs[jobs[j].doc], docs'[jobs[j].doc])
          /\ docs'[jobs[j].doc].md = docs[jobs[j].doc].md
      BY <1>1, <2>3, CompleteWrites DEF ChunkFinish, At
    <3> QED
      BY <2>3, <3>1, SameDocWrites DEF HandlerWrites
  <2>4. CASE ChunkFail(j)
    BY <1>1, <2>4, StatusWrites, SameDocWrites
       DEF ChunkFail, At, HandlerWrites, SameIdentity
  <2> QED
    BY <1>2, <1>4, <2>1, <2>2, <2>3, <2>4
       DEF ChunkAndEmbed, ChunkFetch, ChunkGet, ChunkClear, ChunkPut,
           ChunkEnqueue, stores
<1>5. CASE BuildGraph(j)
  <2>1. ASSUME NEW graphStatus, WriteGraphStatus(jobs[j].doc, graphStatus),
               jobs[j].kind = "graph", jobs[j].pc # "free"
        PROVE  HandlerWrites(j, d)
    BY <1>1, <2>1, GraphStatusWrites, SameDocWrites
       DEF HandlerWrites, SameIdentity
  <2> QED
    BY <1>2, <1>5, <2>1
       DEF BuildGraph, GraphFetch, GraphMark, GraphChunks, GraphEmpty,
           GraphClear, GraphPut, GraphFinish, GraphFail, At, stores
<1>6. CASE StartJob(j) \/ GiveUpJob(j) \/ DisturbJob(j)
  BY <1>2, <1>6
     DEF StartJob, GiveUpJob, DisturbJob, CrashJob, AbandonJob, ErrorInJob, stores
<1> QED
  BY <1>3, <1>4, <1>5, <1>6 DEF JobStep

(* A request creates a record, removes one, or begins a new version. *)
RequestWrites(r, d) ==
  \/ docs'[d] = docs[d]
  \/ /\ UploadInsert(r) /\ docs[d].state = "unused" /\ r \in Uploads
     /\ docs'[d] = [NoDoc EXCEPT !.state = "live", !.version = 1,
                                 !.content = reqs[r].content]
  \/ /\ DeleteRecord(r) /\ d = reqs[r].doc /\ r \in Deletes
     /\ docs'[d].state = "deleted" /\ docs'[d].version = 0
  \/ /\ ReprocessBump(r) /\ d = reqs[r].doc /\ r \in Reprocesses
     /\ docs'[d].state = docs[d].state /\ docs'[d].content = docs[d].content
     /\ docs'[d].md = docs[d].md /\ docs'[d].chunkCount = docs[d].chunkCount
     /\ docs'[d].status = "pending"
     /\ docs'[d].version = docs[d].version + 1

LEMMA RequestsWrite ==
  ASSUME Inv, NEW r \in Reqs,
         RequestStep(r) \/ ReceiveRequest(r) \/ AbortRequest(r),
         NEW d \in DocIds
  PROVE  RequestWrites(r, d)
<1>1. CASE docs' = docs
  BY <1>1 DEF RequestWrites
<1>2. CASE r \in Uploads /\ UploadInsert(r)
  <2> DEFINE e == CHOOSE e \in DocIds : docs[e].state = "unused"
  <2>1. e \in DocIds /\ docs[e].state = "unused"
    BY <1>2 DEF UploadInsert, FreshDocIds
  <2>2. InsertDocument(e, reqs[r].content)
    BY <1>2 DEF UploadInsert
  <2> HIDE DEF e
  <2> QED
    BY <1>2, <2>1, <2>2, Typed DEF InsertDocument, RequestWrites
<1>3. CASE r \in Deletes /\ DeleteRecord(r)
  <2> DEFINE new == [NoDoc EXCEPT !.state = "deleted"]
  <2>1. new.state = "deleted" /\ new.version = 0
    BY DEF NoDoc
  <2>2. reqs[r].doc \in DocIds
    BY <1>3 DEF DeleteRecord, Inv, ReqsOK, ReqOK
  <2>3. UpdateDocument(reqs[r].doc, new)
    BY <1>3 DEF DeleteRecord, DeleteDocument
  <2> HIDE DEF new
  <2> QED
    BY <1>3, <2>1, <2>2, <2>3, UpdateWrites DEF RequestWrites
<1>4. CASE r \in Reprocesses /\ ReprocessBump(r)
  <2> DEFINE e == reqs[r].doc
             new == [docs[e] EXCEPT !.version = @ + 1, !.status = "pending"]
  <2>1. e \in DocIds /\ docs[e] \in DocRecord
    BY <1>4, Typed DEF ReprocessBump, Inv, ReqsOK, ReqOK
  <2>2. /\ new.state = docs[e].state /\ new.content = docs[e].content
        /\ new.md = docs[e].md /\ new.chunkCount = docs[e].chunkCount
        /\ new.status = "pending" /\ new.version = docs[e].version + 1
    BY <2>1 DEF DocRecord
  <2>3. UpdateDocument(e, new)
    BY <1>4 DEF ReprocessBump, IncrementVersion
  <2> HIDE DEF new
  <2> QED
    BY <1>4, <2>1, <2>2, <2>3, UpdateWrites DEF RequestWrites
<1> QED
  BY <1>1, <1>2, <1>3, <1>4
     DEF RequestStep, ReceiveRequest, UploadDocument, DeleteDocumentRoute,
         ReprocessDocument, UploadLookup, UploadStore, EnqueueConversion,
         CleanGraph, DeleteChunks, DeleteRawBlob, DeleteMarkdownBlob,
         ReprocessChunks, UploadReceive, ReceiveForDocument, AbortRequest, stores

-----------------------------------------------------------------------------
(* What one step does to the jobs and the requests *)

(* A step of one job leaves every other job alone, unless it enqueues it. *)
LEMMA OtherJobs ==
  ASSUME Inv, NEW j \in JobIds, JobStep(j) \/ DisturbJob(j),
         NEW i \in JobIds, i # j
  PROVE  \/ jobs'[i] = jobs[i]
         \/ ConvertEnqueue(j) /\ jobs'[i] = Queued("chunk", jobs[j].doc)
         \/ ChunkEnqueue(j) /\ jobs'[i] = Queued("graph", jobs[j].doc)
<1>1. jobs \in [JobIds -> Job]
  BY Typed
<1>2. ASSUME NEW kind, EnqueueNext(j, kind)
      PROVE  jobs'[i] = jobs[i] \/ jobs'[i] = Queued(kind, jobs[j].doc)
  <2> DEFINE next == Queued(kind, jobs[j].doc)
  <2>1. ASSUME NEW mine, jobs' = [jobs EXCEPT ![j] = mine, ![FreeJob] = next]
        PROVE  jobs'[i] = jobs[i] \/ jobs'[i] = next
    BY <1>1, <2>1
  <2> HIDE DEF next
  <2> QED
    BY <1>2, <2>1 DEF EnqueueNext, next
<1>3. CASE ConvertEnqueue(j) \/ ChunkEnqueue(j)
  BY <1>2, <1>3 DEF ConvertEnqueue, ChunkEnqueue
<1>4. CASE JobStep(j) /\ ~ConvertEnqueue(j) /\ ~ChunkEnqueue(j)
  <2>1. CASE StartJob(j) \/ GiveUpJob(j)
    BY <1>1, <2>1 DEF StartJob, GiveUpJob, Become
  <2>2. CASE ConvertDocument(j)
    BY <1>1, <1>4, <2>2
       DEF ConvertDocument, ConvertMark, ConvertFetch, ConvertGet, ConvertPut, ConvertLand,
           ConvertFinish, ConvertFail, Goto, FetchDocument, Return, Become
  <2>3. CASE ChunkAndEmbed(j)
    BY <1>1, <1>4, <2>3
       DEF ChunkAndEmbed, ChunkMark, ChunkFetch, ChunkGet, ChunkEmpty,
           ChunkClear, ChunkPut, ChunkFinish, ChunkFail, Goto, FetchDocument,
           Return, Become
  <2>4. CASE BuildGraph(j)
    BY <1>1, <2>4
       DEF BuildGraph, GraphFetch, GraphMark, GraphChunks, GraphEmpty,
           GraphClear, GraphPut, GraphFinish, GraphFail, Goto, FetchDocument,
           Return, Become
  <2> QED
    BY <1>4, <2>1, <2>2, <2>3, <2>4 DEF JobStep
<1>5. CASE DisturbJob(j)
  BY <1>1, <1>5 DEF DisturbJob, CrashJob, AbandonJob, ErrorInJob, Goto, Become
<1> QED
  BY <1>3, <1>4, <1>5

LEMMA RedeliveredFields ==
  ASSUME NEW job \in Job
  PROVE  /\ Redelivered(job).pc = "queued"
         /\ Redelivered(job).kind = job.kind
         /\ Redelivered(job).doc = job.doc
         /\ Redelivered(job).tries = job.tries
BY DEF Redelivered, Job

LEMMA GotoFields ==
  ASSUME Inv, NEW j \in JobIds, NEW pc, Goto(j, pc)
  PROVE  /\ jobs'[j].pc = pc
         /\ jobs'[j].kind = jobs[j].kind
         /\ jobs'[j].doc = jobs[j].doc
         /\ jobs'[j].tries = jobs[j].tries
         /\ jobs'[j].snap = jobs[j].snap
         /\ jobs'[j].batch = jobs[j].batch
BY Typed DEF Goto, Job

LEMMA FetchFields ==
  ASSUME Inv, NEW j \in JobIds, NEW next, FetchDocument(j, next)
  PROVE  /\ jobs'[j].kind = jobs[j].kind
         /\ jobs'[j].doc = jobs[j].doc
         /\ jobs'[j].tries = jobs[j].tries
         /\ \/ jobs'[j].pc = "fail"
            \/ /\ jobs'[j].pc = next
               /\ Live(jobs[j].doc)
               /\ jobs'[j].snap = docs[jobs[j].doc]
BY Typed DEF FetchDocument, Job

LEMMA ReturnFields ==
  ASSUME Inv, NEW j \in JobIds, Return(j)
  PROVE  jobs'[j] = FreeSlot \/ jobs'[j] = Redelivered(jobs[j])
BY Typed DEF Return, Become

LEMMA EnqueueNextFields ==
  ASSUME Inv, NEW j \in JobIds, NEW kind, jobs[j].pc # "free",
         EnqueueNext(j, kind)
  PROVE  \/ jobs'[j] = FreeSlot
         \/ jobs'[j] = Redelivered(jobs[j])
         \/ /\ jobs'[j].pc = "fail"
            /\ jobs'[j].kind = jobs[j].kind
            /\ jobs'[j].doc = jobs[j].doc
            /\ jobs'[j].tries = jobs[j].tries
<1> DEFINE next == Queued(kind, jobs[j].doc)
           failed == [jobs[j] EXCEPT !.pc = "fail"]
<1>1. FreeJob \in JobIds /\ FreeJob # j
  BY FreeJobIsFree DEF EnqueueNext
<1>2. ASSUME NEW mine, jobs' = [jobs EXCEPT ![j] = mine, ![FreeJob] = next]
      PROVE  jobs'[j] = mine
  BY <1>1, <1>2, Typed
<1>3. /\ failed.pc = "fail"
      /\ failed.kind = jobs[j].kind
      /\ failed.doc = jobs[j].doc
      /\ failed.tries = jobs[j].tries
  BY Typed DEF Job
<1>4. \/ jobs' = [jobs EXCEPT ![j] = FreeSlot, ![FreeJob] = next]
      \/ jobs' = [jobs EXCEPT ![j] = Redelivered(jobs[j]), ![FreeJob] = next]
      \/ jobs' = [jobs EXCEPT ![j] = failed, ![FreeJob] = next]
  BY DEF EnqueueNext
<1> HIDE DEF next, failed
<1> QED
  BY <1>2, <1>3, <1>4

LEMMA StartFields ==
  ASSUME Inv, NEW j \in JobIds, StartJob(j)
  PROVE  /\ jobs'[j].pc = FirstStage(jobs[j].kind)
         /\ jobs'[j].kind = jobs[j].kind
         /\ jobs'[j].doc = jobs[j].doc
         /\ jobs'[j].tries = jobs[j].tries + 1
BY Typed DEF StartJob, Job

(* As long as a job is not over, it is the same job for the same document. *)
LEMMA OwnJob ==
  ASSUME Inv, NEW j \in JobIds, JobStep(j) \/ DisturbJob(j)
  PROVE  \/ jobs'[j] = FreeSlot
         \/ jobs'[j].kind = jobs[j].kind /\ jobs'[j].doc = jobs[j].doc
<1>1. jobs[j] \in Job
  BY Typed
<1>2. CASE StartJob(j) \/ GiveUpJob(j)
  BY <1>2, StartFields, Typed DEF GiveUpJob, Become
<1>3. CASE ConvertDocument(j)
  <2>1. CASE ConvertLand(j)
    BY <2>1, Typed DEF ConvertLand, Become
  <2> QED
    BY <1>1, <1>3, <2>1, GotoFields, FetchFields, ReturnFields,
       EnqueueNextFields, RedeliveredFields
       DEF ConvertDocument, ConvertMark, ConvertFetch, ConvertGet, ConvertPut,
           ConvertFinish, ConvertEnqueue, ConvertFail, At
<1>4. CASE ChunkAndEmbed(j)
  <2>1. CASE ChunkClear(j) \/ ChunkPut(j)
    BY <1>1, <2>1, GotoFields, Typed DEF ChunkClear, ChunkPut, Job
  <2> QED
    BY <1>1, <1>4, <2>1, GotoFields, FetchFields, ReturnFields,
       EnqueueNextFields, RedeliveredFields
       DEF ChunkAndEmbed, ChunkMark, ChunkFetch, ChunkGet, ChunkEmpty,
           ChunkFinish, ChunkEnqueue, ChunkFail, At
<1>5. CASE BuildGraph(j)
  BY <1>1, <1>5, GotoFields, FetchFields, ReturnFields, RedeliveredFields
     DEF BuildGraph, GraphFetch, GraphMark, GraphChunks, GraphEmpty,
         GraphClear, GraphPut, GraphFinish, GraphFail, At
<1>6. CASE DisturbJob(j)
  BY <1>1, <1>6, GotoFields, RedeliveredFields, Typed
     DEF DisturbJob, CrashJob, AbandonJob, ErrorInJob, Become
<1> QED
  BY <1>2, <1>3, <1>4, <1>5, <1>6 DEF JobStep

LEMMA RequestsAndJobs ==
  ASSUME Inv, NEW r \in Reqs,
         RequestStep(r) \/ ReceiveRequest(r) \/ AbortRequest(r),
         NEW i \in JobIds
  PROVE  \/ jobs'[i] = jobs[i]
         \/ EnqueueConversion(r) /\ jobs'[i] = Queued("convert", reqs[r].doc)
<1>1. jobs \in [JobIds -> Job]
  BY Typed
<1>2. CASE EnqueueConversion(r)
  BY <1>1, <1>2 DEF EnqueueConversion, EnqueueJob
<1> QED
  BY <1>2
     DEF RequestStep, ReceiveRequest, UploadDocument, DeleteDocumentRoute,
         ReprocessDocument, UploadLookup, UploadStore, UploadInsert,
         CleanGraph, DeleteChunks, DeleteRawBlob, DeleteMarkdownBlob,
         DeleteRecord, ReprocessChunks, ReprocessBump, UploadReceive,
         ReceiveForDocument, AbortRequest, arqVars

LEMMA OtherRequests ==
  ASSUME Inv, NEW s \in Reqs,
         RequestStep(s) \/ ReceiveRequest(s) \/ AbortRequest(s),
         NEW r \in Reqs, r # s
  PROVE  reqs'[r] = reqs[r]
BY Typed
   DEF RequestStep, ReceiveRequest, UploadDocument, DeleteDocumentRoute,
       ReprocessDocument, UploadLookup, UploadStore, UploadInsert,
       EnqueueConversion, CleanGraph, DeleteChunks, DeleteRawBlob,
       DeleteMarkdownBlob, DeleteRecord, ReprocessChunks, ReprocessBump,
       UploadReceive, ReceiveForDocument, AbortRequest, Proceed

(* A delete request, once received, goes on deleting the document it was   *)
(* received for until the record is gone.                                  *)
LEMMA DeletionGoesOn ==
  ASSUME Inv, [Next]_vars, NEW r \in Deletes
  PROVE  \/ reqs'[r] = reqs[r]
         \/ reqs[r].pc = "new" /\ reqs'[r].pc # "new"
         \/ /\ reqs[r].pc # "new" /\ reqs'[r].pc # "new"
            /\ reqs'[r].doc = reqs[r].doc
            /\ reqs'[r].content = reqs[r].content
            /\ reqs'[r].pc = "done" => DeleteRecord(r)
<1>1. r \in Reqs /\ r \notin Uploads /\ r \notin Reprocesses
  BY ApiAssumption DEF Reqs
<1>2. ASSUME NEW s \in Reqs,
             RequestStep(s) \/ ReceiveRequest(s) \/ AbortRequest(s), s # r
      PROVE  reqs'[r] = reqs[r]
  BY <1>1, <1>2, OtherRequests
<1>3. CASE RequestStep(r) \/ AbortRequest(r)
  <2>1. ASSUME NEW pc, Proceed(r, pc)
        PROVE  /\ reqs'[r].pc = pc
               /\ reqs'[r].doc = reqs[r].doc
               /\ reqs'[r].content = reqs[r].content
    BY <1>1, <2>1, Typed DEF Proceed, Req
  <2>2. CASE RequestStep(r)
    BY <1>1, <2>1, <2>2
       DEF RequestStep, DeleteDocumentRoute, CleanGraph, DeleteChunks,
           DeleteRawBlob, DeleteMarkdownBlob, DeleteRecord
  <2>3. CASE AbortRequest(r)
    BY <2>1, <2>3 DEF AbortRequest, InProgress
  <2> QED
    BY <1>3, <2>2, <2>3
<1>4. CASE ReceiveRequest(r)
  BY <1>1, <1>4, Typed
     DEF ReceiveRequest, ReceiveForDocument, FirstCleanup
<1>5. ASSUME NEW j \in JobIds, JobStep(j) \/ DisturbJob(j)
      PROVE  reqs'[r] = reqs[r]
  BY <1>5 DEF JobStep, DisturbJob
<1> QED
  BY <1>2, <1>3, <1>4, <1>5 DEF Next, vars

-----------------------------------------------------------------------------
(* The markdown of a document whose record has the path *)

Deleting(d) == \E r \in Deletes : DeletionBegun(r, d)

HasMarkdown(d) == d \in markdown \/ Deleting(d)

(* The record gets the path in the step after the upload of the object; in *)
(* between, the job knows that the object is there.                        *)
MarkdownInv ==
  /\ Inv
  /\ \A r \in Deletes : reqs[r].pc = "new" => reqs[r].doc = None
  /\ \A d \in DocIds : Live(d) /\ docs[d].md => HasMarkdown(d)
  /\ \A j \in JobIds :
       At(j, "convert", "finish") /\ Live(jobs[j].doc) => HasMarkdown(jobs[j].doc)

(* A deletion that has begun lasts until the record is gone. *)
LEMMA DeletionLasts ==
  ASSUME MarkdownInv, [Next]_vars, NEW d \in DocIds, Deleting(d), Live(d)'
  PROVE  Deleting(d)'
<1>1. PICK r \in Deletes : DeletionBegun(r, d)
  BY DEF Deleting
<1>2. reqs[r].doc = d /\ reqs[r].pc # "done" /\ reqs[r].pc # "new"
  BY <1>1, StoresAssumption DEF DeletionBegun, MarkdownInv
<1>3. CASE reqs'[r].pc = "done"
  <2>1. DeleteRecord(r) /\ r \in Reqs
    BY <1>2, <1>3, DeletionGoesOn DEF MarkdownInv, Reqs
  <2>2. DeleteDocument(d)
    BY <1>2, <2>1 DEF DeleteRecord
  <2>3. ~Live(d)'
    BY <2>2, UpdateWrites DEF DeleteDocument, MarkdownInv, Live, NoDoc
  <2> QED
    BY <2>3
<1>4. CASE reqs'[r].pc # "done"
  BY <1>1, <1>2, <1>4, DeletionGoesOn
     DEF DeletionBegun, Deleting, MarkdownInv
<1> QED
  BY <1>3, <1>4

(* Only a deletion that has begun removes the object. *)
LEMMA MarkdownLasts ==
  ASSUME MarkdownInv, [Next]_vars, NEW d \in markdown
  PROVE  d \in markdown' \/ \E r \in Deletes : DeletionBegun(r, d)'
<1>1. ASSUME NEW r \in Reqs, RequestStep(r) \/ ReceiveRequest(r) \/ AbortRequest(r)
      PROVE  \/ markdown \subseteq markdown'
             \/ r \in Deletes /\ DeleteMarkdownBlob(r)
  BY <1>1
     DEF RequestStep, ReceiveRequest, UploadDocument, DeleteDocumentRoute,
         ReprocessDocument, UploadLookup, UploadStore, UploadInsert,
         EnqueueConversion, CleanGraph, DeleteChunks, DeleteRawBlob,
         DeleteRecord, ReprocessChunks, ReprocessBump, UploadReceive,
         ReceiveForDocument, AbortRequest, stores
<1>2. ASSUME NEW r \in Deletes, DeleteMarkdownBlob(r)
      PROVE  d \in markdown' \/ DeletionBegun(r, d)'
  <2>1. /\ reqs'[r].pc = "record"
        /\ reqs'[r].doc = reqs[r].doc
    BY <1>2, Typed DEF DeleteMarkdownBlob, Proceed, MarkdownInv, Req, Reqs
  <2> QED
    BY <1>2, <2>1 DEF DeleteMarkdownBlob, DeletionBegun
<1>3. ASSUME NEW j \in JobIds, JobStep(j) \/ DisturbJob(j)
      PROVE  markdown \subseteq markdown'
  BY <1>3
     DEF JobStep, StartJob, GiveUpJob, ConvertDocument, ConvertMark,
         ConvertFetch, ConvertGet, ConvertPut, ConvertLand,
         ConvertFinish, ConvertEnqueue,
         ConvertFail, ChunkAndEmbed, ChunkMark, ChunkFetch, ChunkGet,
         ChunkEmpty, ChunkClear, ChunkPut, ChunkFinish, ChunkEnqueue,
         ChunkFail, BuildGraph, GraphFetch, GraphMark, GraphChunks, GraphEmpty,
         GraphClear, GraphPut, GraphFinish, GraphFail, DisturbJob, CrashJob,
         AbandonJob, ErrorInJob, stores
<1> QED
  BY <1>1, <1>2, <1>3 DEF Next, vars

LEMMA HasMarkdownLasts ==
  ASSUME MarkdownInv, [Next]_vars, NEW d \in DocIds, HasMarkdown(d), Live(d)'
  PROVE  HasMarkdown(d)'
BY DeletionLasts, MarkdownLasts DEF HasMarkdown, Deleting

(* A conversion is at its last stage because it was there before, or has   *)
(* just uploaded the markdown.                                             *)
LEMMA FinishReached ==
  ASSUME Inv, [Next]_vars, NEW j \in JobIds, At(j, "convert", "finish")'
  PROVE  /\ jobs'[j].doc = jobs[j].doc
         /\ jobs[j].pc # "free"
         /\ At(j, "convert", "finish") \/ ConvertPut(j)
<1>1. jobs \in [JobIds -> Job]
  BY Typed
<1>2. ASSUME NEW kind, NEW d, jobs'[j] = Queued(kind, d) PROVE FALSE
  BY <1>2 DEF Queued, FreeSlot, At
<1>3. CASE jobs'[j] = jobs[j]
  BY <1>3 DEF At
<1>4. ASSUME NEW r \in Reqs, RequestStep(r) \/ ReceiveRequest(r) \/ AbortRequest(r)
      PROVE  jobs'[j] = jobs[j]
  BY <1>2, <1>4, RequestsAndJobs
<1>5. ASSUME NEW i \in JobIds, i # j, JobStep(i) \/ DisturbJob(i)
      PROVE  jobs'[j] = jobs[j]
  BY <1>2, <1>5, OtherJobs
<1>6. CASE JobStep(j) \/ DisturbJob(j)
  <2>1. jobs[j] \in Job /\ jobs'[j] # FreeSlot /\ jobs'[j] # Redelivered(jobs[j])
    BY <1>1, RedeliveredFields DEF FreeSlot, At
  <2>2. jobs[j].kind = "convert" /\ jobs'[j].doc = jobs[j].doc
    BY <1>6, <2>1, OwnJob DEF At
  <2>3. jobs'[j].pc = "finish"
    BY DEF At
  <2>4. CASE ConvertDocument(j)
    <3>1. ~ConvertLand(j)
      BY <2>1, Typed DEF ConvertLand, Become
    <3> QED
      BY <2>1, <2>2, <2>3, <2>4, <3>1, GotoFields, FetchFields, ReturnFields,
         EnqueueNextFields
         DEF ConvertDocument, ConvertMark, ConvertFetch, ConvertGet, ConvertPut,
             ConvertFinish, ConvertEnqueue, ConvertFail, At
  <2>5. ~ChunkAndEmbed(j) /\ ~BuildGraph(j)
    BY <2>2
       DEF ChunkAndEmbed, ChunkMark, ChunkFetch, ChunkGet, ChunkEmpty,
           ChunkClear, ChunkPut, ChunkFinish, ChunkEnqueue, ChunkFail,
           BuildGraph, GraphFetch, GraphMark, GraphChunks, GraphEmpty,
           GraphClear, GraphPut, GraphFinish, GraphFail, At
  <2>6. ~StartJob(j) /\ ~GiveUpJob(j) /\ ~DisturbJob(j)
    BY <1>1, <2>1, <2>3, StartFields, GotoFields
       DEF FirstStage, GiveUpJob, DisturbJob, CrashJob, AbandonJob, ErrorInJob,
           Become
  <2> QED
    BY <1>6, <2>2, <2>4, <2>5, <2>6 DEF JobStep, ConvertPut, ConvertLand, At
<1> QED
  BY <1>3, <1>4, <1>5, <1>6 DEF Next, vars

(* The record has the path because it had it, or because a conversion      *)
(* that has uploaded the markdown has just written it.                     *)
LEMMA PathWritten ==
  ASSUME Inv, [Next]_vars, NEW d \in DocIds, Live(d)', docs'[d].md
  PROVE  Live(d) /\ (docs[d].md \/ \E j \in JobIds : At(j, "convert", "finish") /\ jobs[j].doc = d)
<1>1. ASSUME NEW r \in Reqs, RequestStep(r) \/ ReceiveRequest(r) \/ AbortRequest(r)
      PROVE  Live(d) /\ docs[d].md
  <2>1. RequestWrites(r, d)
    BY <1>1, RequestsWrite
  <2> QED
    BY <2>1 DEF RequestWrites, Live, NoDoc
<1>2. ASSUME NEW j \in JobIds, JobStep(j) \/ DisturbJob(j)
      PROVE  Live(d) /\ (docs[d].md \/ (At(j, "convert", "finish") /\ jobs[j].doc = d))
  <2>1. HandlerWrites(j, d)
    BY <1>2, HandlersWrite
  <2> QED
    BY <2>1 DEF HandlerWrites, SameIdentity, Live, ConvertFinish
<1>3. CASE UNCHANGED vars
  BY <1>3 DEF vars, Live
<1> QED
  BY <1>1, <1>2, <1>3 DEF Next

LEMMA LiveBefore ==
  ASSUME Inv, [Next]_vars, NEW d \in DocIds, docs[d].state # "unused", Live(d)'
  PROVE  Live(d)
BY NextInv, Typed DEF Evolves, Live, DocRecord

LEMMA NextMarkdownInv ==
  ASSUME MarkdownInv, [Next]_vars
  PROVE  MarkdownInv'
<1>1. Inv /\ Inv'
  BY NextInv DEF MarkdownInv
<1>2. ASSUME NEW r \in Deletes, reqs'[r].pc = "new" PROVE reqs'[r].doc = None
  BY <1>1, <1>2, DeletionGoesOn DEF MarkdownInv
<1>3. ASSUME NEW d \in DocIds, Live(d)', docs'[d].md PROVE HasMarkdown(d)'
  <2>1. Live(d) /\ (docs[d].md \/ \E j \in JobIds : At(j, "convert", "finish") /\ jobs[j].doc = d)
    BY <1>1, <1>3, PathWritten
  <2>2. HasMarkdown(d)
    BY <2>1 DEF MarkdownInv
  <2> QED
    BY <1>3, <2>2, HasMarkdownLasts
<1>4. ASSUME NEW j \in JobIds, At(j, "convert", "finish")', Live(jobs[j].doc)'
      PROVE  HasMarkdown(jobs[j].doc)'
  <2>1. /\ jobs'[j].doc = jobs[j].doc
        /\ jobs[j].pc # "free"
        /\ At(j, "convert", "finish") \/ ConvertPut(j)
    BY <1>1, <1>4, FinishReached
  <2>2. PICK d \in DocIds : d = jobs[j].doc /\ docs[d].state # "unused"
    BY <1>1, <2>1 DEF Inv, JobsOK, JobOK
  <2>3. Live(d)'
    BY <1>4, <2>1, <2>2 DEF Live
  <2>4. CASE At(j, "convert", "finish")
    <3>1. HasMarkdown(d)
      BY <1>1, <2>2, <2>3, <2>4, LiveBefore DEF MarkdownInv
    <3>2. HasMarkdown(d)'
      BY <2>3, <3>1, HasMarkdownLasts
    <3> QED
      BY <2>1, <2>2, <3>2 DEF HasMarkdown, Deleting, DeletionBegun
  <2>5. CASE ConvertPut(j)
    BY <2>1, <2>5 DEF ConvertPut, ConvertLand, HasMarkdown
  <2> QED
    BY <2>1, <2>4, <2>5
<1> QED
  BY <1>1, <1>2, <1>3, <1>4 DEF MarkdownInv

LEMMA InitMarkdownInv == Init => MarkdownInv
BY InitInv
   DEF Init, StoresInit, ArqInit, ApiInit, MarkdownInv, Live, NoDoc, At,
       FreeSlot, NewReq, Reqs

(* GET /documents/{id}/markdown finds the object of every document whose   *)
(* record has the path, until a deletion of that document has begun: the   *)
(* converter uploads before it writes the path, nothing but a deletion     *)
(* removes the object, and a deletion that is cut short never ends.        *)
THEOREM MarkdownIsBacked == Spec => []MarkdownBacked
<1>1. MarkdownInv => MarkdownBacked
  BY DEF MarkdownInv, MarkdownBacked, HasMarkdown, Deleting
<1>2. MarkdownInv /\ [Next]_vars => MarkdownInv'
  BY NextMarkdownInv
<1> QED
  BY <1>1, <1>2, InitMarkdownInv, PTL DEF Spec

-----------------------------------------------------------------------------
(* The raw object a document is converted from *)

Taken(c) ==
  \E r \in Deletes : reqs[r].doc # None /\ reqs[r].content = c

HasSource(c) == c \in raw \/ Taken(c)

(* The record is inserted in the step after the upload of the object. *)
SourceInv ==
  /\ MarkdownInv
  /\ \A d \in DocIds : Live(d) => HasSource(docs[d].content)
  /\ \A r \in Uploads : reqs[r].pc = "insert" => HasSource(reqs[r].content)

LEMMA HasSourceLasts ==
  ASSUME MarkdownInv, [Next]_vars, NEW c, HasSource(c)
  PROVE  HasSource(c)'
<1>1. Inv
  BY DEF MarkdownInv
<1>2. CASE Taken(c)
  <2>1. PICK r \in Deletes : reqs[r].doc # None /\ reqs[r].content = c
    BY <1>2 DEF Taken
  <2>2. reqs'[r].doc = reqs[r].doc /\ reqs'[r].content = reqs[r].content
    BY <1>1, <2>1, DeletionGoesOn DEF MarkdownInv
  <2> QED
    BY <2>1, <2>2 DEF Taken, HasSource
<1>3. CASE c \in raw
  <2>1. ASSUME NEW r \in Reqs,
               RequestStep(r) \/ ReceiveRequest(r) \/ AbortRequest(r)
        PROVE  raw \subseteq raw' \/ (r \in Deletes /\ DeleteRawBlob(r))
    BY <2>1
       DEF RequestStep, ReceiveRequest, UploadDocument, DeleteDocumentRoute,
           ReprocessDocument, UploadLookup, UploadStore, UploadInsert,
           EnqueueConversion, CleanGraph, DeleteChunks, DeleteMarkdownBlob,
           DeleteRecord, ReprocessChunks, ReprocessBump, UploadReceive,
           ReceiveForDocument, AbortRequest, stores
  <2>2. ASSUME NEW r \in Deletes, DeleteRawBlob(r) PROVE HasSource(c)'
    <3>1. r \in Reqs /\ reqs[r].pc = "blob"
      BY <2>2 DEF DeleteRawBlob, Reqs
    <3>2. reqs[r].doc # None
      BY <1>1, <3>1, StoresAssumption DEF Inv, ReqsOK, ReqOK
    <3>3. reqs'[r].doc = reqs[r].doc /\ reqs'[r].content = reqs[r].content
      BY <1>1, <2>2, <3>1, Typed DEF DeleteRawBlob, Proceed, Req
    <3> QED
      BY <1>3, <2>2, <3>2, <3>3 DEF DeleteRawBlob, HasSource, Taken
  <2>3. ASSUME NEW j \in JobIds, JobStep(j) \/ DisturbJob(j)
        PROVE  raw' = raw
    BY <2>3
       DEF JobStep, StartJob, GiveUpJob, ConvertDocument, ConvertMark,
           ConvertFetch, ConvertGet, ConvertPut, ConvertLand,
           ConvertFinish, ConvertEnqueue,
           ConvertFail, ChunkAndEmbed, ChunkMark, ChunkFetch, ChunkGet,
           ChunkEmpty, ChunkClear, ChunkPut, ChunkFinish, ChunkEnqueue,
           ChunkFail, BuildGraph, GraphFetch, GraphMark, GraphChunks,
           GraphEmpty, GraphClear, GraphPut, GraphFinish, GraphFail,
           DisturbJob, CrashJob, AbandonJob, ErrorInJob, stores
  <2> QED
    BY <1>3, <2>1, <2>2, <2>3 DEF Next, vars, HasSource
<1> QED
  BY <1>2, <1>3 DEF HasSource

(* A document keeps the content it was inserted with. *)
LEMMA ContentOrigin ==
  ASSUME Inv, [Next]_vars, NEW d \in DocIds, Live(d)'
  PROVE  \/ Live(d) /\ docs'[d].content = docs[d].content
         \/ \E r \in Uploads :
              reqs[r].pc = "insert" /\ docs'[d].content = reqs[r].content
<1>1. ASSUME NEW r \in Reqs, RequestWrites(r, d)
      PROVE  \/ Live(d) /\ docs'[d].content = docs[d].content
             \/ /\ r \in Uploads /\ reqs[r].pc = "insert"
                /\ docs'[d].content = reqs[r].content
  BY <1>1 DEF RequestWrites, UploadInsert, Live, NoDoc
<1>2. ASSUME NEW j \in JobIds, JobStep(j) \/ DisturbJob(j)
      PROVE  Live(d) /\ docs'[d].content = docs[d].content
  BY <1>2, HandlersWrite DEF HandlerWrites, SameIdentity, Live
<1> QED
  BY <1>1, <1>2, RequestsWrite DEF Next, vars, Live

(* An upload is about to insert because it was, or has just stored the     *)
(* object.                                                                 *)
LEMMA InsertReached ==
  ASSUME Inv, [Next]_vars, NEW r \in Uploads, reqs'[r].pc = "insert"
  PROVE  /\ reqs'[r].content = reqs[r].content
         /\ reqs[r].pc = "insert" \/ UploadStore(r)
<1>1. r \in Reqs /\ r \notin Deletes /\ r \notin Reprocesses
  BY ApiAssumption DEF Reqs
<1>2. ASSUME NEW pc, Proceed(r, pc)
      PROVE  reqs'[r].pc = pc /\ reqs'[r].content = reqs[r].content
  BY <1>1, <1>2, Typed DEF Proceed, Req
<1>3. ASSUME NEW s \in Reqs, s # r,
             RequestStep(s) \/ ReceiveRequest(s) \/ AbortRequest(s)
      PROVE  reqs'[r] = reqs[r]
  BY <1>1, <1>3, OtherRequests
<1>4. ASSUME NEW j \in JobIds, JobStep(j) \/ DisturbJob(j)
      PROVE  reqs'[r] = reqs[r]
  BY <1>4 DEF JobStep, DisturbJob
<1>5. CASE RequestStep(r) \/ ReceiveRequest(r) \/ AbortRequest(r)
  <2>1. ~UploadInsert(r) /\ ~UploadReceive(r)
    BY <1>1, Typed DEF UploadInsert, UploadReceive, Req
  <2> QED
    BY <1>1, <1>2, <1>5, <2>1
       DEF RequestStep, UploadDocument, UploadLookup, UploadStore,
           EnqueueConversion, ReceiveRequest, AbortRequest
<1> QED
  BY <1>3, <1>4, <1>5 DEF Next, vars

LEMMA NextSourceInv ==
  ASSUME SourceInv, [Next]_vars
  PROVE  SourceInv'
<1>1. Inv /\ MarkdownInv /\ MarkdownInv'
  BY NextMarkdownInv DEF SourceInv, MarkdownInv
<1>2. ASSUME NEW d \in DocIds, Live(d)' PROVE HasSource(docs[d].content)'
  <2>1. HasSource(docs'[d].content)
    BY <1>1, <1>2, ContentOrigin DEF SourceInv
  <2>2. ASSUME NEW c, c = docs'[d].content, HasSource(c) PROVE HasSource(c)'
    BY <1>1, <2>2, HasSourceLasts
  <2> QED
    BY <2>1, <2>2 DEF HasSource, Taken
<1>3. ASSUME NEW r \in Uploads, reqs'[r].pc = "insert"
      PROVE  HasSource(reqs[r].content)'
  <2>1. /\ reqs'[r].content = reqs[r].content
        /\ reqs[r].pc = "insert" \/ UploadStore(r)
    BY <1>1, <1>3, InsertReached
  <2>2. CASE UploadStore(r)
    BY <2>1, <2>2 DEF UploadStore, HasSource
  <2>3. CASE reqs[r].pc = "insert"
    <3>1. HasSource(reqs[r].content)
      BY <2>3 DEF SourceInv
    <3>2. ASSUME NEW c, c = reqs[r].content, HasSource(c) PROVE HasSource(c)'
      BY <1>1, <3>2, HasSourceLasts
    <3> QED
      BY <2>1, <3>1, <3>2 DEF HasSource, Taken
  <2> QED
    BY <2>1, <2>2, <2>3
<1> QED
  BY <1>1, <1>2, <1>3 DEF SourceInv

LEMMA InitSourceInv == Init => SourceInv
BY InitMarkdownInv
   DEF Init, StoresInit, ApiInit, SourceInv, Live, NoDoc, NewReq, Reqs

(* The raw object of a document is in the store until a deletion of some   *)
(* document with the same bytes has begun, however clients behave: an      *)
(* upload stores the object before it inserts the record, and only a       *)
(* delete request removes one.                                             *)
THEOREM SourceIsBacked == Spec => []SourceBacked
<1>1. SourceInv => SourceBacked
  BY DEF SourceInv, SourceBacked, HasSource, Taken
<1>2. SourceInv /\ [Next]_vars => SourceInv'
  BY NextSourceInv
<1> QED
  BY <1>1, <1>2, InitSourceInv, PTL DEF Spec

-----------------------------------------------------------------------------
(* The raw objects that are left *)

(* The raw object of d has been deleted, and the record is to follow. *)
Giving(d) ==
  \E r \in Deletes : reqs[r].doc = d /\ reqs[r].pc \in {"markdown", "record"}

(* A document of these bytes is not being deleted, or not that far, or an  *)
(* upload of them has stored the object.                                   *)
Owned(c) ==
  \/ \E d \in DocIds : Live(d) /\ docs[d].content = c /\ ~Giving(d)
  \/ \E r \in Uploads : reqs[r].pc = "insert" /\ reqs[r].content = c

(* A delete request has the hash of its document until the raw object is   *)
(* deleted.                                                                *)
OwnerInv ==
  /\ Inv
  /\ \A r \in Deletes :
       reqs[r].pc \in {"graph", "chunks", "blob"} /\ Live(reqs[r].doc) =>
         reqs[r].content = docs[reqs[r].doc].content
  /\ disturbances = 0 => \A c \in raw : Owned(c)

LEMMA DisturbancesGrow ==
  ASSUME Inv, [Next]_vars, disturbances' = 0
  PROVE  disturbances = 0
<1>1. disturbances \in Nat
  BY DEF Inv
<1>2. ASSUME NEW what, Disturb(what) PROVE disturbances' # 0
  BY <1>1, <1>2 DEF Disturb
<1>3. ASSUME NEW r \in Reqs, RequestStep(r) \/ ReceiveRequest(r) \/ AbortRequest(r)
      PROVE  disturbances' = disturbances
  BY <1>2, <1>3
     DEF RequestStep, ReceiveRequest, UploadDocument, DeleteDocumentRoute,
         ReprocessDocument, UploadLookup, UploadStore, UploadInsert,
         EnqueueConversion, CleanGraph, DeleteChunks, DeleteRawBlob,
         DeleteMarkdownBlob, DeleteRecord, ReprocessChunks, ReprocessBump,
         UploadReceive, ReceiveForDocument, AbortRequest, arqVars
<1>4. ASSUME NEW j \in JobIds, JobStep(j) \/ DisturbJob(j)
      PROVE  disturbances' = disturbances
  <2>1. Return(j) => disturbances' = disturbances
    BY <1>2 DEF Return
  <2>2. \A kind : EnqueueNext(j, kind) => disturbances' = disturbances
    BY <1>2 DEF EnqueueNext
  <2> QED
    BY <1>2, <1>4, <2>1, <2>2
       DEF JobStep, StartJob, GiveUpJob, ConvertDocument, ConvertMark,
           ConvertFetch, ConvertGet, ConvertPut, ConvertLand,
           ConvertFinish, ConvertEnqueue,
           ConvertFail, ChunkAndEmbed, ChunkMark, ChunkFetch, ChunkGet,
           ChunkEmpty, ChunkClear, ChunkPut, ChunkFinish, ChunkEnqueue,
           ChunkFail, BuildGraph, GraphFetch, GraphMark, GraphChunks,
           GraphEmpty, GraphClear, GraphPut, GraphFinish, GraphFail,
           DisturbJob, CrashJob, AbandonJob, ErrorInJob
<1> QED
  BY <1>3, <1>4 DEF Next, vars

(* The stages of a delete request come in their order. *)
LEMMA DeletionStages ==
  ASSUME Inv, NEW r \in Deletes,
         RequestStep(r) \/ ReceiveRequest(r) \/ AbortRequest(r)
  PROVE  /\ reqs'[r].pc \in {"markdown", "record"} =>
              /\ reqs'[r].doc = reqs[r].doc
              /\ reqs[r].pc = "markdown" \/ DeleteRawBlob(r)
         /\ reqs'[r].pc \in {"graph", "chunks", "blob"} =>
              /\ docs' = docs
              /\ \/ /\ reqs[r].pc \in {"graph", "chunks"}
                    /\ reqs'[r].doc = reqs[r].doc
                    /\ reqs'[r].content = reqs[r].content
                 \/ /\ reqs'[r].doc \in DocIds
                    /\ reqs'[r].content = docs[reqs'[r].doc].content
<1>1. r \in Reqs /\ r \notin Uploads /\ r \notin Reprocesses
  BY ApiAssumption DEF Reqs
<1>2. ASSUME NEW pc, Proceed(r, pc)
      PROVE  /\ reqs'[r].pc = pc /\ reqs'[r].doc = reqs[r].doc
             /\ reqs'[r].content = reqs[r].content
  BY <1>1, <1>2, Typed DEF Proceed, Req
<1>3. CASE RequestStep(r)
  BY <1>1, <1>2, <1>3
     DEF RequestStep, DeleteDocumentRoute, CleanGraph, DeleteChunks,
         DeleteRawBlob, DeleteMarkdownBlob, DeleteRecord, arqVars
<1>4. CASE AbortRequest(r)
  BY <1>2, <1>4 DEF AbortRequest
<1>5. CASE ReceiveRequest(r)
  <2>1. PICK d \in DocIds :
          reqs' = [reqs EXCEPT ![r] =
                     [pc |-> FirstCleanup, doc |-> d,
                      content |-> docs[d].content, md |-> docs[d].md]]
    BY <1>1, <1>5 DEF ReceiveRequest, ReceiveForDocument
  <2>2. /\ reqs'[r].pc \in {"graph", "chunks"} /\ reqs'[r].doc = d
        /\ reqs'[r].content = docs[d].content
    BY <1>1, <2>1, Typed DEF FirstCleanup
  <2> QED
    BY <1>1, <1>5, <2>2 DEF ReceiveRequest, ReceiveForDocument, stores
<1> QED
  BY <1>3, <1>4, <1>5

(* What a request does to a document there is. *)
LEMMA RequestsAndContents ==
  ASSUME Inv, NEW r \in Reqs,
         RequestStep(r) \/ ReceiveRequest(r) \/ AbortRequest(r),
         NEW d \in DocIds, Live(d)
  PROVE  /\ docs'[d].state = "live" => docs'[d].content = docs[d].content
         /\ docs'[d].state # "live" =>
              r \in Deletes /\ DeleteRecord(r) /\ reqs[r].doc = d
<1>1. RequestWrites(r, d) /\ docs[d].state = "live"
  BY RequestsWrite DEF Live
<1>2. docs[d].state # "unused"
  BY <1>1
<1>3. \/ docs'[d].state = "live" /\ docs'[d].content = docs[d].content
      \/ DeleteRecord(r) /\ d = reqs[r].doc /\ r \in Deletes /\ docs'[d].state = "deleted"
  BY <1>1, <1>2 DEF RequestWrites
<1> QED
  BY <1>3

LEMMA OwnedLasts ==
  ASSUME OwnerInv, [Next]_vars, disturbances' = 0, NEW c \in raw, c \in raw'
  PROVE  Owned(c)'
<1>1. Inv /\ disturbances = 0 /\ Owned(c)
  BY DisturbancesGrow DEF OwnerInv
<1>2. ASSUME NEW what PROVE ~Disturb(what)
  BY <1>1 DEF Disturb
<1>3. ASSUME NEW j \in JobIds, JobStep(j) \/ DisturbJob(j)
      PROVE  Owned(c)'
  <2>1. reqs' = reqs
    BY <1>3 DEF JobStep, DisturbJob
  <2>2. \A d \in DocIds : SameIdentity(docs[d], docs'[d])
    BY <1>1, <1>3, HandlersWrite DEF HandlerWrites
  <2> QED
    BY <1>1, <2>1, <2>2 DEF Owned, Giving, Live, SameIdentity
<1>4. ASSUME NEW r \in Reqs, RequestStep(r) \/ ReceiveRequest(r) \/ AbortRequest(r)
      PROVE  Owned(c)'
  <2>1. \A s \in Reqs : s # r => reqs'[s] = reqs[s]
    BY <1>1, <1>4, OtherRequests
  <2>2. ASSUME NEW d \in DocIds, Live(d), docs[d].content = c, ~Giving(d)
        PROVE  Owned(c)'
    <3>1. ~(r \in Deletes /\ DeleteRecord(r) /\ reqs[r].doc = d)
      BY <2>2 DEF DeleteRecord, Giving
    <3>2. docs'[d].state = "live" /\ docs'[d].content = c
      BY <1>1, <1>4, <2>2, <3>1, RequestsAndContents
    <3>3. ASSUME NEW s \in Deletes, reqs'[s].doc = d,
                 reqs'[s].pc \in {"markdown", "record"}
          PROVE  FALSE
      <4>1. s \in Reqs
        BY DEF Reqs
      <4>2. s = r
        BY <2>1, <2>2, <3>3, <4>1 DEF Giving
      <4>3. reqs[r].doc = d /\ DeleteRawBlob(r)
        BY <1>1, <1>4, <2>2, <3>3, <4>2, DeletionStages DEF Giving
      <4>4. reqs[r].content = c
        BY <2>2, <3>3, <4>2, <4>3 DEF DeleteRawBlob, OwnerInv
      <4> QED
        BY <1>2, <4>3, <4>4 DEF DeleteRawBlob
    <3> QED
      BY <3>2, <3>3 DEF Owned, Giving, Live
  <2>3. ASSUME NEW s \in Uploads, reqs[s].pc = "insert", reqs[s].content = c
        PROVE  Owned(c)'
    <3>1. s \in Reqs /\ s \notin Deletes /\ s \notin Reprocesses
      BY ApiAssumption DEF Reqs
    <3>2. CASE s # r
      BY <2>1, <2>3, <3>1, <3>2 DEF Owned
    <3>3. CASE s = r
      <4> DEFINE e == CHOOSE e \in DocIds : docs[e].state = "unused"
                 new == [NoDoc EXCEPT !.state = "live", !.version = 1,
                                      !.content = reqs[r].content]
      <4>1. UploadInsert(r)
        BY <1>2, <1>4, <2>3, <3>1, <3>3
           DEF RequestStep, UploadDocument, UploadLookup, UploadStore,
               EnqueueConversion, ReceiveRequest, UploadReceive, AbortRequest
      <4>2. e \in DocIds /\ docs[e].state = "unused"
        BY <4>1 DEF UploadInsert, FreshDocIds
      <4>3. docs' = [docs EXCEPT ![e] = new]
        BY <4>1 DEF UploadInsert, InsertDocument
      <4>4. new.state = "live" /\ new.content = c
        BY <2>3, <3>3 DEF NoDoc
      <4> HIDE DEF e, new
      <4>5. docs'[e].state = "live" /\ docs'[e].content = c
        BY <1>1, <4>2, <4>3, <4>4, Typed
      <4>6. ASSUME NEW t \in Deletes, reqs'[t].doc = e,
                   reqs'[t].pc \in {"markdown", "record"}
            PROVE  FALSE
        <5>1. t \in Reqs /\ reqs'[t] = reqs[t]
          BY <2>1, <3>1, <3>3, <4>6 DEF Reqs
        <5>2. ReqOK(docs, reqs[t])
          BY <1>1, <5>1 DEF Inv, ReqsOK
        <5> QED
          BY <4>2, <4>6, <5>1, <5>2 DEF ReqOK
      <4> QED
        BY <4>2, <4>5, <4>6 DEF Owned, Giving, Live
    <3> QED
      BY <3>2, <3>3
  <2> QED
    BY <1>1, <2>2, <2>3 DEF Owned
<1>5. CASE UNCHANGED vars
  BY <1>1, <1>5 DEF vars, Owned, Giving, Live
<1> QED
  BY <1>3, <1>4, <1>5 DEF Next

(* Only an upload adds a raw object. *)
LEMMA RawReached ==
  ASSUME [Next]_vars, NEW c \in raw', c \notin raw
  PROVE  \E r \in Uploads : UploadStore(r) /\ reqs[r].content = c
<1>1. ASSUME NEW r \in Reqs, RequestStep(r) \/ ReceiveRequest(r) \/ AbortRequest(r)
      PROVE  raw' \subseteq raw \/ (r \in Uploads /\ UploadStore(r))
  BY <1>1
     DEF RequestStep, ReceiveRequest, UploadDocument, DeleteDocumentRoute,
         ReprocessDocument, UploadLookup, UploadInsert, EnqueueConversion,
         CleanGraph, DeleteChunks, DeleteRawBlob, DeleteMarkdownBlob,
         DeleteRecord, ReprocessChunks, ReprocessBump, UploadReceive,
         ReceiveForDocument, AbortRequest, stores
<1>2. ASSUME NEW j \in JobIds, JobStep(j) \/ DisturbJob(j)
      PROVE  raw' = raw
  BY <1>2
     DEF JobStep, StartJob, GiveUpJob, ConvertDocument, ConvertMark,
         ConvertFetch, ConvertGet, ConvertPut, ConvertLand,
         ConvertFinish, ConvertEnqueue,
         ConvertFail, ChunkAndEmbed, ChunkMark, ChunkFetch, ChunkGet,
         ChunkEmpty, ChunkClear, ChunkPut, ChunkFinish, ChunkEnqueue,
         ChunkFail, BuildGraph, GraphFetch, GraphMark, GraphChunks,
         GraphEmpty, GraphClear, GraphPut, GraphFinish, GraphFail,
         DisturbJob, CrashJob, AbandonJob, ErrorInJob, stores
<1>3. PICK r \in Uploads : UploadStore(r)
  BY <1>1, <1>2 DEF Next, vars
<1> QED
  BY <1>3 DEF UploadStore

LEMMA NextOwnerInv ==
  ASSUME OwnerInv, [Next]_vars
  PROVE  OwnerInv'
<1>1. Inv /\ Inv'
  BY NextInv DEF OwnerInv
<1>2. ASSUME NEW r \in Deletes, reqs'[r].pc \in {"graph", "chunks", "blob"},
             docs'[reqs'[r].doc].state = "live"
      PROVE  reqs'[r].content = docs'[reqs'[r].doc].content
  <2>1. r \in Reqs
    BY DEF Reqs
  <2>2. ASSUME reqs'[r] = reqs[r]
        PROVE  reqs'[r].content = docs'[reqs'[r].doc].content
    <3>1. reqs[r].doc \in DocIds /\ docs[reqs[r].doc].state # "unused"
      BY <1>1, <1>2, <2>1, <2>2 DEF Inv, ReqsOK, ReqOK
    <3>2. Evolves(docs, docs')
      BY <1>1, NextInv
    <3>3. Live(reqs[r].doc)
      BY <1>1, <1>2, <2>2, <3>1, <3>2, Typed DEF Evolves, Live, DocRecord
    <3>4. docs'[reqs[r].doc].content = docs[reqs[r].doc].content
      <4>1. ASSUME NEW s \in Reqs,
                   RequestStep(s) \/ ReceiveRequest(s) \/ AbortRequest(s)
            PROVE  docs'[reqs[r].doc].content = docs[reqs[r].doc].content
        BY <1>1, <1>2, <2>2, <3>1, <3>3, <4>1, RequestsAndContents
      <4>2. ASSUME NEW j \in JobIds, JobStep(j) \/ DisturbJob(j)
            PROVE  docs'[reqs[r].doc].content = docs[reqs[r].doc].content
        BY <1>1, <3>1, <4>2, HandlersWrite DEF HandlerWrites, SameIdentity
      <4> QED
        BY <4>1, <4>2 DEF Next, vars
    <3> QED
      BY <1>2, <2>2, <3>3, <3>4 DEF OwnerInv
  <2>3. ASSUME NEW s \in Reqs, s # r,
               RequestStep(s) \/ ReceiveRequest(s) \/ AbortRequest(s)
        PROVE  reqs'[r] = reqs[r]
    BY <1>1, <2>1, <2>3, OtherRequests
  <2>4. ASSUME NEW j \in JobIds, JobStep(j) \/ DisturbJob(j)
        PROVE  reqs'[r] = reqs[r]
    BY <2>4 DEF JobStep, DisturbJob
  <2>5. CASE RequestStep(r) \/ ReceiveRequest(r) \/ AbortRequest(r)
    BY <1>1, <1>2, <2>5, DeletionStages DEF OwnerInv, Live
  <2> QED
    BY <2>2, <2>3, <2>4, <2>5 DEF Next, vars
<1>3. ASSUME disturbances' = 0, NEW c \in raw' PROVE Owned(c)'
  <2>1. CASE c \in raw
    BY <1>3, <2>1, OwnedLasts
  <2>2. CASE c \notin raw
    <3>1. PICK r \in Uploads : UploadStore(r) /\ reqs[r].content = c
      BY <1>3, <2>2, RawReached
    <3>2. reqs'[r].pc = "insert" /\ reqs'[r].content = c
      BY <1>1, <3>1, Typed DEF UploadStore, Proceed, Reqs, Req
    <3> QED
      BY <3>2 DEF Owned
  <2> QED
    BY <2>1, <2>2
<1> QED
  BY <1>1, <1>2, <1>3 DEF OwnerInv, Live

LEMMA InitOwnerInv == Init => OwnerInv
BY InitInv DEF Init, StoresInit, ApiInit, OwnerInv, NewReq, Reqs

(* As long as nothing goes wrong, every raw object has a document of its   *)
(* bytes or an upload about to insert one, however clients behave: a       *)
(* deletion takes the object from every document of equal bytes, and the   *)
(* object is stored again only by an upload, which inserts a document.     *)
THEOREM RawObjectsHaveOwners == Spec => []RawHasOwner
<1>1. OwnerInv => RawHasOwner
  BY DEF OwnerInv, Owned, RawHasOwner, FindByHash
<1>2. OwnerInv /\ [Next]_vars => OwnerInv'
  BY NextOwnerInv
<1> QED
  BY <1>1, <1>2, InitOwnerInv, PTL DEF Spec

-----------------------------------------------------------------------------
(* The chunks of a complete document that nobody deletes or reprocesses    *)

(* The batches 1 .. n of this run of the chunker are among the points P.   *)
Written(P, d, v, j, try, n) ==
  \A b \in 1 .. n :
    [doc |-> d, version |-> v, job |-> j, try |-> try, batch |-> b] \in P

ChunksOf(doc) == IF doc.content \in EmptyContents THEN 0 ELSE Batches

Whole(P, d, doc) ==
  /\ doc.chunkCount = ChunksOf(doc)
  /\ \E j \in JobIds, try \in 1 .. MaxTries["chunk"] :
       Written(P, d, doc.version, j, try, doc.chunkCount)

(* What a run of the chunker has done by the stage it is at, and why a     *)
(* graph job may write COMPLETE: the chunks were there when it was         *)
(* enqueued.                                                               *)
RunOK(P, doc, j, job) ==
  /\ job.kind = "graph" => Whole(P, job.doc, doc)
  /\ job.kind = "chunk" =>
       /\ job.tries \in 0 .. MaxTries["chunk"]
       /\ job.pc \in Stages => job.tries # 0
       /\ PastFetch(job) =>
            job.snap.version = 1 /\ job.snap.content = doc.content
       /\ job.pc = "empty" => doc.content \in EmptyContents
       /\ job.pc \in {"clear", "put", "finish"} => doc.content \notin EmptyContents
       /\ job.pc = "put" =>
            /\ job.batch \in 1 .. Batches
            /\ Written(P, job.doc, 1, j, job.tries, job.batch - 1)
       /\ job.pc = "finish" => Written(P, job.doc, 1, j, job.tries, Batches)
       /\ job.pc = "enqueue" => Whole(P, job.doc, doc)

FirstVersion(doc) == doc.state = "live" => doc.version = 1

CompleteInv ==
  /\ Inv
  /\ \A d \in DocIds : docs[d].state # "deleted" /\ FirstVersion(docs[d])
  /\ \A d \in DocIds :
       docs[d].status = "complete" => Whole(points, d, docs[d])
  /\ \A j \in JobIds :
       jobs[j].pc # "free" => RunOK(points, docs[jobs[j].doc], j, jobs[j])

LEMMA WrittenGrows ==
  ASSUME NEW P, NEW Q, P \subseteq Q, NEW d, NEW v, NEW j, NEW try, NEW n,
         Written(P, d, v, j, try, n)
  PROVE  Written(Q, d, v, j, try, n)
BY DEF Written

LEMMA WholeGrows ==
  ASSUME NEW P, NEW Q, P \subseteq Q, NEW d, NEW old, NEW new,
         SameIdentity(old, new), new.chunkCount = old.chunkCount,
         Whole(P, d, old)
  PROVE  Whole(Q, d, new)
BY WrittenGrows DEF Whole, ChunksOf, SameIdentity

LEMMA RunStable ==
  ASSUME NEW P, NEW Q, P \subseteq Q, NEW old, NEW new, NEW j, NEW job,
         SameIdentity(old, new),
         Whole(P, job.doc, old) => Whole(Q, job.doc, new),
         RunOK(P, old, j, job)
  PROVE  RunOK(Q, new, j, job)
BY WrittenGrows DEF RunOK, SameIdentity

LEMMA JobDocument ==
  ASSUME CompleteInv, NEW j \in JobIds, jobs[j].pc # "free"
  PROVE  /\ jobs[j].doc \in DocIds
         /\ Live(jobs[j].doc)
         /\ docs[jobs[j].doc].version = 1
         /\ RunOK(points, docs[jobs[j].doc], j, jobs[j])
BY Typed
   DEF CompleteInv, Inv, JobsOK, JobOK, FirstVersion, Live, DocRecord

(* The chunker clears nothing: it only ever reads the first version. *)
LEMMA PointsGrow ==
  ASSUME CompleteInv, Deletes = {}, Reprocesses = {}, [Next]_vars
  PROVE  points \subseteq points'
<1>1. ASSUME NEW r \in Reqs, RequestStep(r) \/ ReceiveRequest(r) \/ AbortRequest(r)
      PROVE  points' = points
  BY <1>1
     DEF RequestStep, ReceiveRequest, UploadDocument, UploadLookup,
         UploadStore, UploadInsert, EnqueueConversion, UploadReceive,
         AbortRequest, stores
<1>2. ASSUME NEW j \in JobIds, ChunkClear(j) PROVE points' = points
  <2>1. jobs[j].kind = "chunk" /\ jobs[j].pc = "clear" /\ jobs[j].pc # "free"
    BY <1>2 DEF ChunkClear, At
  <2>2. jobs[j].snap.version = 1
    BY <2>1, JobDocument DEF RunOK, PastFetch
  <2> QED
    BY <1>2, <2>2 DEF ChunkClear
<1>3. ASSUME NEW j \in JobIds, JobStep(j) \/ DisturbJob(j)
      PROVE  points \subseteq points'
  BY <1>2, <1>3
     DEF JobStep, StartJob, GiveUpJob, ConvertDocument, ConvertMark,
         ConvertFetch, ConvertGet, ConvertPut, ConvertLand,
         ConvertFinish, ConvertEnqueue,
         ConvertFail, ChunkAndEmbed, ChunkMark, ChunkFetch, ChunkGet,
         ChunkEmpty, ChunkPut, ChunkFinish, ChunkEnqueue, ChunkFail,
         BuildGraph, GraphFetch, GraphMark, GraphChunks, GraphEmpty,
         GraphClear, GraphPut, GraphFinish, GraphFail, DisturbJob, CrashJob,
         AbandonJob, ErrorInJob, stores
<1> QED
  BY <1>1, <1>3 DEF Next, vars

(* A record is COMPLETE only when its chunks are there, and once they are  *)
(* the record goes on counting them.                                       *)
LEMMA JobsKeepWhole ==
  ASSUME CompleteInv, Deletes = {}, Reprocesses = {},
         NEW j \in JobIds, JobStep(j) \/ DisturbJob(j), NEW d \in DocIds
  PROVE  /\ SameIdentity(docs[d], docs'[d])
         /\ Whole(points, d, docs[d]) => Whole(points', d, docs'[d])
         /\ docs'[d].status = "complete" => Whole(points', d, docs'[d])
<1>1. points \subseteq points'
  BY PointsGrow DEF Next
<1>2. HandlerWrites(j, d)
  BY HandlersWrite DEF CompleteInv
<1>3. ASSUME ChunkEmpty(j) \/ ChunkFinish(j), d = jobs[j].doc
      PROVE  Whole(points', d, docs'[d])
  <2> DEFINE try == jobs[j].tries
  <2>1. /\ jobs[j].kind = "chunk" /\ jobs[j].pc # "free"
        /\ jobs[j].pc \in Stages
        /\ ChunkEmpty(j) => jobs[j].pc = "empty"
        /\ ChunkFinish(j) => jobs[j].pc = "finish"
    BY <1>3 DEF ChunkEmpty, ChunkFinish, At, Stages
  <2>2. Live(d) /\ docs[d].version = 1 /\ RunOK(points, docs[d], j, jobs[j])
    BY <1>3, <2>1, JobDocument
  <2>3. try \in 1 .. MaxTries["chunk"]
    BY <2>1, <2>2, ArqAssumption DEF RunOK, Kinds
  <2>4. docs'[d].version = 1 /\ docs'[d].content = docs[d].content
    BY <1>2, <2>2 DEF HandlerWrites, SameIdentity
  <2>5. CASE ChunkEmpty(j)
    <3>1. docs'[d].chunkCount = 0
      BY <1>3, <2>2, <2>5, CompleteWrites DEF ChunkEmpty, CompleteInv
    <3>2. docs'[d].content \in EmptyContents
      BY <2>1, <2>2, <2>4, <2>5 DEF RunOK
    <3>3. Written(points', d, docs'[d].version, j, try, 0)
      BY DEF Written
    <3> QED
      BY <2>3, <3>1, <3>2, <3>3 DEF Whole, ChunksOf
  <2>6. CASE ChunkFinish(j)
    <3>1. docs'[d].chunkCount = Batches
      BY <1>3, <2>2, <2>6, CompleteWrites DEF ChunkFinish, CompleteInv
    <3>2. docs'[d].content \notin EmptyContents
      BY <2>1, <2>2, <2>4, <2>6 DEF RunOK
    <3>3. Written(points', d, 1, j, try, Batches)
      BY <1>1, <1>3, <2>1, <2>2, <2>6, WrittenGrows DEF RunOK
    <3> QED
      BY <2>3, <2>4, <3>1, <3>2, <3>3 DEF Whole, ChunksOf
  <2> QED
    BY <1>3, <2>5, <2>6
<1>4. ASSUME docs'[d].chunkCount = docs[d].chunkCount, Whole(points, d, docs[d])
      PROVE  Whole(points', d, docs'[d])
  BY <1>1, <1>2, <1>4, WholeGrows DEF HandlerWrites
<1>5. ASSUME jobs[j].kind = "graph", jobs[j].pc # "free", d = jobs[j].doc
      PROVE  Whole(points, d, docs[d])
  BY <1>5, JobDocument DEF RunOK
<1>6. docs[d].status = "complete" => Whole(points, d, docs[d])
  BY DEF CompleteInv
<1> QED
  BY <1>2, <1>3, <1>4, <1>5, <1>6 DEF HandlerWrites

(* A run that is delivered again, or fails, has shown nothing yet. *)
LEMMA RunRestarts ==
  ASSUME NEW P, NEW doc, NEW j, NEW job, NEW next, RunOK(P, doc, j, job),
         next.kind = job.kind, next.doc = job.doc,
         \/ next.pc = "queued" /\ next.tries = job.tries
         \/ /\ next.pc \in {"mark", "fetch", "fail"}
            /\ next.tries = job.tries /\ job.pc \in Stages
  PROVE  RunOK(P, doc, j, next)
BY DEF RunOK, PastFetch, Stages

LEMMA OwnRun ==
  ASSUME CompleteInv, Deletes = {}, Reprocesses = {},
         NEW j \in JobIds, JobStep(j) \/ DisturbJob(j), jobs'[j].pc # "free"
  PROVE  RunOK(points', docs'[jobs'[j].doc], j, jobs'[j])
<1>1. Inv /\ jobs[j] \in Job /\ jobs'[j] # FreeSlot
  BY Typed, FreeSlotType DEF CompleteInv
<1>2. jobs[j].pc # "free"
  BY <1>1
     DEF JobStep, StartJob, GiveUpJob, ConvertDocument, ConvertMark,
         ConvertFetch, ConvertGet, ConvertPut, ConvertLand,
         ConvertFinish, ConvertEnqueue,
         ConvertFail, ChunkAndEmbed, ChunkMark, ChunkFetch, ChunkGet,
         ChunkEmpty, ChunkClear, ChunkPut, ChunkFinish, ChunkEnqueue,
         ChunkFail, BuildGraph, GraphFetch, GraphMark, GraphChunks, GraphEmpty,
         GraphClear, GraphPut, GraphFinish, GraphFail, At, DisturbJob,
         CrashJob, AbandonJob, ErrorInJob, Running, Stages
<1>3. PICK d \in DocIds :
        /\ d = jobs[j].doc /\ Live(d) /\ docs[d].version = 1
        /\ RunOK(points, docs[d], j, jobs[j])
  BY <1>2, JobDocument
<1>4. jobs'[j].kind = jobs[j].kind /\ jobs'[j].doc = d
  BY <1>1, <1>3, OwnJob
<1>5. /\ SameIdentity(docs[d], docs'[d])
      /\ Whole(points, d, docs[d]) => Whole(points', d, docs'[d])
      /\ docs'[d].status = "complete" => Whole(points', d, docs'[d])
  BY JobsKeepWhole
<1>6. points \subseteq points'
  BY PointsGrow DEF Next
<1>7. RunOK(points', docs'[d], j, jobs[j])
  BY <1>3, <1>5, <1>6, RunStable
<1>8. /\ Redelivered(jobs[j]).pc = "queued"
      /\ Redelivered(jobs[j]).tries = jobs[j].tries
  BY <1>1, RedeliveredFields
<1>9. CASE jobs[j].kind # "chunk"
  BY <1>3, <1>4, <1>7, <1>9 DEF RunOK
<1>10. CASE ChunkAndEmbed(j)
  <2>1. jobs[j].pc \in Stages /\ jobs[j].kind = "chunk"
    BY <1>10
       DEF ChunkAndEmbed, ChunkMark, ChunkFetch, ChunkGet, ChunkEmpty,
           ChunkClear, ChunkPut, ChunkFinish, ChunkEnqueue, ChunkFail, At,
           Stages
  <2>2. CASE jobs'[j] = Redelivered(jobs[j])
    BY <1>3, <1>4, <1>7, <1>8, <2>2, RunRestarts
  <2>3. CASE jobs'[j].pc = "fail" /\ jobs'[j].tries = jobs[j].tries
    BY <1>3, <1>4, <1>7, <2>1, <2>3, RunRestarts
  <2>4. CASE ChunkMark(j)
    BY <1>1, <1>3, <1>4, <1>7, <2>1, <2>4, GotoFields, RunRestarts DEF ChunkMark
  <2>5. CASE ChunkFetch(j)
    BY <1>1, <1>3, <1>4, <1>5, <1>7, <2>1, <2>3, <2>5, FetchFields
       DEF ChunkFetch, RunOK, SameIdentity, PastFetch, At
  <2>6. CASE ChunkGet(j)
    <3>1. /\ jobs[j].pc = "get"
          /\ jobs'[j].tries = jobs[j].tries
          /\ jobs'[j].snap = jobs[j].snap
          /\ \/ jobs'[j].pc = "fail"
             \/ jobs'[j].pc = "empty" /\ jobs[j].snap.content \in EmptyContents
             \/ jobs'[j].pc = "clear" /\ jobs[j].snap.content \notin EmptyContents
      BY <1>1, <2>6, GotoFields DEF ChunkGet, At
    <3> QED
      BY <1>4, <1>7, <2>1, <2>3, <3>1 DEF RunOK, PastFetch
  <2>7. CASE ChunkEmpty(j)
    BY <1>1, <2>2, <2>7, ReturnFields DEF ChunkEmpty
  <2>8. CASE ChunkClear(j)
    <3>1. /\ jobs[j].pc = "clear"
          /\ jobs'[j].pc = "put" /\ jobs'[j].batch = 1
          /\ jobs'[j].tries = jobs[j].tries
          /\ jobs'[j].snap = jobs[j].snap
      BY <1>1, <2>8, Typed DEF ChunkClear, At, Job
    <3>2. Written(points', d, 1, j, jobs[j].tries, 1 - 1)
      BY DEF Written
    <3> QED
      BY <1>4, <1>7, <2>1, <3>1, <3>2, StoresAssumption DEF RunOK, PastFetch
  <2>9. CASE ChunkPut(j)
    <3> DEFINE b == jobs[j].batch
               try == jobs[j].tries
    <3>1. /\ jobs[j].pc = "put"
          /\ jobs'[j].tries = jobs[j].tries
          /\ jobs'[j].snap = jobs[j].snap
          /\ \/ b < Batches /\ jobs'[j].pc = "put" /\ jobs'[j].batch = b + 1
             \/ b >= Batches /\ jobs'[j].pc = "finish"
      <4>1. b \in Nat /\ Batches \in Nat
        BY <1>1, StoresAssumption DEF Job
      <4> QED
        BY <1>1, <2>9, <4>1, GotoFields, Typed DEF ChunkPut, At, Job
    <3>2. b \in 1 .. Batches /\ Written(points', d, 1, j, try, b - 1)
      BY <1>3, <1>7, <2>1, <3>1 DEF RunOK
    <3>3. [doc |-> d, version |-> 1, job |-> j, try |-> try, batch |-> b] \in points'
      BY <1>3, <2>1, <2>9, <3>1 DEF ChunkPut, RunOK, PastFetch
    <3>4. Written(points', d, 1, j, try, b)
      BY <3>2, <3>3, StoresAssumption DEF Written
    <3>5. CASE b < Batches /\ jobs'[j].pc = "put" /\ jobs'[j].batch = b + 1
      <4>1. jobs'[j].batch \in 1 .. Batches /\ jobs'[j].batch - 1 = b
        BY <3>2, <3>5, StoresAssumption
      <4> QED
        BY <1>4, <1>7, <2>1, <3>1, <3>4, <3>5, <4>1 DEF RunOK, PastFetch
    <3>6. CASE b >= Batches /\ jobs'[j].pc = "finish"
      <4>1. b = Batches
        BY <3>2, <3>6, StoresAssumption
      <4> QED
        BY <1>4, <1>7, <2>1, <3>1, <3>4, <3>6, <4>1 DEF RunOK, PastFetch
    <3> QED
      BY <3>1, <3>5, <3>6
  <2>10. CASE ChunkFinish(j)
    <3>1. CASE Return(j)
      BY <1>1, <2>2, <3>1, ReturnFields
    <3>2. CASE Goto(j, "enqueue")
      <4>1. docs'[d].status = "complete"
        BY <1>1, <1>3, <2>10, CompleteWrites DEF ChunkFinish
      <4> QED
        BY <1>1, <1>3, <1>4, <1>5, <1>7, <2>1, <2>10, <3>2, <4>1, GotoFields
           DEF RunOK, PastFetch, ChunkFinish, At
    <3> QED
      BY <2>10, <3>1, <3>2 DEF ChunkFinish
  <2>11. CASE ChunkEnqueue(j)
    BY <1>1, <1>2, <2>2, <2>3, <2>11, EnqueueNextFields DEF ChunkEnqueue
  <2>12. CASE ChunkFail(j)
    BY <1>1, <2>2, <2>12, ReturnFields DEF ChunkFail
  <2> QED
    BY <1>10, <2>4, <2>5, <2>6, <2>7, <2>8, <2>9, <2>10, <2>11, <2>12
       DEF ChunkAndEmbed
<1>11. CASE jobs[j].kind = "chunk" /\ StartJob(j)
  <2>1. /\ jobs'[j].pc = "mark"
        /\ jobs'[j].tries = jobs[j].tries + 1
        /\ jobs[j].tries < MaxTries["chunk"]
    BY <1>1, <1>11, StartFields DEF StartJob, FirstStage
  <2>2. jobs'[j].tries \in 1 .. MaxTries["chunk"]
    BY <1>1, <2>1, ArqAssumption DEF Job, Kinds
  <2> QED
    BY <1>4, <1>7, <1>11, <2>1, <2>2, ArqAssumption DEF RunOK, PastFetch, Kinds
<1>12. CASE GiveUpJob(j)
  BY <1>1, <1>12, Typed DEF GiveUpJob, Become
<1>13. CASE DisturbJob(j)
  <2>1. jobs[j].pc \in Stages
    BY <1>13 DEF DisturbJob, CrashJob, AbandonJob, ErrorInJob, Running
  <2>2. \/ jobs[j].kind # "chunk"
        \/ jobs'[j] = Redelivered(jobs[j])
        \/ jobs'[j].pc = "fail" /\ jobs'[j].tries = jobs[j].tries
    <3>1. jobs'[j] # FreeSlot
      BY DEF FreeSlot
    <3> QED
      BY <1>1, <1>13, <3>1, GotoFields, Typed
         DEF DisturbJob, CrashJob, AbandonJob, ErrorInJob, Become, At
  <2> QED
    BY <1>3, <1>4, <1>7, <1>8, <1>9, <2>1, <2>2, RunRestarts
<1>14. CASE ConvertDocument(j) \/ BuildGraph(j)
  <2>1. jobs[j].kind # "chunk"
    BY <1>14
       DEF ConvertDocument, ConvertMark, ConvertFetch, ConvertGet, ConvertPut, ConvertLand,
           ConvertFinish, ConvertEnqueue, ConvertFail, BuildGraph, GraphFetch,
           GraphMark, GraphChunks, GraphEmpty, GraphClear, GraphPut,
           GraphFinish, GraphFail, At
  <2> QED
    BY <1>9, <2>1
<1> QED
  BY <1>9, <1>10, <1>11, <1>12, <1>13, <1>14 DEF JobStep

LEMMA QueuedRun ==
  ASSUME NEW P, NEW doc, NEW j, NEW kind \in Kinds, NEW d,
         kind = "graph" => Whole(P, d, doc)
  PROVE  RunOK(P, doc, j, Queued(kind, d))
<1>1. /\ Queued(kind, d).kind = kind
      /\ Queued(kind, d).doc = d
      /\ Queued(kind, d).pc = "queued"
      /\ Queued(kind, d).tries = 0
  BY DEF Queued, FreeSlot
<1> QED
  BY <1>1, ArqAssumption DEF RunOK, PastFetch, Stages, Kinds

LEMMA JobStepKeepsCompleteInv ==
  ASSUME CompleteInv, Deletes = {}, Reprocesses = {}, Inv',
         NEW j \in JobIds, JobStep(j) \/ DisturbJob(j)
  PROVE  CompleteInv'
<1>1. Inv
  BY DEF CompleteInv
<1>2. ASSUME NEW d \in DocIds
      PROVE  /\ docs'[d].state # "deleted" /\ FirstVersion(docs'[d])
             /\ docs'[d].status = "complete" => Whole(points', d, docs'[d])
  BY JobsKeepWhole DEF CompleteInv, FirstVersion, SameIdentity
<1>3. ASSUME NEW i \in JobIds, jobs'[i].pc # "free"
      PROVE  RunOK(points', docs'[jobs'[i].doc], i, jobs'[i])
  <2>1. CASE i = j
    BY <1>3, <2>1, OwnRun
  <2>2. CASE i # j /\ jobs'[i] = jobs[i]
    <3>1. jobs[i].doc \in DocIds /\ RunOK(points, docs[jobs[i].doc], i, jobs[i])
      BY <1>3, <2>2, JobDocument
    <3>2. RunOK(points', docs'[jobs[i].doc], i, jobs[i])
      BY <3>1, PointsGrow, JobsKeepWhole, RunStable DEF Next
    <3> QED
      BY <2>2, <3>2
  <2>3. CASE ConvertEnqueue(j) /\ jobs'[i] = Queued("chunk", jobs[j].doc)
    BY <2>3, QueuedRun DEF Kinds
  <2>4. CASE ChunkEnqueue(j) /\ jobs'[i] = Queued("graph", jobs[j].doc)
    <3>1. jobs[j].kind = "chunk" /\ jobs[j].pc = "enqueue" /\ docs' = docs /\ points' = points
      BY <2>4 DEF ChunkEnqueue, At, stores
    <3>2. Whole(points, jobs[j].doc, docs[jobs[j].doc])
      BY <3>1, JobDocument DEF RunOK
    <3>3. RunOK(points', docs'[jobs[j].doc], i, Queued("graph", jobs[j].doc))
      BY <3>1, <3>2, QueuedRun DEF Kinds
    <3>4. Queued("graph", jobs[j].doc).doc = jobs[j].doc
      BY DEF Queued, FreeSlot
    <3> QED
      BY <2>4, <3>3, <3>4
  <2> QED
    BY <1>1, <2>1, <2>2, <2>3, <2>4, OtherJobs
<1> QED
  BY <1>2, <1>3 DEF CompleteInv

LEMMA RequestStepKeepsCompleteInv ==
  ASSUME CompleteInv, Deletes = {}, Reprocesses = {}, Inv',
         NEW r \in Reqs,
         RequestStep(r) \/ ReceiveRequest(r) \/ AbortRequest(r)
  PROVE  CompleteInv'
<1>1. Inv /\ points' = points
  BY DEF CompleteInv, RequestStep, ReceiveRequest, UploadDocument,
         UploadLookup, UploadStore, UploadInsert, EnqueueConversion,
         UploadReceive, AbortRequest, stores
<1>2. ASSUME NEW d \in DocIds
      PROVE  \/ docs'[d] = docs[d]
             \/ docs[d].state = "unused" /\ docs'[d].state = "live"
                /\ docs'[d].version = 1 /\ docs'[d].status = "pending"
  <2>1. RequestWrites(r, d)
    BY <1>1, RequestsWrite
  <2> QED
    BY <2>1 DEF RequestWrites, NoDoc
<1>3. ASSUME NEW d \in DocIds
      PROVE  /\ docs'[d].state # "deleted" /\ FirstVersion(docs'[d])
             /\ docs'[d].status = "complete" => Whole(points', d, docs'[d])
  BY <1>1, <1>2 DEF CompleteInv, FirstVersion
<1>4. ASSUME NEW i \in JobIds, jobs'[i].pc # "free"
      PROVE  RunOK(points', docs'[jobs'[i].doc], i, jobs'[i])
  <2>1. CASE jobs'[i] = jobs[i]
    <3>1. /\ jobs[i].doc \in DocIds /\ Live(jobs[i].doc)
          /\ RunOK(points, docs[jobs[i].doc], i, jobs[i])
      BY <1>4, <2>1, JobDocument
    <3>2. docs'[jobs[i].doc] = docs[jobs[i].doc]
      BY <1>2, <3>1 DEF Live
    <3> QED
      BY <1>1, <2>1, <3>1, <3>2
  <2>2. CASE jobs'[i] = Queued("convert", reqs[r].doc)
    BY <2>2, QueuedRun DEF Kinds
  <2> QED
    BY <1>1, <2>1, <2>2, RequestsAndJobs
<1> QED
  BY <1>3, <1>4 DEF CompleteInv

LEMMA NextCompleteInv ==
  ASSUME CompleteInv, Deletes = {}, Reprocesses = {}, [Next]_vars
  PROVE  CompleteInv'
<1>1. Inv'
  BY NextInv DEF CompleteInv
<1>2. CASE UNCHANGED vars
  BY <1>1, <1>2 DEF vars, CompleteInv
<1> QED
  BY <1>1, <1>2, JobStepKeepsCompleteInv, RequestStepKeepsCompleteInv DEF Next

LEMMA InitCompleteInv == Init => CompleteInv
BY InitInv, FreeSlotType
   DEF Init, StoresInit, ArqInit, CompleteInv, NoDoc, FirstVersion

(* A document that clients only upload, and that is complete, has all the  *)
(* chunks of one run of the chunker, and counts them, whatever goes wrong  *)
(* on the way: jobs that raise, die, are delivered again or are abandoned, *)
(* requests cut short, replies of the queue lost.                          *)
THEOREM CompleteDocumentsHaveAllChunks ==
  ASSUME Deletes = {}, Reprocesses = {}
  PROVE  Spec => []CompleteHasAllChunks
<1>1. CompleteInv => CompleteHasAllChunks
  <2> SUFFICES ASSUME CompleteInv, NEW d \in DocIds, Live(d),
                      docs[d].status = "complete"
               PROVE  Whole(points, d, docs[d])
    BY DEF CompleteHasAllChunks, Whole, ChunksOf, Written
  <2> QED
    BY DEF CompleteInv
<1>2. CompleteInv /\ [Next]_vars => CompleteInv'
  BY NextCompleteInv
<1> QED
  BY <1>1, <1>2, InitCompleteInv, PTL DEF Spec

=============================================================================
