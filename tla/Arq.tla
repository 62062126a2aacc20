-------------------------------- MODULE Arq ---------------------------------
(***************************************************************************)
(* The arq job queue, as the three workers use it.  arq is a library: its  *)
(* behaviour is modelled from the WorkerSettings classes and from how jobs *)
(* are enqueued.                                                           *)
(*                                                                         *)
(*  - enqueue_job is called without _job_id, so two enqueues for the same  *)
(*    document are two jobs;                                               *)
(*  - a job runs on one worker at a time; each run counts as a try, and a  *)
(*    job that has used up max_tries is given up without being run;        *)
(*  - a run cut short by the death or the shutdown of its worker is run    *)
(*    again, from the start and with nothing remembered;                   *)
(*  - a handler that returns or raises is finished, and so is one that     *)
(*    exceeds job_timeout: neither is retried.                             *)
(*                                                                         *)
(* A job record holds the stage its handler has reached and the document   *)
(* record the handler read, which every handler goes on using (its         *)
(* version, its markdown path, its graph_status) until it returns.         *)
(***************************************************************************)
EXTENDS Stores

CONSTANTS
  MaxTries,        \* WorkerSettings.max_tries of each kind of job
  Disturbances,    \* the kinds of disturbance the environment may produce
  MaxDisturbances, \* bound on their number
  GraphEnabled     \* settings.graph_rag_enabled

Kinds == {"convert", "chunk", "graph"}

ASSUME ArqAssumption ==
  /\ MaxTries \in [Kinds -> Nat \ {0}]
  /\ MaxDisturbances \in Nat
  /\ GraphEnabled \in BOOLEAN
  /\ Disturbances \subseteq {"error", "lostReply", "crash", "abandon", "abort"}

VARIABLES jobs, disturbances

arqVars == <<jobs, disturbances>>

-----------------------------------------------------------------------------
Stages ==
  {"mark", "fetch", "get", "put", "finish", "empty", "clear", "chunks",
   "enqueue", "fail"}

Job ==
  [kind : Kinds \cup {"none"}, doc : DocIds \cup {None},
   pc : Stages \cup {"free", "queued", "landing"},
   tries : Nat, snap : DocRecord, batch : Nat]

FreeSlot ==
  [kind |-> "none", doc |-> None, pc |-> "free", tries |-> 0,
   snap |-> NoDoc, batch |-> 0]

Queued(kind, d) == [FreeSlot EXCEPT !.kind = kind, !.doc = d, !.pc = "queued"]

(* A job whose worker died: nothing of the run is remembered but its try. *)
Redelivered(job) == [job EXCEPT !.pc = "queued", !.snap = NoDoc, !.batch = 0]

At(j, kind, pc) == jobs[j].kind = kind /\ jobs[j].pc = pc

Running(j) == jobs[j].pc \in Stages

Active(j) == Running(j) \/ jobs[j].pc = "queued"

(* A job that is over gives its id back once nothing it wrote is left, so  *)
(* that the pool JobIds bounds the jobs there are at one time.             *)
FreeJobs ==
  {j \in JobIds : /\ jobs[j].pc = "free"
                  /\ \A p \in points : p.job # j
                  /\ \A g \in graph : g.job # j}

FreeJob == CHOOSE j \in JobIds : j \in FreeJobs

-----------------------------------------------------------------------------
(* Steps a handler is built from *)

Goto(j, pc) == jobs' = [jobs EXCEPT ![j].pc = pc]

(* get_document: remember the record, or report a missing document. *)
FetchDocument(j, next) ==
  jobs' = [jobs EXCEPT ![j] =
             IF Live(jobs[j].doc)
             THEN [@ EXCEPT !.pc = next, !.snap = docs[jobs[j].doc]]
             ELSE [@ EXCEPT !.pc = "fail"]]

(* The environment disturbs a step of its choice. *)
Disturb(what) ==
  /\ what \in Disturbances
  /\ disturbances < MaxDisturbances
  /\ disturbances' = disturbances + 1

Become(j, job) == jobs' = [jobs EXCEPT ![j] = job]

(* The last step of a handler.  A worker that dies between this step and   *)
(* arq recording the end of the job makes the job run again, although all  *)
(* its effects are in place.                                               *)
Return(j) ==
  \/ Become(j, FreeSlot) /\ UNCHANGED disturbances
  \/ Become(j, Redelivered(jobs[j])) /\ Disturb("crash")

(* The last call of a handler enqueues the next job, and the handler       *)
(* returns.  When the reply is lost the job is in the queue and the        *)
(* handler sees an exception.                                              *)
EnqueueNext(j, kind) ==
  LET Leave(job) ==
        jobs' = [jobs EXCEPT ![j] = job,
                             ![FreeJob] = Queued(kind, jobs[j].doc)]
  IN
  /\ FreeJobs # {}
  /\ \/ Leave(FreeSlot) /\ UNCHANGED disturbances
     \/ Leave(Redelivered(jobs[j])) /\ Disturb("crash")
     \/ Leave([jobs[j] EXCEPT !.pc = "fail"]) /\ Disturb("lostReply")

EnqueueJob(kind, d) ==
  /\ FreeJobs # {}
  /\ jobs' = [jobs EXCEPT ![FreeJob] = Queued(kind, d)]

-----------------------------------------------------------------------------
(* What arq and the environment do to a job, whatever its kind *)

(* The first statement of build_graph reads the document, those of the     *)
(* other two handlers write its status.                                    *)
FirstStage(kind) == IF kind = "graph" THEN "fetch" ELSE "mark"

StartJob(j) ==
  /\ jobs[j].pc = "queued"
  /\ jobs[j].tries < MaxTries[jobs[j].kind]
  /\ jobs' = [jobs EXCEPT ![j].pc = FirstStage(jobs[j].kind),
                          ![j].tries = @ + 1]
  /\ UNCHANGED <<disturbances, stores>>

(* max_tries is exceeded: the job is dropped, the document untouched. *)
GiveUpJob(j) ==
  /\ jobs[j].pc = "queued"
  /\ jobs[j].tries >= MaxTries[jobs[j].kind]
  /\ Become(j, FreeSlot)
  /\ UNCHANGED <<disturbances, stores>>

(* The worker dies or is shut down in the middle of a run: its threads     *)
(* end with it.                                                            *)
CrashJob(j) ==
  /\ Running(j)
  /\ Disturb("crash")
  /\ Become(j, Redelivered(jobs[j]))
  /\ UNCHANGED stores

(* job_timeout expires, or an exception leaves the handler: arq records    *)
(* the failure and never runs the job again.  CancelledError is not an     *)
(* Exception, so no except clause of the handler sees the timeout.  An     *)
(* upload in a thread of the executor may go on and land later: it is the  *)
(* only such call that changes a store.                                    *)
AbandonJob(j) ==
  /\ Running(j)
  /\ Disturb("abandon")
  /\ \/ Become(j, FreeSlot)
     \/ At(j, "convert", "put") /\ Goto(j, "landing")
  /\ UNCHANGED stores

(* A call of the handler raises: every except clause leads to a single     *)
(* write of the failed status.                                             *)
ErrorInJob(j) ==
  /\ Running(j)
  /\ jobs[j].pc # "fail"
  /\ Disturb("error")
  /\ Goto(j, "fail")
  /\ UNCHANGED stores

-----------------------------------------------------------------------------
ArqInit ==
  /\ jobs = [j \in JobIds |-> FreeSlot]
  /\ disturbances = 0

ArqTypeOK ==
  /\ jobs \in [JobIds -> Job]
  /\ disturbances \in Nat
=============================================================================
