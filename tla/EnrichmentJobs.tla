--------------------------- MODULE EnrichmentJobs ---------------------------
(***************************************************************************)
(* The durable enrichment job of one buyer session: the row in             *)
(* enrichment_jobs, the public API that creates it and dispatches a Cloud  *)
(* Task, the queue that delivers the task to the private worker, the       *)
(* worker's handler, and the polling endpoint that ends abandoned work.    *)
(*                                                                         *)
(* Every action is one database transaction of one process (READ           *)
(* COMMITTED), one call to the queue, or one response.  A process can be   *)
(* stopped between any two of its actions.                                 *)
(***************************************************************************)
EXTENDS Naturals, FiniteSets

CONSTANTS
    Jobs,           \* ids that create_or_get_active may draw
    Sessions,       \* buyer sessions, all present initially
    Apis,           \* concurrent start requests of the public API
    Workers,        \* threads of the worker service
    None,           \* no job
    MaxAttempts,    \* settings.max_enrichment_job_attempts
    MaxDeliveries,  \* the queue's max-attempts
    MaxDuplicates,  \* bound: extra deliveries the queue may make of one task
    MaxStages,      \* bound: set_stage calls of one execution
    Deadline,       \* settings.cloud_tasks_dispatch_deadline_seconds
    StaleAfter      \* settings.enrichment_job_stale_seconds

ASSUME NoneAssumption == None \notin Jobs

ASSUME BoundsAssumption ==
    /\ MaxAttempts \in Nat \ {0}
    /\ MaxDeliveries \in Nat \ {0}
    /\ MaxDuplicates \in Nat
    /\ MaxStages \in Nat
    /\ Deadline \in Nat \ {0}
    /\ StaleAfter \in Nat

\* Settings.validate_production refuses to start a service otherwise.
ASSUME LeaseAssumption == Deadline < StaleAfter

VARIABLES
    sessions,   \* sessions that exist
    owner,      \* job -> its session_id
    status,     \* job -> its status column, "absent" before INSERT
    stage,      \* job -> its progress_stage, the worker's stages as "working"
    attempts,   \* job -> its attempts column
    age,        \* job -> time since updated_at, up to StaleAfter
    task,       \* job -> its Cloud Task
    left,       \* job -> deliveries the queue may still make
    dups,       \* job -> duplicate deliveries made
    pc,         \* worker -> where its handler stands
    job,        \* worker -> the payload's job_id
    attached,   \* worker -> whether the queue still waits for its response
    held,       \* worker -> time since the delivery started
    reports,    \* worker -> set_stage calls of this execution
    apc,        \* start request -> where it stands
    asession,   \* start request -> its session_id
    ajob,       \* start request -> the job it holds
    watched,    \* jobs some client was answered with and still polls
    cut,        \* history: jobs whose delivery the queue gave up while it ran
    unsure      \* history: jobs whose create_task failed after it took effect

jobVars == <<sessions, owner, status, stage, attempts, age>>
taskVars == <<task, left, dups>>
workerVars == <<pc, job, attached, held, reports>>
apiVars == <<apc, asession, ajob, watched>>
history == <<cut, unsure>>
vars == <<jobVars, taskVars, workerVars, apiVars, history>>

-----------------------------------------------------------------------------
ActiveStatuses == {"queued", "running"}

\* "cancelled" is in the source's tuple and no code writes it.
TerminalStatuses == {"completed", "failed"}

Stages == {"queued", "starting", "working", "retrying", "completed", "failed"}

TypeOK ==
    /\ sessions \subseteq Sessions
    /\ owner \in [Jobs -> Sessions]
    /\ status \in [Jobs -> ActiveStatuses \cup TerminalStatuses
                             \cup {"absent", "deleted"}]
    /\ stage \in [Jobs -> Stages]
    /\ attempts \in [Jobs -> Nat]
    /\ age \in [Jobs -> 0..StaleAfter]
    /\ task \in [Jobs -> {"none", "waiting", "dispatched", "gone"}]
    /\ left \in [Jobs -> 0..MaxDeliveries]
    /\ dups \in [Jobs -> 0..MaxDuplicates]
    /\ pc \in [Workers -> {"idle", "read", "requeue", "claim", "load", "run",
                             "reply", "replyRetry"}]
    /\ job \in [Workers -> Jobs \cup {None}]
    /\ attached \in [Workers -> BOOLEAN]
    /\ \A w \in Workers : /\ pc[w] # "idle" => job[w] \in Jobs
                          /\ attached[w] => pc[w] # "idle"
    /\ held \in [Workers -> 0..Deadline]
    /\ reports \in [Workers -> 0..MaxStages]
    /\ apc \in [Apis -> {"idle", "expire", "lookup", "insert", "relookup",
                           "dispatch", "mark"}]
    /\ asession \in [Apis -> Sessions]
    /\ ajob \in [Apis -> Jobs \cup {None}]
    /\ \A a \in Apis : apc[a] \in {"dispatch", "mark"} => ajob[a] \in Jobs
    /\ watched \subseteq Jobs
    /\ cut \subseteq Jobs
    /\ unsure \subseteq Jobs

Init ==
    /\ sessions = Sessions
    /\ owner \in [Jobs -> Sessions]     \* fixed when the row is inserted
    /\ status = [j \in Jobs |-> "absent"]
    /\ stage = [j \in Jobs |-> "queued"]
    /\ attempts = [j \in Jobs |-> 0]
    /\ age = [j \in Jobs |-> 0]
    /\ task = [j \in Jobs |-> "none"]
    /\ left = [j \in Jobs |-> MaxDeliveries]
    /\ dups = [j \in Jobs |-> 0]
    /\ pc = [w \in Workers |-> "idle"]
    /\ job = [w \in Workers |-> None]
    /\ attached = [w \in Workers |-> FALSE]
    /\ held = [w \in Workers |-> 0]
    /\ reports = [w \in Workers |-> 0]
    /\ apc = [a \in Apis |-> "idle"]
    /\ asession \in [Apis -> Sessions]
    /\ ajob = [a \in Apis |-> None]
    /\ watched = {}
    /\ cut = {}
    /\ unsure = {}

-----------------------------------------------------------------------------
(* The table.                                                              *)

IsActive(j) == status[j] \in ActiveStatuses

\* Mutant: a lease of one dispatch deadline.
IsStaleAtDeadline(j) == age[j] >= Deadline

\* updated_at < now - enrichment_job_stale_seconds
IsStale(j) == age[j] >= StaleAfter

ActiveJobs(s) == {j \in Jobs : owner[j] = s /\ IsActive(j)}

\* Mutant: the table without its partial unique index.
NoIndex(j) == j \in Jobs

\* The partial unique index uq_enrichment_jobs_active_session.
IndexAllows(j) == ActiveJobs(owner[j]) \ {j} = {}

\* _update: unconditional UPDATE of the row, which refreshes updated_at.
Write(j, newStatus, newStage) ==
    /\ status' = [status EXCEPT ![j] = newStatus]
    /\ stage' = [stage EXCEPT ![j] = newStage]
    /\ age' = [age EXCEPT ![j] = 0]

RowUnchanged == UNCHANGED <<status, stage, age>>

\* Mutant: any active row, however recent its last write.
FailIfActive(j) ==
    IF IsActive(j)
    THEN Write(j, "failed", "failed")
    ELSE RowUnchanged

\* fail_if_stale: the UPDATE matches a row that is active and stale.
FailIfStale(j) ==
    IF IsActive(j) /\ IsStale(j)
    THEN Write(j, "failed", "failed")
    ELSE RowUnchanged

-----------------------------------------------------------------------------
(* POST /sessions/{id}/enrichment/start: one start request.                *)

\* The request ends; a 202 gives its client the jobs to poll.
ApiEnd(a, jobs) ==
    /\ apc' = [apc EXCEPT ![a] = "idle"]
    /\ ajob' = [ajob EXCEPT ![a] = None]
    /\ watched' = watched \cup jobs
    /\ UNCHANGED asession

ApiGoto(a, where, j) ==
    /\ apc' = [apc EXCEPT ![a] = where]
    /\ ajob' = [ajob EXCEPT ![a] = j]
    /\ UNCHANGED <<asession, watched>>

\* The session is checked (404 without one) and
\* fail_stale_active_for_session reads the active job.
ApiBegin(a) ==
    /\ apc[a] = "idle"
    /\ \E s \in sessions :
        /\ asession' = [asession EXCEPT ![a] = s]
        /\ \/ /\ ActiveJobs(s) = {}
              /\ apc' = [apc EXCEPT ![a] = "lookup"]
              /\ UNCHANGED ajob
           \/ \E j \in ActiveJobs(s) :
              /\ apc' = [apc EXCEPT ![a] = "expire"]
              /\ ajob' = [ajob EXCEPT ![a] = j]
    /\ UNCHANGED <<jobVars, taskVars, workerVars, watched, history>>

\* ... and fails the job it read if it is still active and stale.
ApiExpire(a) ==
    /\ apc[a] = "expire"
    /\ ajob[a] \in Jobs
    /\ FailIfStale(ajob[a])
    /\ ApiGoto(a, "lookup", None)
    /\ UNCHANGED <<sessions, owner, attempts, taskVars, workerVars, history>>

\* create_or_get_active returns an active job to the client and nothing is
\* dispatched for it, or goes on to insert one.
ApiLookup(a) ==
    /\ apc[a] = "lookup"
    /\ \/ ActiveJobs(asession[a]) = {} /\ ApiGoto(a, "insert", None)
       \/ \E j \in ActiveJobs(asession[a]) : ApiEnd(a, {j})
    /\ UNCHANGED <<jobVars, taskVars, workerVars, history>>

\* INSERT: the unique index, or the foreign key to a deleted session, turns
\* it into an IntegrityError.
ApiInsert(a) ==
    /\ apc[a] = "insert"
    /\ \/ \E j \in Jobs :
            /\ status[j] = "absent"
            /\ owner[j] = asession[a]
            /\ owner[j] \in sessions
            /\ IndexAllows(j)
            /\ Write(j, "queued", "queued")
            /\ ApiGoto(a, "dispatch", j)
       \/ /\ \/ asession[a] \notin sessions
             \/ ActiveJobs(asession[a]) # {}
          /\ ApiGoto(a, "relookup", None)
          /\ RowUnchanged
    /\ UNCHANGED <<sessions, owner, attempts, taskVars, workerVars, history>>

\* The rollback branch returns the winner's job, or raises when there is none.
ApiRelookup(a) ==
    /\ apc[a] = "relookup"
    /\ \/ \E j \in ActiveJobs(asession[a]) : ApiEnd(a, {j})
       \/ ActiveJobs(asession[a]) = {} /\ ApiEnd(a, {})
    /\ UNCHANGED <<jobVars, taskVars, workerVars, history>>

\* create_task succeeds (or reports AlreadyExists): 202.
ApiDispatch(a) ==
    /\ apc[a] = "dispatch"
    /\ task' = [task EXCEPT ![ajob[a]] = IF @ = "none" THEN "waiting" ELSE @]
    /\ ApiEnd(a, {ajob[a]})
    /\ UNCHANGED <<jobVars, left, dups, workerVars, history>>

\* Mutant: the failed dispatch forgets which job it was for.
ApiDispatchForgets(a) ==
    /\ apc[a] = "dispatch"
    /\ ApiGoto(a, "mark", None)
    /\ UNCHANGED <<jobVars, taskVars, workerVars, history>>

\* create_task raises TaskDispatchError and the queue holds no task.
ApiDispatchRefused(a) ==
    /\ apc[a] = "dispatch"
    /\ ApiGoto(a, "mark", ajob[a])
    /\ UNCHANGED <<jobVars, taskVars, workerVars, history>>

\* create_task raises TaskDispatchError and the queue did take the task: the
\* answer was lost on the way back.
ApiDispatchUnsure(a) ==
    /\ apc[a] = "dispatch"
    /\ task[ajob[a]] = "none"
    /\ task' = [task EXCEPT ![ajob[a]] = "waiting"]
    /\ unsure' = unsure \cup {ajob[a]}
    /\ ApiGoto(a, "mark", ajob[a])
    /\ UNCHANGED <<jobVars, left, dups, workerVars, cut>>

\* mark_enqueue_failed, whatever the row says by now; then 503.
ApiMarkEnqueueFailed(a) ==
    /\ apc[a] = "mark"
    /\ \/ status[ajob[a]] = "deleted" /\ RowUnchanged
       \/ status[ajob[a]] # "deleted" /\ Write(ajob[a], "failed", "failed")
    /\ ApiEnd(a, {})
    /\ UNCHANGED <<sessions, owner, attempts, taskVars, workerVars, history>>

\* The API instance dies, or a reload of a deleted row raises.
ApiCrash(a) ==
    /\ apc[a] # "idle"
    /\ ApiEnd(a, {})
    /\ UNCHANGED <<jobVars, taskVars, workerVars, history>>

-----------------------------------------------------------------------------
(* Cloud Tasks, as the code relies on it.                                  *)

\* A worker thread receives a delivery of j's task.
StartHandler(w, j) ==
    /\ pc[w] = "idle"
    /\ pc' = [pc EXCEPT ![w] = "read"]
    /\ job' = [job EXCEPT ![w] = j]
    /\ attached' = [attached EXCEPT ![w] = TRUE]
    /\ held' = [held EXCEPT ![w] = 0]
    /\ reports' = [reports EXCEPT ![w] = 0]

Deliver(w, j) ==
    /\ task[j] = "waiting"
    /\ left[j] > 0
    /\ task' = [task EXCEPT ![j] = "dispatched"]
    /\ left' = [left EXCEPT ![j] = @ - 1]
    /\ StartHandler(w, j)
    /\ UNCHANGED <<jobVars, dups, apiVars, history>>

\* Delivery is at least once: a second copy of a delivery under way.
DeliverDuplicate(w, j) ==
    /\ task[j] = "dispatched"
    /\ dups[j] < MaxDuplicates
    /\ dups' = [dups EXCEPT ![j] = @ + 1]
    /\ StartHandler(w, j)
    /\ UNCHANGED <<jobVars, task, left, apiVars, history>>

\* The queue takes a 2xx answer as the end of the task, and anything else as
\* a reason to deliver it again while deliveries are left.
QueueAck(j) == task' = [task EXCEPT ![j] = "gone"]

QueueNack(j) ==
    task' = [task EXCEPT ![j] =
                IF @ = "gone" \/ left[j] = 0 THEN "gone" ELSE "waiting"]

\* The handler ends; its answer counts only while the queue waits for it.
Finish(w) ==
    /\ pc' = [pc EXCEPT ![w] = "idle"]
    /\ job' = [job EXCEPT ![w] = None]
    /\ attached' = [attached EXCEPT ![w] = FALSE]
    /\ held' = [held EXCEPT ![w] = 0]
    /\ reports' = [reports EXCEPT ![w] = 0]

Ack(w) ==
    /\ Finish(w)
    /\ IF attached[w] THEN QueueAck(job[w]) ELSE UNCHANGED task

Nack(w) ==
    /\ Finish(w)
    /\ IF attached[w] THEN QueueNack(job[w]) ELSE UNCHANGED task

\* The queue stops waiting: the dispatch deadline, or a lost connection.  The
\* handler's thread is not told and runs on.
CutDelivery(w) ==
    /\ attached[w]
    /\ attached' = [attached EXCEPT ![w] = FALSE]
    /\ held' = [held EXCEPT ![w] = 0]
    /\ QueueNack(job[w])
    /\ cut' = cut \cup {job[w]}
    /\ UNCHANGED <<jobVars, left, dups, pc, job, reports, apiVars, unsure>>

DeadlinePasses(w) == held[w] = Deadline /\ CutDelivery(w)

-----------------------------------------------------------------------------
(* POST /internal/tasks/enrichment: the worker's handler.                  *)

Goto(w, where) ==
    /\ pc' = [pc EXCEPT ![w] = where]
    /\ UNCHANGED <<job, attached, held, reports, task>>

\* A job that is missing or terminal is acknowledged without work.
WorkerRead(w) ==
    /\ pc[w] = "read"
    /\ CASE status[job[w]] = "queued" -> Goto(w, "claim")
         [] status[job[w]] = "running" -> Goto(w, "requeue")
         [] OTHER -> Ack(w)
    /\ UNCHANGED <<jobVars, left, dups, apiVars, history>>

\* requeue_if_stale, or "already_running" with a 200.
WorkerRequeueIfStale(w) ==
    /\ pc[w] = "requeue"
    /\ \/ /\ status[job[w]] = "running"
          /\ IsStale(job[w])
          /\ Write(job[w], "queued", "retrying")
          /\ Goto(w, "claim")
       \/ /\ ~(status[job[w]] = "running" /\ IsStale(job[w]))
          /\ Ack(w)
          /\ RowUnchanged
    /\ UNCHANGED <<sessions, owner, attempts, left, dups, apiVars, history>>

\* Mutant: the claim trusts the status read before it.
WorkerClaimUnguarded(w) ==
    /\ pc[w] = "claim"
    /\ Write(job[w], "running", "starting")
    /\ attempts' = [attempts EXCEPT ![job[w]] = @ + 1]
    /\ Goto(w, "load")
    /\ UNCHANGED <<sessions, owner, left, dups, apiVars, history>>

\* claim: queued -> running, for one caller only.
WorkerClaim(w) ==
    /\ pc[w] = "claim"
    /\ \/ /\ status[job[w]] = "queued"
          /\ Write(job[w], "running", "starting")
          /\ attempts' = [attempts EXCEPT ![job[w]] = @ + 1]
          /\ Goto(w, "load")
       \/ /\ status[job[w]] # "queued"
          /\ Ack(w)
          /\ UNCHANGED attempts
          /\ RowUnchanged
    /\ UNCHANGED <<sessions, owner, left, dups, apiVars, history>>

\* claim's closing get: the row may have been deleted since.
WorkerLoad(w) ==
    /\ pc[w] = "load"
    /\ \/ status[job[w]] = "deleted" /\ Ack(w)
       \/ status[job[w]] # "deleted" /\ Goto(w, "run")
    /\ UNCHANGED <<jobVars, left, dups, apiVars, history>>

\* The progress callback of run_session_enrichment: set_stage.
WorkerSetStage(w) ==
    /\ pc[w] = "run"
    /\ status[job[w]] # "deleted"
    /\ reports[w] < MaxStages
    /\ reports' = [reports EXCEPT ![w] = @ + 1]
    /\ Write(job[w], status[job[w]], "working")
    /\ UNCHANGED <<sessions, owner, attempts, taskVars, pc, job, attached,
                   held, apiVars, history>>

\* Any write through the job object reloads it first: ObjectDeletedError, 500.
WorkerRowDeleted(w) ==
    /\ pc[w] = "run"
    /\ status[job[w]] = "deleted"
    /\ Nack(w)
    /\ UNCHANGED <<jobVars, left, dups, apiVars, history>>

\* run_session_enrichment returned: complete.
WorkerComplete(w) ==
    /\ pc[w] = "run"
    /\ status[job[w]] # "deleted"
    /\ Write(job[w], "completed", "completed")
    /\ Goto(w, "reply")
    /\ UNCHANGED <<sessions, owner, attempts, left, dups, apiVars, history>>

\* It raised ValueError, an error that is not retryable, or a retryable one
\* on the last attempt: fail_permanently.
WorkerFail(w) ==
    /\ pc[w] = "run"
    /\ status[job[w]] # "deleted"
    /\ Write(job[w], "failed", "failed")
    /\ Goto(w, "reply")
    /\ UNCHANGED <<sessions, owner, attempts, left, dups, apiVars, history>>

\* It raised a retryable error with attempts to spare: requeue_retryable.
WorkerRequeue(w) ==
    /\ pc[w] = "run"
    /\ status[job[w]] # "deleted"
    /\ attempts[job[w]] < MaxAttempts
    /\ IndexAllows(job[w])
    /\ Write(job[w], "queued", "retrying")
    /\ Goto(w, "replyRetry")
    /\ UNCHANGED <<sessions, owner, attempts, left, dups, apiVars, history>>

\* ... which the unique index refuses when the session has another active
\* job: the IntegrityError leaves the handler as a 500.
WorkerRequeueConflict(w) ==
    /\ pc[w] = "run"
    /\ status[job[w]] # "deleted"
    /\ attempts[job[w]] < MaxAttempts
    /\ ~IndexAllows(job[w])
    /\ Nack(w)
    /\ UNCHANGED <<jobVars, left, dups, apiVars, history>>

\* The answer: 500 when the row is gone, 503 for a retry when the attempts
\* read again still allow one, else 200.
WorkerReply(w) ==
    /\ pc[w] \in {"reply", "replyRetry"}
    /\ IF \/ status[job[w]] = "deleted"
          \/ pc[w] = "replyRetry" /\ attempts[job[w]] < MaxAttempts
       THEN Nack(w)
       ELSE Ack(w)
    /\ UNCHANGED <<jobVars, left, dups, apiVars, history>>

\* The instance dies under the handler.
WorkerCrash(w) ==
    /\ pc[w] # "idle"
    /\ Nack(w)
    /\ UNCHANGED <<jobVars, left, dups, apiVars, history>>

-----------------------------------------------------------------------------
(* GET /jobs/{id}, DELETE /sessions/{id}, and time.                        *)

\* Mutant: polling reports without ending abandoned work.
PollReadOnly(j) ==
    /\ sessions # {}
    /\ watched' = IF status[j] \in TerminalStatuses
                  THEN watched \ {j} ELSE watched
    /\ UNCHANGED <<jobVars, taskVars, workerVars, apc, asession, ajob, history>>

\* Polling ends abandoned work before it answers; a client stops polling when
\* the answer is terminal, and goes on after an error (404, timeout).
Poll(j) ==
    /\ sessions # {}
    /\ FailIfStale(j)
    /\ watched' = IF status'[j] \in TerminalStatuses
                  THEN watched \ {j} ELSE watched
    /\ UNCHANGED <<sessions, owner, attempts, taskVars, workerVars, apc,
                   asession, ajob, history>>

\* The job rows of the session go with it (ON DELETE CASCADE).
DeleteSession(s) ==
    /\ s \in sessions
    /\ sessions' = sessions \ {s}
    /\ status' = [j \in Jobs |-> IF owner[j] = s /\ status[j] # "absent"
                                 THEN "deleted" ELSE status[j]]
    /\ UNCHANGED <<owner, stage, attempts, age, taskVars, workerVars, apiVars,
                   history>>

\* One unit of time.  No query reads updated_at of a row that is not active,
\* and the queue holds no delivery beyond its deadline.
Tick ==
    /\ \A w \in Workers : attached[w] => held[w] < Deadline
    /\ age' = [j \in Jobs |-> IF IsActive(j) /\ age[j] < StaleAfter
                              THEN age[j] + 1 ELSE age[j]]
    /\ held' = [w \in Workers |-> IF attached[w] THEN held[w] + 1 ELSE held[w]]
    /\ UNCHANGED <<sessions, owner, status, stage, attempts, taskVars, pc, job,
                   attached, reports, apiVars, history>>

-----------------------------------------------------------------------------
ApiStep(a) ==
    \/ ApiBegin(a) \/ ApiExpire(a) \/ ApiLookup(a) \/ ApiInsert(a)
    \/ ApiRelookup(a) \/ ApiDispatch(a) \/ ApiDispatchRefused(a)
    \/ ApiDispatchUnsure(a) \/ ApiMarkEnqueueFailed(a) \/ ApiCrash(a)

WorkerStep(w) ==
    \/ WorkerRead(w) \/ WorkerRequeueIfStale(w) \/ WorkerClaim(w)
    \/ WorkerLoad(w) \/ WorkerSetStage(w) \/ WorkerRowDeleted(w)
    \/ WorkerComplete(w) \/ WorkerFail(w) \/ WorkerRequeue(w)
    \/ WorkerRequeueConflict(w) \/ WorkerReply(w) \/ WorkerCrash(w)

QueueStep(w) ==
    \/ \E j \in Jobs : Deliver(w, j) \/ DeliverDuplicate(w, j)
    \/ CutDelivery(w)

Next ==
    \/ \E a \in Apis : ApiStep(a)
    \/ \E w \in Workers : WorkerStep(w) \/ QueueStep(w)
    \/ \E j \in Jobs : Poll(j)
    \/ \E s \in Sessions : DeleteSession(s)
    \/ Tick

Spec == Init /\ [][Next]_vars

\* The clock and the queue's deadline never stop, and a client that was given
\* a job polls it until it sees it terminal (enrichment-progress.tsx).  Nothing
\* is assumed of the API's or the worker's own progress.
Fairness ==
    /\ WF_vars(Tick)
    /\ \A w \in Workers : WF_vars(DeadlinePasses(w))
    /\ \A j \in Jobs : WF_vars(j \in watched /\ Poll(j))

FairSpec == Spec /\ Fairness

-----------------------------------------------------------------------------
(* What the job table promises.                                            *)

\* From its claim until its last write, a worker is executing its job.
Executing(w) == pc[w] \in {"load", "run"}

\* A worker whose delivery the queue still waits for never has its job judged
\* abandoned: neither requeue_if_stale nor fail_if_stale can match the row.
LeaseOutlivesDelivery ==
    \A w \in Workers : Executing(w) /\ attached[w] => ~IsStale(job[w])

\* Two executions of one job overlap only after the queue gave up a delivery
\* of that job while its handler was still running.
ExecutionsOverlapOnlyAfterCut ==
    \A v, w \in Workers :
        v # w /\ Executing(v) /\ Executing(w) /\ job[v] = job[w] => job[v] \in cut

\* Jobs whose queue-side and database-side histories may have come apart.
Disturbed == cut \cup unsure

\* Two jobs of one session never execute at once either, unless one of them
\* was cut short like that or was enqueued in doubt.
SessionsExecuteOneJob ==
    \A v, w \in Workers :
        /\ Executing(v) /\ Executing(w)
        /\ job[v] # job[w]
        /\ owner[job[v]] = owner[job[w]]
        => {job[v], job[w]} \cap Disturbed # {}

\* A session has at most one queued or running job, whatever the start
\* requests and the late writes of earlier jobs do.
OneActiveJob ==
    \A j, k \in Jobs :
        j # k /\ IsActive(j) /\ IsActive(k) => owner[j] # owner[k]

\* A job leaves "completed" or "failed" only by deletion, or after the queue
\* cut one of its deliveries short or its enqueueing ended in doubt.
TerminalUnlessDisturbed ==
    [][\A j \in Jobs :
        status[j] \in TerminalStatuses /\ status'[j] # status[j]
            => status'[j] = "deleted" \/ j \in Disturbed']_vars

\* A client that was given a job sees it end, whatever the queue, the worker
\* and the API do or fail to do, unless the session is deleted meanwhile.
ClientsSeeTheEnd ==
    \A j \in Jobs :
        j \in watched ~> j \notin watched \/ status[j] = "deleted"

\* The table, its queue and its processes implement the job lifecycle.
Lifecycle == INSTANCE JobLifecycle WITH disturbed <- Disturbed

ImplementsLifecycle == Lifecycle!Spec

\* docs/tier-2-technical-understanding.md 4.4 and TERMINAL_STATUSES: completed
\* and failed are terminal.
TerminalIsFinal ==
    [][\A j \in Jobs :
        status[j] \in TerminalStatuses
            => status'[j] \in {status[j], "deleted"}]_vars
=============================================================================
