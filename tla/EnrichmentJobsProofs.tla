------------------------ MODULE EnrichmentJobsProofs ------------------------
(***************************************************************************)
(* Proofs about EnrichmentJobs for every set of jobs, sessions, start      *)
(* requests and workers, and for every limit that satisfies the module's   *)
(* assumptions.                                                            *)
(***************************************************************************)
EXTENDS EnrichmentJobs, TLAPS

-----------------------------------------------------------------------------
(* The inductive invariant, in named parts.                                *)

\* A claim refreshes updated_at, so the row of a live delivery's job is never
\* older than the delivery.
AgeBelowHeld ==
    \A w \in Workers : Executing(w) /\ attached[w] => age[job[w]] <= held[w]

\* A handler runs on without its delivery only after a cut.
DetachedIsCut ==
    \A w \in Workers : pc[w] # "idle" /\ ~attached[w] => job[w] \in cut

\* Nothing is delivered, and so nothing executes, before it was enqueued, and
\* nothing is enqueued before its row exists.
EnqueuedAfterInsert ==
    /\ \A w \in Workers : pc[w] # "idle" => task[job[w]] # "none"
    /\ \A j \in Jobs : task[j] # "none" => status[j] # "absent"

\* The row of an executing job is not up for another claim.
ExecutingIsNotQueued ==
    \A w \in Workers :
        Executing(w) /\ job[w] \notin cut => status[job[w]] # "queued"

\* ... and is still running when its enqueueing was certain, too.
ExecutingIsRunning ==
    \A w \in Workers :
        Executing(w) /\ job[w] \notin Disturbed
            => status[job[w]] \in {"running", "deleted"}

Holds(a, j) == apc[a] \in {"dispatch", "mark"} /\ ajob[a] = j

\* A job has one start request at most between its INSERT and its dispatch,
\* and until then nobody else knows of it but those who end stale jobs.
OneDispatcher ==
    \A a, b \in Apis : \A j \in Jobs : Holds(a, j) /\ Holds(b, j) => a = b

DispatcherKnowsFate ==
    \A a \in Apis : \A j \in Jobs :
        Holds(a, j) =>
            /\ status[j] # "absent"
            /\ apc[a] = "dispatch" => task[j] = "none"
            /\ j \notin unsure =>
                /\ task[j] = "none"
                /\ status[j] \in {"queued", "failed", "deleted"}

\* Rows come and go with their session.
RowsFollowSession ==
    \A j \in Jobs :
        /\ status[j] = "deleted" => owner[j] \notin sessions
        /\ status[j] \in ActiveStatuses \cup TerminalStatuses
              => owner[j] \in sessions

IInv ==
    /\ TypeOK
    /\ AgeBelowHeld
    /\ DetachedIsCut
    /\ EnqueuedAfterInsert
    /\ ExecutingIsNotQueued
    /\ ExecutingIsRunning
    /\ ExecutionsOverlapOnlyAfterCut
    /\ OneDispatcher
    /\ DispatcherKnowsFate
    /\ RowsFollowSession
    /\ OneActiveJob
    /\ SessionsExecuteOneJob

-----------------------------------------------------------------------------
\* The initial values have their types.
LEMMA TypeInit == Init => TypeOK
  BY NoneAssumption, BoundsAssumption DEF Init, TypeOK, ActiveStatuses, TerminalStatuses, Stages

\* Ending a handler idles its thread, and either answer does to the task what
\* the queue makes of it.
LEMMA AnswerEffect ==
  ASSUME TypeOK, NEW w \in Workers, pc[w] # "idle", Ack(w) \/ Nack(w)
  PROVE  /\ pc' = [pc EXCEPT ![w] = "idle"]
         /\ job' = [job EXCEPT ![w] = None]
         /\ attached' = [attached EXCEPT ![w] = FALSE]
         /\ held' = [held EXCEPT ![w] = 0]
         /\ reports' = [reports EXCEPT ![w] = 0]
         /\ \/ task' = task
            \/ task' = [task EXCEPT ![job[w]] = "gone"]
            \/ task' = [task EXCEPT ![job[w]] = "waiting"]
  BY DEF Ack, Nack, Finish, QueueAck, QueueNack, TypeOK

WorkerTyped ==
    /\ pc \in [Workers -> {"idle", "read", "requeue", "claim", "load", "run",
                             "reply", "replyRetry"}]
    /\ job \in [Workers -> Jobs \cup {None}]
    /\ attached \in [Workers -> BOOLEAN]
    /\ \A w \in Workers : /\ pc[w] # "idle" => job[w] \in Jobs
                          /\ attached[w] => pc[w] # "idle"
    /\ held \in [Workers -> 0..Deadline]
    /\ reports \in [Workers -> 0..MaxStages]
    /\ task \in [Jobs -> {"none", "waiting", "dispatched", "gone"}]

\* Ending a handler keeps the types of the worker's variables.
LEMMA AnswerType ==
  ASSUME TypeOK, NEW w \in Workers, pc[w] # "idle", Ack(w) \/ Nack(w)
  PROVE  WorkerTyped'
<1>1. /\ pc' = [pc EXCEPT ![w] = "idle"]
      /\ job' = [job EXCEPT ![w] = None]
      /\ attached' = [attached EXCEPT ![w] = FALSE]
      /\ held' = [held EXCEPT ![w] = 0]
      /\ reports' = [reports EXCEPT ![w] = 0]
      /\ \/ task' = task
         \/ task' = [task EXCEPT ![job[w]] = "gone"]
         \/ task' = [task EXCEPT ![job[w]] = "waiting"]
  BY AnswerEffect
<1>2. QED
  BY <1>1, BoundsAssumption DEF TypeOK, WorkerTyped

\* So does going on to another line of the handler.
LEMMA GotoType ==
  ASSUME TypeOK, NEW w \in Workers, pc[w] # "idle",
         NEW where \in {"requeue", "claim", "load", "run", "reply", "replyRetry"},
         Goto(w, where)
  PROVE  WorkerTyped'
  BY DEF Goto, TypeOK, WorkerTyped

RowTyped ==
    /\ status \in [Jobs -> {"queued", "running", "completed", "failed",
                             "absent", "deleted"}]
    /\ stage \in [Jobs -> Stages]
    /\ age \in [Jobs -> 0..StaleAfter]

\* _update keeps the types of the row it writes.
LEMMA WriteType ==
  ASSUME TypeOK, NEW j \in Jobs,
         NEW st \in {"queued", "running", "completed", "failed", "absent", "deleted"},
         NEW sg \in Stages,
         Write(j, st, sg)
  PROVE  RowTyped'
  BY BoundsAssumption
  DEF Write, TypeOK, RowTyped, ActiveStatuses, TerminalStatuses, Stages

\* Every step keeps the types.
LEMMA TypeNext == TypeOK /\ [Next]_vars => TypeOK'
<1> SUFFICES ASSUME TypeOK, [Next]_vars PROVE TypeOK'
  OBVIOUS
<1> USE NoneAssumption, BoundsAssumption DEF TypeOK, ActiveStatuses, TerminalStatuses, Stages
<1>1. ASSUME NEW a \in Apis, ApiStep(a) PROVE TypeOK'
  <2>1. CASE ApiBegin(a)
    BY <2>1 DEF ApiBegin, jobVars, taskVars, workerVars, history, ActiveJobs, IsActive
  <2>2. CASE ApiExpire(a)
    BY <2>2 DEF ApiExpire, FailIfStale, Write, RowUnchanged, ApiGoto, taskVars, workerVars, history, IsActive
  <2>3. CASE ApiLookup(a)
    BY <2>3 DEF ApiLookup, ActiveJobs, ApiEnd, ApiGoto, jobVars, taskVars, workerVars, history
  <2>4. CASE ApiInsert(a)
    BY <2>4 DEF ApiInsert, Write, RowUnchanged, ApiGoto, taskVars, workerVars, history
  <2>5. CASE ApiRelookup(a)
    BY <2>5 DEF ApiRelookup, ActiveJobs, ApiEnd, jobVars, taskVars, workerVars, history
  <2>6. CASE ApiDispatch(a)
    BY <2>6 DEF ApiDispatch, ApiEnd, jobVars, workerVars, history
  <2>7. CASE ApiDispatchRefused(a)
    BY <2>7 DEF ApiDispatchRefused, ApiGoto, jobVars, taskVars, workerVars, history
  <2>8. CASE ApiDispatchUnsure(a)
    BY <2>8 DEF ApiDispatchUnsure, ApiGoto, jobVars, workerVars
  <2>9. CASE ApiMarkEnqueueFailed(a)
    BY <2>9 DEF ApiMarkEnqueueFailed, Write, RowUnchanged, ApiEnd, taskVars, workerVars, history
  <2>10. CASE ApiCrash(a)
    BY <2>10 DEF ApiCrash, ApiEnd, jobVars, taskVars, workerVars, history
  <2>11. QED
    BY <1>1, <2>1, <2>2, <2>3, <2>4, <2>5, <2>6, <2>7, <2>8, <2>9, <2>10 DEF ApiStep
<1>2. ASSUME NEW w \in Workers, WorkerStep(w) PROVE TypeOK'
  <2>1. pc[w] # "idle" /\ job[w] \in Jobs
    BY <1>2 DEF WorkerStep, WorkerRead, WorkerRequeueIfStale, WorkerClaim, WorkerLoad,
      WorkerSetStage, WorkerRowDeleted, WorkerComplete, WorkerFail, WorkerRequeue,
      WorkerRequeueConflict, WorkerReply, WorkerCrash
  <2>2. UNCHANGED <<sessions, owner, left, dups, apiVars, history>>
    BY <1>2 DEF WorkerStep, WorkerRead, WorkerRequeueIfStale, WorkerClaim, WorkerLoad,
      WorkerSetStage, WorkerRowDeleted, WorkerComplete, WorkerFail, WorkerRequeue,
      WorkerRequeueConflict, WorkerReply, WorkerCrash, jobVars, taskVars
  <2>3. attempts' \in [Jobs -> Nat]
    BY <1>2, <2>1 DEF WorkerStep, WorkerRead, WorkerRequeueIfStale, WorkerClaim, WorkerLoad,
      WorkerSetStage, WorkerRowDeleted, WorkerComplete, WorkerFail, WorkerRequeue,
      WorkerRequeueConflict, WorkerReply, WorkerCrash, jobVars
  <2>4. RowTyped'
    <3>1. \/ RowUnchanged
          \/ \E sg \in Stages : \E st \in {"queued", "running", "completed", "failed",
                                      "absent", "deleted"} : Write(job[w], st, sg)
      <4>1. CASE WorkerSetStage(w)
        <5>1. status[job[w]] \in {"queued", "running", "completed", "failed", "absent", "deleted"}
          BY <2>1 DEF TypeOK, ActiveStatuses, TerminalStatuses
        <5>2. "working" \in Stages /\ Write(job[w], status[job[w]], "working")
          BY <4>1 DEF WorkerSetStage, Stages
        <5>3. QED
          BY <5>1, <5>2
      <4>2. CASE ~WorkerSetStage(w)
        BY <1>2, <4>2 DEF WorkerStep, WorkerRead, WorkerRequeueIfStale, WorkerClaim, WorkerLoad,
          WorkerRowDeleted, WorkerComplete, WorkerFail, WorkerRequeue,
          WorkerRequeueConflict, WorkerReply, WorkerCrash, jobVars, RowUnchanged, Stages
      <4>3. QED
        BY <4>1, <4>2
    <3>2. QED
      BY <2>1, <3>1, WriteType DEF RowTyped, RowUnchanged
  <2>5. WorkerTyped'
    BY <1>2, <2>1, AnswerType, GotoType DEF WorkerStep, WorkerRead, WorkerRequeueIfStale, WorkerClaim, WorkerLoad,
      WorkerSetStage, WorkerRowDeleted, WorkerComplete, WorkerFail, WorkerRequeue,
      WorkerRequeueConflict, WorkerReply, WorkerCrash, taskVars, WorkerTyped
  <2>6. QED
    BY <2>2, <2>3, <2>4, <2>5 DEF RowTyped, WorkerTyped, apiVars, history
<1>3. ASSUME NEW w \in Workers, QueueStep(w) PROVE TypeOK'
  <2>1. ASSUME NEW j \in Jobs, Deliver(w, j) PROVE TypeOK'
    BY <2>1 DEF Deliver, StartHandler, jobVars, apiVars, history
  <2>2. ASSUME NEW j \in Jobs, DeliverDuplicate(w, j) PROVE TypeOK'
    BY <2>2 DEF DeliverDuplicate, StartHandler, jobVars, apiVars, history
  <2>3. CASE CutDelivery(w)
    BY <2>3 DEF CutDelivery, QueueNack, jobVars, apiVars
  <2>4. QED
    BY <1>3, <2>1, <2>2, <2>3 DEF QueueStep
<1>4. ASSUME NEW j \in Jobs, Poll(j) PROVE TypeOK'
  BY <1>4 DEF Poll, FailIfStale, Write, RowUnchanged, IsActive, taskVars, workerVars, apiVars, history
<1>5. ASSUME NEW s \in Sessions, DeleteSession(s) PROVE TypeOK'
  BY <1>5 DEF DeleteSession, taskVars, workerVars, apiVars, history
<1>6. CASE Tick
  BY <1>6 DEF Tick, IsActive, taskVars, apiVars, history
<1>7. CASE UNCHANGED vars
  BY <1>7 DEF vars, jobVars, taskVars, workerVars, apiVars, history
<1>8. QED
  BY <1>1, <1>2, <1>3, <1>4, <1>5, <1>6, <1>7 DEF Next

-----------------------------------------------------------------------------
(* What a step of each process can do, said once for all its actions.      *)

\* A handler works on its own job's row and task only.
WorkerFrame(w) ==
    /\ UNCHANGED <<sessions, owner, apc, ajob, cut, unsure>>
    /\ \A v \in Workers \ {w} :
        /\ pc'[v] = pc[v]
        /\ job'[v] = job[v]
        /\ attached'[v] = attached[v]
        /\ held'[v] = held[v]
    /\ pc'[w] # "idle" => /\ job'[w] = job[w]
                          /\ attached'[w] = attached[w]
                          /\ held'[w] = held[w]
    /\ \A j \in Jobs :
        /\ j # job[w] => status'[j] = status[j] /\ task'[j] = task[j]
        /\ age'[j] \in {age[j], 0}
        /\ task[j] # "none" => task'[j] # "none"

\* Its execution starts with a claim and ends with its last write; other than
\* that it changes the status only by requeueing a stale row.
WorkerMoves(w) ==
    LET j == job[w] IN
    \/ /\ ~Executing(w) /\ ~Executing(w)'
       /\ \/ status'[j] = status[j]
          \/ status[j] = "running" /\ IsStale(j) /\ status'[j] = "queued"
    \/ /\ ~Executing(w) /\ Executing(w)'
       /\ status[j] = "queued" /\ status'[j] = "running" /\ age'[j] = 0
    \/ /\ Executing(w) /\ Executing(w)'
       /\ status'[j] = status[j]
    \/ /\ Executing(w) /\ ~Executing(w)'
       /\ \/ status'[j] = status[j]
          \/ /\ status[j] # "deleted"
             /\ status'[j] \in {"completed", "failed"}
          \/ /\ status[j] # "deleted"
             /\ status'[j] = "queued"
             /\ IndexAllows(j)

\* Every line of the handler stays within that frame.
LEMMA WorkerStepFrame ==
  ASSUME TypeOK, NEW w \in Workers, WorkerStep(w)
  PROVE  /\ pc[w] # "idle"
         /\ job[w] \in Jobs
         /\ WorkerFrame(w)
<1>1. pc[w] # "idle" /\ job[w] \in Jobs
  BY DEF TypeOK, WorkerStep, WorkerRead, WorkerRequeueIfStale, WorkerClaim, WorkerLoad,
    WorkerSetStage, WorkerRowDeleted, WorkerComplete, WorkerFail, WorkerRequeue,
    WorkerRequeueConflict, WorkerReply, WorkerCrash
<1>2. /\ UNCHANGED <<sessions, owner, apc, ajob, cut, unsure>>
      /\ \/ UNCHANGED <<status, age>>
         \/ \E st, sg : Write(job[w], st, sg)
      /\ \/ Ack(w) \/ Nack(w)
         \/ \E where : Goto(w, where)
         \/ UNCHANGED <<pc, job, attached, held, task>>
  BY DEF WorkerStep, WorkerRead, WorkerRequeueIfStale, WorkerClaim, WorkerLoad,
    WorkerSetStage, WorkerRowDeleted, WorkerComplete, WorkerFail, WorkerRequeue,
    WorkerRequeueConflict, WorkerReply, WorkerCrash, jobVars, taskVars, apiVars, history, RowUnchanged
<1>3. \A j \in Jobs : /\ j # job[w] => status'[j] = status[j]
                     /\ age'[j] \in {age[j], 0}
  BY <1>1, <1>2 DEF Write, TypeOK
<1>4. /\ \A v \in Workers \ {w} : /\ pc'[v] = pc[v]
                                   /\ job'[v] = job[v]
                                   /\ attached'[v] = attached[v]
                                   /\ held'[v] = held[v]
      /\ pc'[w] # "idle" => /\ job'[w] = job[w]
                            /\ attached'[w] = attached[w]
                            /\ held'[w] = held[w]
      /\ \A j \in Jobs :
          /\ j # job[w] => task'[j] = task[j]
          /\ task[j] # "none" => task'[j] # "none"
  <2>1. CASE Ack(w) \/ Nack(w)
    <3>1. /\ pc' = [pc EXCEPT ![w] = "idle"]
          /\ job' = [job EXCEPT ![w] = None]
          /\ attached' = [attached EXCEPT ![w] = FALSE]
          /\ held' = [held EXCEPT ![w] = 0]
          /\ \/ task' = task
             \/ task' = [task EXCEPT ![job[w]] = "gone"]
             \/ task' = [task EXCEPT ![job[w]] = "waiting"]
      BY <1>1, <2>1, AnswerEffect
    <3>2. QED
      BY <1>1, <3>1 DEF TypeOK
  <2>2. CASE \E where : Goto(w, where)
    BY <2>2 DEF Goto, TypeOK
  <2>3. CASE UNCHANGED <<pc, job, attached, held, task>>
    BY <2>3
  <2>4. QED
    BY <1>2, <2>1, <2>2, <2>3
<1>5. QED
  BY <1>1, <1>2, <1>3, <1>4 DEF WorkerFrame

\* Every line of the handler is one of those moves.
LEMMA WorkerStepMoves ==
  ASSUME TypeOK, NEW w \in Workers, WorkerStep(w)
  PROVE  WorkerMoves(w)
<1> USE DEF WorkerMoves, Executing
<1>0. job[w] \in Jobs
  BY WorkerStepFrame
<1>1. CASE WorkerRead(w)
  BY <1>0, <1>1, AnswerEffect DEF WorkerRead, Goto, TypeOK, jobVars
<1>2. CASE WorkerRequeueIfStale(w)
  BY <1>0, <1>2, AnswerEffect DEF WorkerRequeueIfStale, Goto, TypeOK, Write, RowUnchanged
<1>3. CASE WorkerClaim(w)
  BY <1>0, <1>3, AnswerEffect DEF WorkerClaim, Goto, TypeOK, Write, RowUnchanged
<1>4. CASE WorkerLoad(w)
  BY <1>0, <1>4, AnswerEffect DEF WorkerLoad, Goto, TypeOK, jobVars
<1>5. CASE WorkerSetStage(w)
  BY <1>0, <1>5 DEF WorkerSetStage, TypeOK, Write
<1>6. CASE WorkerRowDeleted(w)
  BY <1>0, <1>6, AnswerEffect DEF WorkerRowDeleted, TypeOK, jobVars
<1>7. CASE WorkerComplete(w)
  BY <1>0, <1>7 DEF WorkerComplete, Goto, TypeOK, Write
<1>8. CASE WorkerFail(w)
  BY <1>0, <1>8 DEF WorkerFail, Goto, TypeOK, Write
<1>9. CASE WorkerRequeue(w)
  BY <1>0, <1>9 DEF WorkerRequeue, Goto, TypeOK, Write
<1>10. CASE WorkerRequeueConflict(w)
  BY <1>0, <1>10, AnswerEffect DEF WorkerRequeueConflict, TypeOK, jobVars
<1>11. CASE WorkerReply(w)
  BY <1>0, <1>11, AnswerEffect DEF WorkerReply, TypeOK, jobVars
<1>12. CASE WorkerCrash(w)
  BY <1>0, <1>12, AnswerEffect DEF WorkerCrash, TypeOK, jobVars
<1>13. QED
  BY <1>1, <1>2, <1>3, <1>4, <1>5, <1>6, <1>7, <1>8, <1>9, <1>10, <1>11, <1>12
  DEF WorkerStep

\* A start request leaves the workers alone; it changes one row at most, by an
\* INSERT the index allows, by failing a stale job, or by the mark it owes.
ApiEffect(a) ==
    /\ UNCHANGED <<sessions, owner, pc, job, attached, held, cut>>
    /\ \/ unsure' = unsure
       \/ status' = status /\ \E j \in Jobs : unsure' = unsure \cup {j}
    /\ \A j \in Jobs :
        /\ task[j] # "none" => task'[j] = task[j]
        /\ task'[j] # task[j] => Holds(a, j)
        /\ age'[j] \in {age[j], 0}
        /\ status'[j] # status[j] =>
            \/ /\ status[j] = "absent" /\ status'[j] = "queued"
               /\ owner[j] \in sessions
               /\ IndexAllows(j)
            \/ IsActive(j) /\ IsStale(j) /\ status'[j] = "failed"
            \/ /\ Holds(a, j) /\ apc[a] = "mark"
               /\ status[j] # "deleted" /\ status'[j] = "failed"
    /\ \A j, k \in Jobs :
        status'[j] # status[j] /\ status'[k] # status[k] => j = k

\* Every line of the start request has that effect at most.
LEMMA ApiStepEffect ==
  ASSUME TypeOK, NEW a \in Apis, ApiStep(a)
  PROVE  ApiEffect(a)
<1> USE DEF ApiEffect, Holds, TypeOK
<1>1. CASE ApiExpire(a)
  BY <1>1 DEF ApiExpire, FailIfStale, Write, RowUnchanged, taskVars, workerVars, history
<1>2. CASE ApiInsert(a)
  BY <1>2 DEF ApiInsert, Write, RowUnchanged, taskVars, workerVars, history
<1>3. CASE ApiDispatch(a)
  BY <1>3 DEF ApiDispatch, jobVars, workerVars, history
<1>4. CASE ApiDispatchUnsure(a)
  BY <1>4 DEF ApiDispatchUnsure, jobVars, workerVars
<1>5. CASE ApiMarkEnqueueFailed(a)
  BY <1>5 DEF ApiMarkEnqueueFailed, Write, RowUnchanged, taskVars, workerVars, history
<1>6. CASE \/ ApiBegin(a) \/ ApiLookup(a) \/ ApiRelookup(a)
           \/ ApiDispatchRefused(a) \/ ApiCrash(a)
  BY <1>6 DEF ApiBegin, ApiLookup, ApiRelookup, ApiDispatchRefused, ApiCrash,
    jobVars, taskVars, workerVars, history
<1>7. QED
  BY <1>1, <1>2, <1>3, <1>4, <1>5, <1>6 DEF ApiStep

\* A start request comes to hold a job by its INSERT only, and passes from the
\* dispatch to the mark once a dispatch has failed.
ApiHolding(a) ==
    \A b \in Apis, j \in Jobs : Holds(b, j)' =>
        \/ /\ Holds(b, j)
           /\ apc'[b] = "dispatch" => apc[b] = "dispatch"
           /\ b = a /\ task'[j] # task[j] => apc'[b] = "mark" /\ j \in unsure'
        \/ /\ b = a
           /\ status[j] = "absent" /\ status'[j] = "queued"
           /\ task' = task /\ unsure' = unsure

\* Every line of the start request passes its job on like that.
LEMMA ApiStepHolding ==
  ASSUME TypeOK, NEW a \in Apis, ApiStep(a)
  PROVE  ApiHolding(a)
<1> USE DEF ApiHolding, Holds, TypeOK
<1>1. CASE ApiInsert(a)
  BY <1>1 DEF ApiInsert, Write, RowUnchanged, ApiGoto, taskVars, history
<1>2. CASE ApiDispatchUnsure(a)
  BY <1>2 DEF ApiDispatchUnsure, ApiGoto
<1>3. CASE ApiDispatchRefused(a)
  BY <1>3 DEF ApiDispatchRefused, ApiGoto, taskVars
<1>4. CASE ApiBegin(a)
  BY <1>4 DEF ApiBegin, taskVars, ActiveJobs
<1>5. CASE ApiExpire(a) \/ ApiLookup(a)
  BY <1>5 DEF ApiExpire, ApiLookup, ApiGoto, ApiEnd, taskVars
<1>6. CASE \/ ApiRelookup(a) \/ ApiDispatch(a) \/ ApiMarkEnqueueFailed(a)
           \/ ApiCrash(a)
  BY <1>6 DEF ApiRelookup, ApiDispatch, ApiMarkEnqueueFailed, ApiCrash, ApiEnd, taskVars
<1>7. QED
  BY <1>1, <1>2, <1>3, <1>4, <1>5, <1>6 DEF ApiStep


-----------------------------------------------------------------------------
(* Each part of the invariant is preserved by every step.                  *)

\* Claims start at age 0 and the clock ages row and delivery together.
LEMMA AgeNext == IInv /\ TypeOK' /\ Next => AgeBelowHeld'
<1> SUFFICES ASSUME IInv, TypeOK', Next PROVE AgeBelowHeld'
  OBVIOUS
<1> USE DEF IInv, TypeOK, AgeBelowHeld, Executing
<1>1. ASSUME NEW a \in Apis, ApiStep(a) PROVE AgeBelowHeld'
  BY <1>1, ApiStepEffect, SMTT(20) DEF ApiEffect
<1>2. ASSUME NEW w \in Workers, WorkerStep(w) PROVE AgeBelowHeld'
  <2> HIDE DEF TypeOK
  <2>1. job[w] \in Jobs /\ WorkerFrame(w) /\ WorkerMoves(w)
    BY <1>2, WorkerStepFrame, WorkerStepMoves
  <2>2. ASSUME NEW v \in Workers, Executing(v)', attached'[v]
        PROVE  age'[job'[v]] <= held'[v]
    <3>1. job'[v] = job[v] /\ attached[v] /\ held'[v] = held[v] /\ held[v] \in Nat
          /\ pc[v] # "idle" /\ job[v] \in Jobs /\ age[job[v]] \in Nat
      BY <2>1, <2>2 DEF WorkerFrame, TypeOK
    <3>2. CASE Executing(v)
      BY <2>1, <3>1, <3>2 DEF WorkerFrame
    <3>3. CASE ~Executing(v)
      <4>1. v = w
        BY <2>1, <2>2, <3>3 DEF WorkerFrame
      <4>2. QED
        BY <2>1, <2>2, <3>1, <3>3, <4>1 DEF WorkerMoves
    <3>4. QED
      BY <3>2, <3>3
  <2>3. QED
    BY <2>2
<1>3. ASSUME NEW w \in Workers, NEW j \in Jobs, Deliver(w, j) \/ DeliverDuplicate(w, j)
      PROVE  AgeBelowHeld'
  BY <1>3 DEF Deliver, DeliverDuplicate, StartHandler, jobVars, apiVars, history
<1>4. ASSUME NEW w \in Workers, CutDelivery(w) PROVE AgeBelowHeld'
  BY <1>4 DEF CutDelivery, QueueNack, jobVars, apiVars
<1>5. ASSUME NEW j \in Jobs, Poll(j) PROVE AgeBelowHeld'
  BY <1>5 DEF Poll, FailIfStale, Write, RowUnchanged, taskVars, workerVars, apiVars, history
<1>6. ASSUME NEW s \in Sessions, DeleteSession(s) PROVE AgeBelowHeld'
  BY <1>6 DEF DeleteSession, taskVars, workerVars, apiVars, history
<1>7. CASE Tick
  BY <1>7, BoundsAssumption DEF Tick, taskVars, apiVars, history
<1>8. QED
  BY <1>1, <1>2, <1>3, <1>4, <1>5, <1>6, <1>7 DEF Next, QueueStep

\* Only a cut detaches a handler that goes on.
LEMMA DetachedNext == IInv /\ TypeOK' /\ Next => DetachedIsCut'
<1> SUFFICES ASSUME IInv, TypeOK', Next PROVE DetachedIsCut'
  OBVIOUS
<1> USE DEF IInv, TypeOK, DetachedIsCut
<1>1. ASSUME NEW a \in Apis, ApiStep(a) PROVE DetachedIsCut'
  BY <1>1, ApiStepEffect DEF ApiEffect
<1>2. ASSUME NEW w \in Workers, WorkerStep(w) PROVE DetachedIsCut'
  BY <1>2, WorkerStepFrame, WorkerStepMoves DEF WorkerFrame, WorkerMoves
<1>3. ASSUME NEW w \in Workers, NEW j \in Jobs, Deliver(w, j) \/ DeliverDuplicate(w, j)
      PROVE  DetachedIsCut'
  BY <1>3 DEF Deliver, DeliverDuplicate, StartHandler, jobVars, apiVars, history
<1>4. ASSUME NEW w \in Workers, CutDelivery(w) PROVE DetachedIsCut'
  BY <1>4 DEF CutDelivery, QueueNack, jobVars, apiVars
<1>5. ASSUME NEW j \in Jobs, Poll(j) PROVE DetachedIsCut'
  BY <1>5 DEF Poll, FailIfStale, Write, RowUnchanged, taskVars, workerVars, apiVars, history
<1>6. ASSUME NEW s \in Sessions, DeleteSession(s) PROVE DetachedIsCut'
  BY <1>6 DEF DeleteSession, taskVars, workerVars, apiVars, history
<1>7. CASE Tick
  BY <1>7, BoundsAssumption DEF Tick, taskVars, apiVars, history
<1>8. QED
  BY <1>1, <1>2, <1>3, <1>4, <1>5, <1>6, <1>7 DEF Next, QueueStep

\* Tasks follow rows and deliveries follow tasks.
LEMMA EnqueuedNext == IInv /\ TypeOK' /\ Next => EnqueuedAfterInsert'
<1> SUFFICES ASSUME IInv, TypeOK', Next PROVE EnqueuedAfterInsert'
  OBVIOUS
<1> USE DEF IInv, TypeOK, EnqueuedAfterInsert, DispatcherKnowsFate
<1>1. ASSUME NEW a \in Apis, ApiStep(a) PROVE EnqueuedAfterInsert'
  <2> HIDE DEF TypeOK
  <2>1. ApiEffect(a)
    BY <1>1, ApiStepEffect
  <2>2. ASSUME NEW w \in Workers, pc'[w] # "idle" PROVE task'[job'[w]] # "none"
    BY <2>1, <2>2 DEF ApiEffect, TypeOK
  <2>3. ASSUME NEW j \in Jobs, task'[j] # "none" PROVE status'[j] # "absent"
    BY <2>1, <2>3 DEF ApiEffect
  <2>4. QED
    BY <2>2, <2>3
<1>2. ASSUME NEW w \in Workers, WorkerStep(w) PROVE EnqueuedAfterInsert'
  <2> HIDE DEF TypeOK
  <2>1. job[w] \in Jobs /\ WorkerFrame(w) /\ WorkerMoves(w)
    BY <1>2, WorkerStepFrame, WorkerStepMoves
  <2>2. ASSUME NEW v \in Workers, pc'[v] # "idle" PROVE task'[job'[v]] # "none"
    <3>1. pc[v] # "idle" /\ job'[v] = job[v] /\ job[v] \in Jobs
      BY <1>2, <2>1, <2>2, WorkerStepFrame DEF WorkerFrame, TypeOK
    <3>2. QED
      BY <2>1, <3>1 DEF WorkerFrame
  <2>3. ASSUME NEW j \in Jobs, task'[j] # "none" PROVE status'[j] # "absent"
    <3>1. CASE j = job[w]
      <4>1. status[j] # "absent"
        BY <1>2, <3>1, WorkerStepFrame
      <4>2. QED
        BY <2>1, <3>1, <4>1 DEF WorkerMoves
    <3>2. CASE j # job[w]
      BY <2>1, <2>3, <3>2 DEF WorkerFrame
    <3>3. QED
      BY <3>1, <3>2
  <2>4. QED
    BY <2>2, <2>3
<1>3. ASSUME NEW w \in Workers, NEW j \in Jobs, Deliver(w, j) \/ DeliverDuplicate(w, j)
      PROVE  EnqueuedAfterInsert'
  BY <1>3 DEF Deliver, DeliverDuplicate, StartHandler, jobVars, apiVars, history
<1>4. ASSUME NEW w \in Workers, CutDelivery(w) PROVE EnqueuedAfterInsert'
  BY <1>4 DEF CutDelivery, QueueNack, jobVars, apiVars
<1>5. ASSUME NEW j \in Jobs, Poll(j) PROVE EnqueuedAfterInsert'
  BY <1>5 DEF Poll, FailIfStale, Write, RowUnchanged, taskVars, workerVars, apiVars, history
<1>6. ASSUME NEW s \in Sessions, DeleteSession(s) PROVE EnqueuedAfterInsert'
  BY <1>6 DEF DeleteSession, taskVars, workerVars, apiVars, history
<1>7. CASE Tick
  BY <1>7, BoundsAssumption DEF Tick, taskVars, apiVars, history
<1>8. QED
  BY <1>1, <1>2, <1>3, <1>4, <1>5, <1>6, <1>7 DEF Next, QueueStep

\* A live execution's row is requeued by nobody else: it is not stale, and the
\* execution is the only one.
LEMMA NotQueuedNext == IInv /\ TypeOK' /\ Next => ExecutingIsNotQueued'
<1> SUFFICES ASSUME IInv, TypeOK', Next PROVE ExecutingIsNotQueued'
  OBVIOUS
<1> USE DEF IInv, TypeOK, ExecutingIsNotQueued, Executing, AgeBelowHeld, DetachedIsCut, EnqueuedAfterInsert, ExecutionsOverlapOnlyAfterCut
<1>1. ASSUME NEW a \in Apis, ApiStep(a) PROVE ExecutingIsNotQueued'
  <2> HIDE DEF TypeOK
  <2>1. ApiEffect(a)
    BY <1>1, ApiStepEffect
  <2>2. ASSUME NEW w \in Workers, Executing(w)', job'[w] \notin cut'
        PROVE  status'[job'[w]] # "queued"
    <3>1. /\ job'[w] = job[w] /\ Executing(w) /\ job[w] \in Jobs /\ pc[w] # "idle"
          /\ job[w] \notin cut
      BY <2>1, <2>2 DEF ApiEffect, TypeOK
    <3>2. status[job[w]] # "absent" /\ status[job[w]] # "queued"
      BY <3>1
    <3>3. QED
      BY <2>1, <3>1, <3>2 DEF ApiEffect
  <2>3. QED
    BY <2>2
<1>2. ASSUME NEW w \in Workers, WorkerStep(w) PROVE ExecutingIsNotQueued'
  <2> HIDE DEF TypeOK
  <2>1. job[w] \in Jobs /\ WorkerFrame(w) /\ WorkerMoves(w)
    BY <1>2, WorkerStepFrame, WorkerStepMoves
  <2>2. ASSUME NEW v \in Workers, Executing(v)', job'[v] \notin cut
        PROVE  status'[job'[v]] # "queued"
    <3>1. job'[v] = job[v] /\ pc[v] # "idle" /\ job[v] \in Jobs /\ cut' = cut
      BY <1>2, <2>1, <2>2, WorkerStepFrame DEF WorkerFrame, TypeOK
    <3>2. CASE v = w
      BY <2>1, <2>2, <3>1, <3>2 DEF WorkerMoves
    <3>3. CASE v # w
      <4>1. Executing(v) /\ attached[v] /\ status[job[v]] # "queued"
        BY <2>1, <2>2, <3>1, <3>3 DEF WorkerFrame
      <4>2. ~IsStale(job[v])
        BY <3>1, <4>1, LeaseAssumption, BoundsAssumption DEF IsStale, TypeOK
      <4>3. job[v] = job[w] => ~Executing(w)
        BY <2>2, <3>1, <3>3, <4>1
      <4>4. QED
        BY <2>1, <3>1, <4>1, <4>2, <4>3 DEF WorkerFrame, WorkerMoves
    <3>4. QED
      BY <3>2, <3>3
  <2>3. QED
    BY <2>1, <2>2 DEF WorkerFrame
<1>3. ASSUME NEW w \in Workers, NEW j \in Jobs, Deliver(w, j) \/ DeliverDuplicate(w, j)
      PROVE  ExecutingIsNotQueued'
  BY <1>3 DEF Deliver, DeliverDuplicate, StartHandler, jobVars, apiVars, history
<1>4. ASSUME NEW w \in Workers, CutDelivery(w) PROVE ExecutingIsNotQueued'
  BY <1>4 DEF CutDelivery, QueueNack, jobVars, apiVars
<1>5. ASSUME NEW j \in Jobs, Poll(j) PROVE ExecutingIsNotQueued'
  BY <1>5 DEF Poll, FailIfStale, Write, RowUnchanged, taskVars, workerVars, apiVars, history
<1>6. ASSUME NEW s \in Sessions, DeleteSession(s) PROVE ExecutingIsNotQueued'
  BY <1>6 DEF DeleteSession, taskVars, workerVars, apiVars, history
<1>7. CASE Tick
  BY <1>7, BoundsAssumption DEF Tick, taskVars, apiVars, history
<1>8. QED
  BY <1>1, <1>2, <1>3, <1>4, <1>5, <1>6, <1>7 DEF Next, QueueStep

\* ... nor finished by anybody else, without an enqueueing in doubt.
LEMMA RunningNext == IInv /\ TypeOK' /\ Next => ExecutingIsRunning'
<1> SUFFICES ASSUME IInv, TypeOK', Next PROVE ExecutingIsRunning'
  OBVIOUS
<1> USE DEF IInv, TypeOK, ExecutingIsRunning, Executing, Disturbed, AgeBelowHeld, DetachedIsCut, EnqueuedAfterInsert, ExecutionsOverlapOnlyAfterCut, DispatcherKnowsFate
<1>1. ASSUME NEW a \in Apis, ApiStep(a) PROVE ExecutingIsRunning'
  <2> HIDE DEF TypeOK
  <2>1. ApiEffect(a)
    BY <1>1, ApiStepEffect
  <2>2. ASSUME NEW w \in Workers, Executing(w)', job'[w] \notin Disturbed'
        PROVE  status'[job'[w]] \in {"running", "deleted"}
    <3>1. job'[w] = job[w] /\ Executing(w) /\ job[w] \in Jobs /\ pc[w] # "idle"
      BY <2>1, <2>2 DEF ApiEffect, TypeOK
    <3>2. job[w] \notin cut /\ job[w] \notin unsure
      BY <2>1, <2>2, <3>1 DEF ApiEffect
    <3>3. status[job[w]] \in {"running", "deleted"} /\ task[job[w]] # "none" /\ attached[w]
      BY <3>1, <3>2
    <3>4. ~Holds(a, job[w])
      BY <3>1, <3>2, <3>3
    <3>5. ~IsStale(job[w])
      BY <3>1, <3>3, LeaseAssumption, BoundsAssumption DEF IsStale, TypeOK
    <3>6. QED
      BY <2>1, <3>1, <3>3, <3>4, <3>5 DEF ApiEffect
  <2>3. QED
    BY <2>2
<1>2. ASSUME NEW w \in Workers, WorkerStep(w) PROVE ExecutingIsRunning'
  <2> HIDE DEF TypeOK
  <2>1. job[w] \in Jobs /\ WorkerFrame(w) /\ WorkerMoves(w)
    BY <1>2, WorkerStepFrame, WorkerStepMoves
  <2>2. ASSUME NEW v \in Workers, Executing(v)', job'[v] \notin Disturbed'
        PROVE  status'[job'[v]] \in {"running", "deleted"}
    <3>1. job'[v] = job[v] /\ pc[v] # "idle" /\ job[v] \in Jobs
          /\ job[v] \notin cut /\ job[v] \notin unsure
      BY <1>2, <2>1, <2>2, WorkerStepFrame DEF WorkerFrame, TypeOK
    <3>2. CASE v = w
      BY <2>1, <2>2, <3>1, <3>2 DEF WorkerMoves
    <3>3. CASE v # w
      <4>1. /\ Executing(v) /\ attached[v]
            /\ status[job[v]] \in {"running", "deleted"}
        BY <2>1, <2>2, <3>1, <3>3 DEF WorkerFrame
      <4>2. ~IsStale(job[v])
        BY <3>1, <4>1, LeaseAssumption, BoundsAssumption DEF IsStale, TypeOK
      <4>3. job[v] = job[w] => ~Executing(w)
        BY <3>1, <3>3, <4>1
      <4>4. QED
        BY <2>1, <3>1, <4>1, <4>2, <4>3 DEF WorkerFrame, WorkerMoves
    <3>4. QED
      BY <3>2, <3>3
  <2>3. QED
    BY <2>2
<1>3. ASSUME NEW w \in Workers, NEW j \in Jobs, Deliver(w, j) \/ DeliverDuplicate(w, j)
      PROVE  ExecutingIsRunning'
  BY <1>3 DEF Deliver, DeliverDuplicate, StartHandler, jobVars, apiVars, history
<1>4. ASSUME NEW w \in Workers, CutDelivery(w) PROVE ExecutingIsRunning'
  BY <1>4 DEF CutDelivery, QueueNack, jobVars, apiVars
<1>5. ASSUME NEW j \in Jobs, Poll(j) PROVE ExecutingIsRunning'
  <2> HIDE DEF TypeOK
  <2>1. ASSUME NEW w \in Workers, Executing(w)', job'[w] \notin Disturbed'
        PROVE  status'[job'[w]] \in {"running", "deleted"}
    <3>1. /\ job'[w] = job[w] /\ Executing(w) /\ job[w] \in Jobs /\ attached[w]
          /\ status[job[w]] \in {"running", "deleted"}
      BY <1>5, <2>1 DEF Poll, workerVars, history, TypeOK
    <3>2. ~IsStale(job[w])
      BY <3>1, LeaseAssumption, BoundsAssumption DEF IsStale, TypeOK
    <3>3. job[w] # j \/ RowUnchanged
      BY <1>5, <3>2 DEF Poll, FailIfStale
    <3>4. status'[job[w]] = status[job[w]]
      BY <1>5, <3>1, <3>3 DEF Poll, FailIfStale, Write, RowUnchanged, TypeOK
    <3>5. QED
      BY <3>1, <3>4
  <2>2. QED
    BY <2>1
<1>6. ASSUME NEW s \in Sessions, DeleteSession(s) PROVE ExecutingIsRunning'
  BY <1>6 DEF DeleteSession, taskVars, workerVars, apiVars, history
<1>7. CASE Tick
  BY <1>7, BoundsAssumption DEF Tick, taskVars, apiVars, history
<1>8. QED
  BY <1>1, <1>2, <1>3, <1>4, <1>5, <1>6, <1>7 DEF Next, QueueStep

\* A claim needs a queued row.
LEMMA OverlapNext == IInv /\ TypeOK' /\ Next => ExecutionsOverlapOnlyAfterCut'
<1> SUFFICES ASSUME IInv, TypeOK', Next PROVE ExecutionsOverlapOnlyAfterCut'
  OBVIOUS
<1> USE DEF IInv, TypeOK, ExecutionsOverlapOnlyAfterCut, Executing, ExecutingIsNotQueued
<1>1. ASSUME NEW a \in Apis, ApiStep(a) PROVE ExecutionsOverlapOnlyAfterCut'
  BY <1>1, ApiStepEffect DEF ApiEffect
<1>2. ASSUME NEW w \in Workers, WorkerStep(w) PROVE ExecutionsOverlapOnlyAfterCut'
  BY <1>2, WorkerStepFrame, WorkerStepMoves DEF WorkerFrame, WorkerMoves
<1>3. ASSUME NEW w \in Workers, NEW j \in Jobs, Deliver(w, j) \/ DeliverDuplicate(w, j)
      PROVE  ExecutionsOverlapOnlyAfterCut'
  BY <1>3 DEF Deliver, DeliverDuplicate, StartHandler, jobVars, apiVars, history
<1>4. ASSUME NEW w \in Workers, CutDelivery(w) PROVE ExecutionsOverlapOnlyAfterCut'
  BY <1>4 DEF CutDelivery, QueueNack, jobVars, apiVars
<1>5. ASSUME NEW j \in Jobs, Poll(j) PROVE ExecutionsOverlapOnlyAfterCut'
  BY <1>5 DEF Poll, FailIfStale, Write, RowUnchanged, taskVars, workerVars, apiVars, history
<1>6. ASSUME NEW s \in Sessions, DeleteSession(s) PROVE ExecutionsOverlapOnlyAfterCut'
  BY <1>6 DEF DeleteSession, taskVars, workerVars, apiVars, history
<1>7. CASE Tick
  BY <1>7, BoundsAssumption DEF Tick, taskVars, apiVars, history
<1>8. QED
  BY <1>1, <1>2, <1>3, <1>4, <1>5, <1>6, <1>7 DEF Next, QueueStep

\* A claimed job is its session's only active one.
LEMMA SessionNext == IInv /\ TypeOK' /\ Next => SessionsExecuteOneJob'
<1> SUFFICES ASSUME IInv, TypeOK', Next PROVE SessionsExecuteOneJob'
  OBVIOUS
<1> USE DEF IInv, TypeOK, SessionsExecuteOneJob, Executing, ExecutingIsRunning, Disturbed, OneActiveJob, RowsFollowSession, IsActive, ActiveStatuses
<1>1. ASSUME NEW a \in Apis, ApiStep(a) PROVE SessionsExecuteOneJob'
  <2>1. ApiEffect(a)
    BY <1>1, ApiStepEffect
  <2>2. UNCHANGED <<pc, job, owner>>
    BY <2>1 DEF ApiEffect
  <2>3. Disturbed \subseteq Disturbed'
    BY <2>1 DEF ApiEffect
  <2>4. QED
    <3> HIDE DEF TypeOK, Disturbed, IsActive, ActiveStatuses, OneActiveJob, RowsFollowSession
    <3> QED BY <2>2, <2>3
<1>2. ASSUME NEW w \in Workers, WorkerStep(w) PROVE SessionsExecuteOneJob'
  <2> HIDE DEF TypeOK
  <2>1. job[w] \in Jobs /\ WorkerFrame(w) /\ WorkerMoves(w)
    BY <1>2, WorkerStepFrame, WorkerStepMoves
  <2>2. SUFFICES ASSUME NEW u \in Workers, NEW v \in Workers,
                        Executing(u)', Executing(v)', job'[u] # job'[v],
                        owner'[job'[u]] = owner'[job'[v]],
                        job[u] \notin Disturbed, job[v] \notin Disturbed
                 PROVE  FALSE
    <3>1. \A u \in Workers : Executing(u)' => job'[u] = job[u]
      BY <2>1 DEF WorkerFrame
    <3>2. Disturbed' = Disturbed
      BY <2>1 DEF WorkerFrame
    <3>3. QED
      BY <3>1, <3>2
  <2>3. \A x \in Workers : Executing(x)' =>
          /\ job'[x] = job[x] /\ job[x] \in Jobs /\ pc[x] # "idle"
          /\ x # w => Executing(x)
    BY <1>2, <2>1, WorkerStepFrame DEF WorkerFrame, TypeOK
  <2>4. owner' = owner
    BY <2>1 DEF WorkerFrame
  <2>5. ASSUME NEW x \in Workers, NEW y \in Workers, Executing(x)', Executing(y)',
               job[x] # job[y], owner[job[x]] = owner[job[y]],
               job[x] \notin Disturbed, job[y] \notin Disturbed,
               ~Executing(x)
        PROVE  FALSE
    <3>1. x = w /\ status[job[x]] = "queued"
      BY <2>1, <2>3, <2>5 DEF WorkerMoves
    <3>2. y # w /\ Executing(y) /\ status[job[y]] \in {"running", "deleted"}
      BY <2>3, <2>5, <3>1
    <3>3. status[job[y]] # "running"
      BY <2>3, <2>5, <3>1
    <3>4. owner[job[x]] \in sessions /\ owner[job[y]] \notin sessions
      BY <2>3, <2>5, <3>1, <3>2, <3>3
    <3>5. QED
      BY <2>5, <3>4
  <2>6. QED
    BY <2>2, <2>3, <2>4, <2>5
<1>3. ASSUME NEW w \in Workers, NEW j \in Jobs, Deliver(w, j) \/ DeliverDuplicate(w, j)
      PROVE  SessionsExecuteOneJob'
  <2> HIDE DEF TypeOK
  <2>1. \A v \in Workers : Executing(v)' => Executing(v) /\ job'[v] = job[v]
    BY <1>3 DEF Deliver, DeliverDuplicate, StartHandler, TypeOK
  <2>2. UNCHANGED <<owner, cut, unsure>>
    BY <1>3 DEF Deliver, DeliverDuplicate, jobVars, history
  <2>3. QED
    BY <2>1, <2>2
<1>4. ASSUME NEW w \in Workers, CutDelivery(w) PROVE SessionsExecuteOneJob'
  BY <1>4 DEF CutDelivery, QueueNack, jobVars, apiVars
<1>5. ASSUME NEW j \in Jobs, Poll(j) PROVE SessionsExecuteOneJob'
  BY <1>5 DEF Poll, FailIfStale, Write, RowUnchanged, taskVars, workerVars, apiVars, history
<1>6. ASSUME NEW s \in Sessions, DeleteSession(s) PROVE SessionsExecuteOneJob'
  BY <1>6 DEF DeleteSession, taskVars, workerVars, apiVars, history
<1>7. CASE Tick
  BY <1>7, BoundsAssumption DEF Tick, taskVars, apiVars, history
<1>8. QED
  BY <1>1, <1>2, <1>3, <1>4, <1>5, <1>6, <1>7 DEF Next, QueueStep

\* Rows are inserted for sessions that exist and deleted with them.
LEMMA RowsNext == IInv /\ TypeOK' /\ Next => RowsFollowSession'
<1> SUFFICES ASSUME IInv, TypeOK', Next PROVE RowsFollowSession'
  OBVIOUS
<1> USE DEF IInv, TypeOK, RowsFollowSession, ActiveStatuses, TerminalStatuses, EnqueuedAfterInsert
<1>1. ASSUME NEW a \in Apis, ApiStep(a) PROVE RowsFollowSession'
  <2> HIDE DEF TypeOK
  <2>1. ApiEffect(a)
    BY <1>1, ApiStepEffect
  <2>2. UNCHANGED <<sessions, owner>>
    BY <2>1 DEF ApiEffect
  <2>3. ASSUME NEW j \in Jobs, status'[j] # status[j]
        PROVE  owner[j] \in sessions /\ status'[j] # "deleted"
    <3>1. Holds(a, j) /\ status[j] # "deleted" => status[j] \in ActiveStatuses \cup TerminalStatuses
      BY DEF TypeOK, DispatcherKnowsFate
    <3>2. QED
      BY <2>1, <2>3, <3>1 DEF ApiEffect, IsActive
  <2>4. QED
    BY <2>2, <2>3
<1>2. ASSUME NEW w \in Workers, WorkerStep(w) PROVE RowsFollowSession'
  BY <1>2, WorkerStepFrame, WorkerStepMoves DEF WorkerFrame, WorkerMoves
<1>3. ASSUME NEW w \in Workers, NEW j \in Jobs, Deliver(w, j) \/ DeliverDuplicate(w, j)
      PROVE  RowsFollowSession'
  BY <1>3 DEF Deliver, DeliverDuplicate, StartHandler, jobVars, apiVars, history
<1>4. ASSUME NEW w \in Workers, CutDelivery(w) PROVE RowsFollowSession'
  BY <1>4 DEF CutDelivery, QueueNack, jobVars, apiVars
<1>5. ASSUME NEW j \in Jobs, Poll(j) PROVE RowsFollowSession'
  <2>1. UNCHANGED <<sessions, owner>>
    BY <1>5 DEF Poll
  <2>2. \A k \in Jobs : status'[k] = status[k] \/ (IsActive(k) /\ status'[k] = "failed")
    <3>1. CASE IsActive(j) /\ IsStale(j)
      <4>1. status' = [status EXCEPT ![j] = "failed"]
        BY <1>5, <3>1 DEF Poll, FailIfStale, Write
      <4>2. QED
        BY <3>1, <4>1
    <3>2. CASE ~(IsActive(j) /\ IsStale(j))
      <4>1. status' = status
        BY <1>5, <3>2 DEF Poll, FailIfStale, RowUnchanged
      <4>2. QED
        BY <4>1
    <3>3. QED
      BY <3>1, <3>2
  <2>3. QED
    BY <2>1, <2>2 DEF IsActive
<1>6. ASSUME NEW s \in Sessions, DeleteSession(s) PROVE RowsFollowSession'
  BY <1>6 DEF DeleteSession, taskVars, workerVars, apiVars, history
<1>7. CASE Tick
  BY <1>7, BoundsAssumption DEF Tick, taskVars, apiVars, history
<1>8. QED
  BY <1>1, <1>2, <1>3, <1>4, <1>5, <1>6, <1>7 DEF Next, QueueStep

\* INSERT and the late requeue are both subject to the index.
LEMMA OneActiveNext == IInv /\ TypeOK' /\ Next => OneActiveJob'
<1> SUFFICES ASSUME IInv, TypeOK', Next PROVE OneActiveJob'
  OBVIOUS
<1> USE DEF IInv, TypeOK, OneActiveJob, IsActive, ActiveStatuses
<1>1. ASSUME NEW a \in Apis, ApiStep(a) PROVE OneActiveJob'
  BY <1>1, ApiStepEffect DEF ApiEffect, IndexAllows, ActiveJobs
<1>2. ASSUME NEW w \in Workers, WorkerStep(w) PROVE OneActiveJob'
  <2> HIDE DEF TypeOK
  <2>1. job[w] \in Jobs /\ WorkerFrame(w) /\ WorkerMoves(w)
    BY <1>2, WorkerStepFrame, WorkerStepMoves
  <2>2. \A j \in Jobs : j # job[w] => status'[j] = status[j]
    BY <2>1 DEF WorkerFrame
  <2>3. owner' = owner
    BY <2>1 DEF WorkerFrame
  <2>4. status'[job[w]] \in ActiveStatuses => IsActive(job[w]) \/ IndexAllows(job[w])
    BY <2>1 DEF WorkerMoves
  <2>5. QED
    BY <2>1, <2>2, <2>3, <2>4 DEF IndexAllows, ActiveJobs
<1>3. ASSUME NEW w \in Workers, NEW j \in Jobs, Deliver(w, j) \/ DeliverDuplicate(w, j)
      PROVE  OneActiveJob'
  BY <1>3 DEF Deliver, DeliverDuplicate, StartHandler, jobVars, apiVars, history
<1>4. ASSUME NEW w \in Workers, CutDelivery(w) PROVE OneActiveJob'
  BY <1>4 DEF CutDelivery, QueueNack, jobVars, apiVars
<1>5. ASSUME NEW j \in Jobs, Poll(j) PROVE OneActiveJob'
  BY <1>5 DEF Poll, FailIfStale, Write, RowUnchanged, taskVars, workerVars, apiVars, history
<1>6. ASSUME NEW s \in Sessions, DeleteSession(s) PROVE OneActiveJob'
  BY <1>6 DEF DeleteSession, taskVars, workerVars, apiVars, history
<1>7. CASE Tick
  BY <1>7, BoundsAssumption DEF Tick, taskVars, apiVars, history
<1>8. QED
  BY <1>1, <1>2, <1>3, <1>4, <1>5, <1>6, <1>7 DEF Next, QueueStep
\* Two requests never insert the same row.
LEMMA DispatcherNext == IInv /\ TypeOK' /\ Next => OneDispatcher'
<1> SUFFICES ASSUME IInv, TypeOK', Next PROVE OneDispatcher'
  OBVIOUS
<1> USE DEF IInv, OneDispatcher
<1>1. ASSUME NEW a \in Apis, ApiStep(a) PROVE OneDispatcher'
  <2>1. ApiHolding(a)
    BY <1>1, ApiStepHolding
  <2>2. \A b \in Apis, j \in Jobs : Holds(b, j) => status[j] # "absent"
    BY DEF DispatcherKnowsFate
  <2>3. QED
    BY <2>1, <2>2 DEF ApiHolding
<1>2. CASE UNCHANGED <<apc, ajob>>
  BY <1>2 DEF Holds
<1>3. ASSUME NEW w \in Workers, WorkerStep(w) PROVE UNCHANGED <<apc, ajob>>
  BY <1>3, WorkerStepFrame DEF WorkerFrame
<1>4. QED
  BY <1>1, <1>2, <1>3 DEF Next, QueueStep, Deliver, DeliverDuplicate, CutDelivery, Poll,
    DeleteSession, Tick, apiVars

\* What the other processes must leave alone for it.
FateFrame ==
    /\ UNCHANGED <<apc, ajob, unsure>>
    /\ \A j \in Jobs : status[j] # "absent" => status'[j] # "absent"
    /\ \A j \in Jobs : task[j] = "none" =>
        /\ task'[j] = "none"
        /\ status'[j] = status[j] \/ status'[j] \in {"failed", "deleted"}

\* Steps inside that frame keep what a dispatcher knows.
LEMMA FateKept ==
  ASSUME IInv, FateFrame
  PROVE  DispatcherKnowsFate'
<1>1. \A a \in Apis, j \in Jobs : Holds(a, j)' <=> Holds(a, j)
  BY DEF FateFrame, Holds
<1>2. ASSUME NEW a \in Apis, NEW j \in Jobs, Holds(a, j)
      PROVE  /\ status'[j] # "absent"
             /\ apc[a] = "dispatch" => task'[j] = "none"
             /\ j \notin unsure =>
                 /\ task'[j] = "none"
                 /\ status'[j] \in {"queued", "failed", "deleted"}
  BY <1>2 DEF IInv, DispatcherKnowsFate, FateFrame
<1>3. QED
  BY <1>1, <1>2 DEF FateFrame, DispatcherKnowsFate

\* Until the dispatch, a row can only be failed as stale or deleted.
LEMMA FateNext == IInv /\ TypeOK' /\ Next => DispatcherKnowsFate'
<1> SUFFICES ASSUME IInv, TypeOK', Next PROVE DispatcherKnowsFate'
  OBVIOUS
<1> USE DEF IInv, DispatcherKnowsFate
<1>1. ASSUME NEW a \in Apis, ApiStep(a) PROVE DispatcherKnowsFate'
  <2>1. ApiHolding(a) /\ ApiEffect(a)
    BY <1>1, ApiStepHolding, ApiStepEffect
  <2>2. ASSUME NEW b \in Apis, NEW j \in Jobs, Holds(b, j)'
        PROVE  /\ status'[j] # "absent"
               /\ apc'[b] = "dispatch" => task'[j] = "none"
               /\ j \notin unsure' =>
                   /\ task'[j] = "none"
                   /\ status'[j] \in {"queued", "failed", "deleted"}
    <3>1. CASE Holds(b, j)
      <4>1. task'[j] # task[j] => b = a
        BY <2>1, <3>1 DEF ApiEffect, OneDispatcher
      <4>2. j \notin unsure' => j \notin unsure
        BY <2>1 DEF ApiEffect
      <4>3. status'[j] # "absent"
        BY <2>1, <3>1 DEF ApiEffect
      <4>4. \/ apc'[b] = "dispatch" /\ apc[b] = "dispatch" /\ task'[j] = task[j]
            \/ apc'[b] # "dispatch" /\ (task'[j] = task[j] \/ j \in unsure')
            \/ status[j] = "absent"
        BY <2>1, <2>2, <4>1 DEF ApiHolding
      <4>5. j \notin unsure' => status'[j] \in {"queued", "failed", "deleted"}
        BY <2>1, <3>1, <4>2 DEF ApiEffect
      <4>6. QED
        BY <3>1, <4>2, <4>3, <4>4, <4>5
    <3>2. CASE ~Holds(b, j)
      <4>1. /\ status[j] = "absent" /\ status'[j] = "queued"
            /\ task' = task
        BY <2>1, <2>2, <3>2 DEF ApiHolding
      <4>2. task[j] = "none"
        BY <4>1 DEF EnqueuedAfterInsert
      <4>3. QED
        BY <4>1, <4>2
    <3>3. QED
      BY <3>1, <3>2
  <2>3. QED
    BY <2>2
<1>2. ASSUME NEW w \in Workers, WorkerStep(w) PROVE DispatcherKnowsFate'
  <2>1. /\ pc[w] # "idle" /\ job[w] \in Jobs /\ WorkerFrame(w) /\ WorkerMoves(w)
        /\ task[job[w]] # "none" /\ status[job[w]] # "absent"
    BY <1>2, WorkerStepFrame, WorkerStepMoves DEF EnqueuedAfterInsert
  <2>2. status'[job[w]] # "absent"
    BY <2>1 DEF WorkerMoves
  <2>3. QED
    BY <2>1, <2>2, FateKept DEF WorkerFrame, FateFrame
<1>3. ASSUME NEW w \in Workers, QueueStep(w) PROVE DispatcherKnowsFate'
  <2>1. /\ UNCHANGED <<apc, ajob, unsure, status>>
        /\ \E j \in Jobs : task[j] # "none" /\ \E x : task' = [task EXCEPT ![j] = x]
    <3>1. CASE CutDelivery(w)
      <4>1. job[w] \in Jobs /\ task[job[w]] # "none"
        BY <3>1 DEF CutDelivery, TypeOK, EnqueuedAfterInsert
      <4>2. QED
        BY <3>1, <4>1 DEF CutDelivery, QueueNack, jobVars, apiVars
    <3>2. ASSUME NEW j \in Jobs, Deliver(w, j) \/ DeliverDuplicate(w, j)
          PROVE  /\ UNCHANGED <<apc, ajob, unsure, status>>
                 /\ task[j] # "none" /\ \E x : task' = [task EXCEPT ![j] = x]
      <4>1. DeliverDuplicate(w, j) => task' = [task EXCEPT ![j] = task[j]]
        BY DEF DeliverDuplicate, TypeOK
      <4>2. QED
        BY <3>2, <4>1 DEF Deliver, DeliverDuplicate, jobVars, apiVars, history
    <3>3. QED
      BY <1>3, <3>1, <3>2 DEF QueueStep
  <2>2. QED
    BY <2>1, FateKept DEF TypeOK, FateFrame
<1>4. ASSUME NEW j \in Jobs, Poll(j) PROVE DispatcherKnowsFate'
  <2>1. \A k \in Jobs : status'[k] = status[k] \/ status'[k] = "failed"
    <3>1. status' = status \/ status' = [status EXCEPT ![j] = "failed"]
      BY <1>4 DEF Poll, FailIfStale, Write, RowUnchanged
    <3>2. QED
      BY <3>1 DEF TypeOK
  <2>2. QED
    BY <1>4, <2>1, FateKept DEF FateFrame, Poll, taskVars, apiVars, history
<1>5. ASSUME NEW s \in Sessions, DeleteSession(s) PROVE DispatcherKnowsFate'
  BY <1>5, FateKept DEF FateFrame, DeleteSession, taskVars, apiVars, history
<1>6. CASE Tick
  BY <1>6, FateKept DEF FateFrame, Tick, taskVars, apiVars, history
<1>7. QED
  BY <1>1, <1>2, <1>3, <1>4, <1>5, <1>6 DEF Next

-----------------------------------------------------------------------------
\* The inductive invariant holds initially,
LEMMA InvInit == Init => IInv
<1> SUFFICES ASSUME Init PROVE IInv
  OBVIOUS
<1>1. TypeOK
  BY TypeInit
<1>2. QED
  BY <1>1 DEF Init, IInv, AgeBelowHeld, DetachedIsCut, EnqueuedAfterInsert,
    ExecutingIsNotQueued, ExecutingIsRunning, ExecutionsOverlapOnlyAfterCut,
    OneDispatcher, DispatcherKnowsFate, Holds, RowsFollowSession, OneActiveJob,
    SessionsExecuteOneJob, Executing, IsActive, ActiveStatuses, TerminalStatuses

\* is kept when nothing changes,
LEMMA InvStutter == IInv /\ UNCHANGED vars => IInv'
  BY DEF IInv, vars, jobVars, taskVars, workerVars, apiVars, history, TypeOK,
    AgeBelowHeld, DetachedIsCut, EnqueuedAfterInsert, ExecutingIsNotQueued,
    ExecutingIsRunning, ExecutionsOverlapOnlyAfterCut, OneDispatcher,
    DispatcherKnowsFate, Holds, RowsFollowSession, OneActiveJob,
    SessionsExecuteOneJob, Executing, IsActive, Disturbed

\* and is kept by every step.
LEMMA InvNext == IInv /\ [Next]_vars => IInv'
<1> SUFFICES ASSUME IInv, [Next]_vars PROVE IInv'
  OBVIOUS
<1>1. TypeOK'
  BY TypeNext DEF IInv
<1>2. CASE Next
  BY <1>1, <1>2, AgeNext, DetachedNext, EnqueuedNext, NotQueuedNext, RunningNext,
    OverlapNext, SessionNext, RowsNext, OneActiveNext, DispatcherNext, FateNext
  DEF IInv
<1>3. CASE UNCHANGED vars
  BY <1>3, InvStutter
<1>4. QED
  BY <1>2, <1>3

\* The inductive invariant holds of every reachable state.
THEOREM Inductive == Spec => []IInv
<1>1. QED
  BY InvInit, InvNext, PTL DEF Spec

-----------------------------------------------------------------------------
(* The safety properties.                                                  *)

\* Every variable keeps its type.
THEOREM TypeCorrect == Spec => []TypeOK
<1>1. IInv => TypeOK
  BY DEF IInv
<1>2. QED
  BY <1>1, Inductive, PTL

\* With enrichment_job_stale_seconds above the dispatch deadline, neither a
\* redelivery nor a poll ever takes a job from a worker the queue still waits
\* for: this is what validate_production's comparison of the two buys.
THEOREM LiveWorkersKeepTheirJobs == Spec => []LeaseOutlivesDelivery
<1>1. IInv => LeaseOutlivesDelivery
  <2>1. SUFFICES ASSUME IInv, NEW w \in Workers, Executing(w), attached[w]
                 PROVE  ~IsStale(job[w])
    BY DEF LeaseOutlivesDelivery
  <2>2. age[job[w]] <= held[w] /\ held[w] \in 0..Deadline /\ job[w] \in Jobs
    BY <2>1 DEF IInv, TypeOK, AgeBelowHeld, Executing
  <2>3. age[job[w]] \in Nat
    BY <2>1, <2>2, BoundsAssumption DEF IInv, TypeOK
  <2>4. QED
    BY <2>2, <2>3, LeaseAssumption, BoundsAssumption DEF IsStale
<1>2. QED
  BY <1>1, Inductive, PTL

\* One job is executed by one worker at a time, however often it is delivered,
\* as long as the queue waits out its handlers.
THEOREM ExecutionsAreExclusive == Spec => []ExecutionsOverlapOnlyAfterCut
<1>1. IInv => ExecutionsOverlapOnlyAfterCut
  BY DEF IInv
<1>2. QED
  BY <1>1, Inductive, PTL

\* No interleaving of start requests, retries and late writes leaves a session
\* with two active jobs.
THEOREM ActiveJobIsUnique == Spec => []OneActiveJob
<1>1. IInv => OneActiveJob
  BY DEF IInv
<1>2. QED
  BY <1>1, Inductive, PTL

\* Two jobs of one session are not executed at once, unless one was disturbed.
THEOREM SessionsAreExclusive == Spec => []SessionsExecuteOneJob
<1>1. IInv => SessionsExecuteOneJob
  BY DEF IInv
<1>2. QED
  BY <1>1, Inductive, PTL

-----------------------------------------------------------------------------
(* The job table implements the job lifecycle.                             *)

\* The unique index is the abstract guard.
LEMMA IndexIsNoOtherActive ==
  ASSUME NEW j \in Jobs, IndexAllows(j)
  PROVE  Lifecycle!NoOtherActive(j)
  BY DEF IndexAllows, ActiveJobs, IsActive, ActiveStatuses, Lifecycle!NoOtherActive,
    Lifecycle!Active

\* A step that changes one row is a step of the abstract job.
LEMMA RowStep ==
  ASSUME IInv, IInv', UNCHANGED <<owner, Disturbed>>,
         NEW j \in Jobs, \A k \in Jobs : k # j => status'[k] = status[k],
         \/ status'[j] = status[j]
         \/ status[j] = "absent" /\ status'[j] = "queued" /\ IndexAllows(j)
         \/ status[j] = "queued" /\ status'[j] = "running"
         \/ status[j] = "running" /\ status'[j] \in {"queued", "completed"}
         \/ IsActive(j) /\ status'[j] = "failed"
         \/ /\ j \in Disturbed
            /\ status[j] \in ActiveStatuses \cup TerminalStatuses
            /\ \/ status'[j] \in TerminalStatuses
               \/ status'[j] = "queued" /\ IndexAllows(j)
  PROVE  [Lifecycle!Next]_Lifecycle!vars
<1>1. status' = [status EXCEPT ![j] = status'[j]]
  BY DEF IInv, TypeOK
<1>2. CASE status'[j] = status[j]
  <2>1. status' = status
    BY <1>1, <1>2 DEF IInv, TypeOK
  <2>2. QED
    BY <2>1 DEF Lifecycle!vars
<1> USE DEF Lifecycle!Move, Lifecycle!Active, Lifecycle!Terminal, IsActive, ActiveStatuses, TerminalStatuses
<1>3. CASE status[j] = "absent" /\ status'[j] = "queued" /\ IndexAllows(j)
  BY <1>1, <1>3, IndexIsNoOtherActive DEF Lifecycle!Next, Lifecycle!Create
<1>4. CASE status[j] = "queued" /\ status'[j] = "running"
  BY <1>1, <1>4 DEF Lifecycle!Next, Lifecycle!Start
<1>5. CASE status[j] = "running" /\ status'[j] \in {"queued", "completed"}
  BY <1>1, <1>5 DEF Lifecycle!Next, Lifecycle!Retry, Lifecycle!Complete
<1>6. CASE IsActive(j) /\ status'[j] = "failed"
  BY <1>1, <1>6 DEF Lifecycle!Next, Lifecycle!Fail
<1>7. CASE /\ j \in Disturbed
           /\ status[j] \in ActiveStatuses \cup TerminalStatuses
           /\ \/ status'[j] \in TerminalStatuses
              \/ status'[j] = "queued" /\ IndexAllows(j)
  <2>1. Lifecycle!Overwrite(j)
    BY <1>1, <1>7, IndexIsNoOtherActive DEF Lifecycle!Overwrite
  <2>2. QED
    BY <2>1 DEF Lifecycle!Next
<1>8. QED
  BY <1>2, <1>3, <1>4, <1>5, <1>6, <1>7

\* Every step of the table, the queue and the processes is a step of the abstract
\* job lifecycle or leaves it alone.
LEMMA RefinesNext == IInv /\ IInv' /\ [Next]_vars => [Lifecycle!Next]_Lifecycle!vars
<1> SUFFICES ASSUME IInv, IInv', [Next]_vars PROVE [Lifecycle!Next]_Lifecycle!vars
  OBVIOUS
<1>1. ASSUME NEW a \in Apis, ApiStep(a) PROVE [Lifecycle!Next]_Lifecycle!vars
  <2>1. ApiEffect(a)
    BY <1>1, ApiStepEffect DEF IInv
  <2>2. CASE \E j \in Jobs : status'[j] # status[j]
    <3>1. PICK j \in Jobs : status'[j] # status[j]
      BY <2>2
    <3>2. UNCHANGED <<owner, Disturbed>> /\ \A k \in Jobs : k # j => status'[k] = status[k]
      BY <2>1, <3>1 DEF ApiEffect, Disturbed
    <3>3. \/ status[j] = "absent" /\ status'[j] = "queued" /\ IndexAllows(j)
          \/ IsActive(j) /\ status'[j] = "failed"
          \/ Holds(a, j) /\ status[j] # "deleted" /\ status'[j] = "failed"
      BY <2>1, <3>1 DEF ApiEffect
    <3>4. ASSUME Holds(a, j), status[j] # "deleted"
          PROVE  \/ IsActive(j) \/ status[j] = "failed"
                 \/ /\ j \in Disturbed
                    /\ status[j] \in ActiveStatuses \cup TerminalStatuses
      BY <3>4 DEF IInv, DispatcherKnowsFate, IsActive, ActiveStatuses, TypeOK, Disturbed
    <3>5. QED
      BY <3>1, <3>2, <3>3, <3>4, RowStep DEF TerminalStatuses
  <2>3. CASE \A j \in Jobs : status'[j] = status[j]
    <3>1. status' = status /\ owner' = owner
      BY <2>1, <2>3 DEF IInv, TypeOK, ApiEffect
    <3>2. Disturbed' = Disturbed \/ \E j \in Jobs : Disturbed' = Disturbed \cup {j}
      BY <2>1 DEF ApiEffect, Disturbed
    <3>3. QED
      BY <3>1, <3>2 DEF Lifecycle!Next, Lifecycle!Disturb, Lifecycle!vars
  <2>4. QED
    BY <2>2, <2>3
<1>2. ASSUME NEW w \in Workers, WorkerStep(w) PROVE [Lifecycle!Next]_Lifecycle!vars
  <2>1. /\ pc[w] # "idle" /\ job[w] \in Jobs
        /\ WorkerFrame(w) /\ WorkerMoves(w)
    BY <1>2, WorkerStepFrame, WorkerStepMoves DEF IInv
  <2>2. /\ UNCHANGED <<owner, Disturbed>>
        /\ \A k \in Jobs : k # job[w] => status'[k] = status[k]
    BY <2>1 DEF WorkerFrame, Disturbed
  <2>3. status[job[w]] # "absent"
    BY <2>1 DEF IInv, EnqueuedAfterInsert
  <2>4. Executing(w) /\ status[job[w]] # "deleted" =>
          \/ status[job[w]] = "running"
          \/ /\ job[w] \in Disturbed
             /\ status[job[w]] \in ActiveStatuses \cup TerminalStatuses
    BY <2>1, <2>3 DEF IInv, ExecutingIsRunning, TypeOK
  <2>5. QED
    BY <2>1, <2>2, <2>4, RowStep
    DEF WorkerMoves, IsActive, ActiveStatuses, TerminalStatuses
<1>3. ASSUME NEW w \in Workers, QueueStep(w) PROVE [Lifecycle!Next]_Lifecycle!vars
  <2>1. UNCHANGED <<owner, status>>
    BY <1>3 DEF QueueStep, Deliver, DeliverDuplicate, CutDelivery, jobVars
  <2>2. Disturbed' = Disturbed \/ \E j \in Jobs : Disturbed' = Disturbed \cup {j}
    BY <1>3 DEF QueueStep, Deliver, DeliverDuplicate, CutDelivery, Disturbed, history,
      IInv, TypeOK
  <2>3. QED
    BY <2>1, <2>2 DEF Lifecycle!Next, Lifecycle!Disturb, Lifecycle!vars
<1>4. ASSUME NEW j \in Jobs, Poll(j) PROVE [Lifecycle!Next]_Lifecycle!vars
  <2>1. UNCHANGED <<owner, Disturbed>>
    BY <1>4 DEF Poll, history, Disturbed
  <2>2. \/ status' = status
        \/ IsActive(j) /\ status' = [status EXCEPT ![j] = "failed"]
    BY <1>4 DEF Poll, FailIfStale, Write, RowUnchanged
  <2>3. status'[j] = status[j] \/ (IsActive(j) /\ status'[j] = "failed")
    BY <2>2 DEF IInv, TypeOK
  <2>4. \A k \in Jobs : k # j => status'[k] = status[k]
    BY <2>2 DEF IInv, TypeOK
  <2>5. QED
    BY <2>1, <2>3, <2>4, RowStep
<1>5. ASSUME NEW s \in Sessions, DeleteSession(s) PROVE [Lifecycle!Next]_Lifecycle!vars
  BY <1>5 DEF DeleteSession, history, Disturbed, Lifecycle!Next, Lifecycle!Delete
<1>6. CASE Tick \/ UNCHANGED vars
  BY <1>6 DEF Tick, vars, jobVars, history, Disturbed, Lifecycle!vars
<1>7. QED
  BY <1>1, <1>2, <1>3, <1>4, <1>5, <1>6 DEF Next

\* Every behaviour of the table, the queue and the processes is a behaviour of
\* the documented job lifecycle.
THEOREM JobsImplementLifecycle == Spec => ImplementsLifecycle
<1>1. Init => Lifecycle!Init
  BY DEF Init, Lifecycle!Init, Disturbed
<1>2. QED
  BY <1>1, InvInit, InvNext, RefinesNext, PTL DEF Spec, ImplementsLifecycle, Lifecycle!Spec

\* A finished job stays finished, unless it was deleted or disturbed.
THEOREM TerminalStaysUnlessDisturbed == Spec => TerminalUnlessDisturbed
<1> DEFINE Kept == \A j \in Jobs :
        status[j] \in TerminalStatuses /\ status'[j] # status[j]
            => status'[j] = "deleted" \/ j \in Disturbed'
<1>1. ASSUME [Lifecycle!Next]_Lifecycle!vars, IInv PROVE Kept
  BY <1>1 DEF IInv, TypeOK, TerminalStatuses, Lifecycle!Next, Lifecycle!vars, Lifecycle!Create,
    Lifecycle!Start, Lifecycle!Retry, Lifecycle!Complete, Lifecycle!Fail, Lifecycle!Delete,
    Lifecycle!Disturb, Lifecycle!Overwrite, Lifecycle!Move, Lifecycle!Active
<1>2. IInv /\ IInv' /\ [Next]_vars => [Kept]_vars
  BY <1>1, RefinesNext
<1>3. QED
  BY <1>2, InvInit, InvNext, PTL DEF Spec, TerminalUnlessDisturbed
=============================================================================
