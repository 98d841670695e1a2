---------------------------- MODULE JobLifecycle ----------------------------
(***************************************************************************)
(* What the enrichment job table promises its readers, without the queue,  *)
(* the processes or the clock: the state diagram of                        *)
(* docs/tier-2-technical-understanding.md 4.4, one active job per session, *)
(* and the one exception the implementation needs.  A job is disturbed     *)
(* when the queue gave up a delivery its handler was still working on, or  *)
(* when its enqueueing was reported as failed and happened all the same;   *)
(* nothing orders the writes to such a job any more.                       *)
(***************************************************************************)
CONSTANTS Jobs, Sessions

VARIABLES owner, status, disturbed

vars == <<owner, status, disturbed>>

Active == {"queued", "running"}
Terminal == {"completed", "failed"}

NoOtherActive(j) ==
    \A k \in Jobs \ {j} : owner[k] = owner[j] => status[k] \notin Active

Move(j, from, to) ==
    /\ status[j] \in from
    /\ status' = [status EXCEPT ![j] = to]
    /\ UNCHANGED <<owner, disturbed>>

Init ==
    /\ owner \in [Jobs -> Sessions]
    /\ status = [j \in Jobs |-> "absent"]
    /\ disturbed = {}

Create(j) == NoOtherActive(j) /\ Move(j, {"absent"}, "queued")
Start(j) == Move(j, {"queued"}, "running")
Retry(j) == Move(j, {"running"}, "queued")
Complete(j) == Move(j, {"running"}, "completed")
Fail(j) == Move(j, Active, "failed")

Delete(s) ==
    /\ status' = [j \in Jobs |-> IF owner[j] = s /\ status[j] # "absent"
                                 THEN "deleted" ELSE status[j]]
    /\ UNCHANGED <<owner, disturbed>>

Disturb(j) ==
    /\ disturbed' = disturbed \cup {j}
    /\ UNCHANGED <<owner, status>>

\* A disturbed job's row may be overwritten, short of a second active job.
Overwrite(j) ==
    /\ j \in disturbed
    /\ \E to \in Active \cup Terminal :
        /\ to \in Active => NoOtherActive(j)
        /\ Move(j, Active \cup Terminal, to)

Next ==
    \/ \E j \in Jobs :
        \/ Create(j) \/ Start(j) \/ Retry(j) \/ Complete(j) \/ Fail(j)
        \/ Disturb(j) \/ Overwrite(j)
    \/ \E s \in Sessions : Delete(s)

Spec == Init /\ [][Next]_vars
=============================================================================
