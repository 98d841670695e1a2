--------------------------- MODULE EnrichmentRuns ---------------------------
(***************************************************************************)
(* What an execution of a session's enrichment job does to the database:   *)
(* the run rows the browser reads progress from, the evidence behind them, *)
(* and the changes the user makes meanwhile.  EnrichmentJobs models who    *)
(* may execute a job; here a job is claimed, retried and given up as that  *)
(* module allows, and executions may overlap as they may there.            *)
(*                                                                         *)
(* Every action is one commit, one read that a later commit acts on, or    *)
(* one provider call.  batch() changes none of this: its depth is one, and *)
(* at depth one _commit commits whatever is pending.                       *)
(***************************************************************************)
EXTENDS Naturals, FiniteSets

CONSTANTS
    Listings,       \* ids of confirmed_listings
    MaxExecutions,  \* bound: executions, numbered as they start
    MaxJobs,        \* bound: start requests that create a job
    MaxSaves,       \* bound: profile saves
    MaxClashes,     \* bound: clashes (below)
    Profiles,       \* bound: what a buyer profile may ask for, {} without one
    None            \* no listing

ASSUME BoundsAssumption ==
    /\ MaxExecutions \in Nat
    /\ MaxJobs \in Nat
    /\ MaxSaves \in Nat
    /\ MaxClashes \in Nat

ASSUME NoneAssumption == None \notin Listings

Executions == 1..MaxExecutions

\* "score" stands for fair price, public transport, driving and schools, one
\* at a time, and "property" for the two types that are only ever marked
\* SUCCEEDED.
Types == {"geocoding", "lease", "score", "property", "journey"}

\* Types that are computed only when the buyer profile asks for them: by its
\* transport mode, for schools, or with an important location.  Where "score"
\* stands for the fair price, every session asks for it.
Optional == {"score", "journey"}

ASSUME ProfilesAssumption == Profiles \subseteq SUBSET Optional

Terminal == {"SUCCEEDED", "UNAVAILABLE", "FAILED"}

VARIABLES
    listings,   \* confirmed listings of the session
    removed,    \* listings that were deleted
    saves,      \* profile saves; the last one's locations have its number
    profile,    \* the optional types the saved profile asks for
    job,        \* status of the session's latest job ("created" and "reset"
                \* are queued jobs whose start request is not done)
    round,      \* its number
    started,    \* executions started
    status,     \* listing -> type -> inserter -> status of its run row
    writer,     \* listing -> type -> inserter -> who made that row SUCCEEDED
    field,      \* listing -> type -> writer of the evidence, 0 for none
    step,       \* execution -> where it stands
    serves,     \* execution -> the job it executes
    taken,      \* execution -> listings it read at its start
    location,   \* execution -> number of the save whose locations it read
    asks,       \* execution -> optional types the profile it read asks for
    todo,       \* execution -> listings left in its current loop
    cur,        \* execution -> listing it works on
    type,       \* execution -> type it works on
    target,     \* execution -> inserter of the row its upsert found, 0 for none
    result,     \* execution -> status the current type ends with
    located,    \* execution -> whether cur has coordinates
    open,       \* execution -> whether its session holds a transaction
    clashes     \* history: how often an execution started, or a start
                \* request reset the rows, while another was at work

userVars == <<listings, removed, saves, profile>>
jobVars == <<job, round, started>>
tableVars == <<status, writer, field>>
scopeVars == <<serves, taken, location, asks>>
cursorVars == <<todo, cur, type, target, result, located>>
vars == <<userVars, jobVars, tableVars, step, scopeVars, cursorVars, open,
          clashes>>

-----------------------------------------------------------------------------
Steps == {"idle", "next", "read", "write", "work", "save", "settle",
          "journeys", "mark", "store", "end"}

\* Steps at which an execution has a listing and a type in hand.
InHand == {"read", "write", "save", "settle"}

TypeOK ==
    /\ listings \subseteq Listings
    /\ removed \subseteq Listings \ listings
    /\ saves \in 0..MaxSaves
    /\ profile \subseteq Optional
    /\ job \in {"none", "created", "reset", "queued", "running", "completed",
                "failed", "refused"}
    /\ round \in 0..MaxJobs
    /\ started \in 0..MaxExecutions
    /\ status \in [Listings -> [Types -> [Executions ->
                     Terminal \cup {"none", "QUEUED", "RUNNING"}]]]
    /\ writer \in [Listings -> [Types -> [Executions -> 0..MaxExecutions]]]
    /\ field \in [Listings -> [Types -> 0..MaxExecutions]]
    /\ step \in [Executions -> Steps]
    /\ serves \in [Executions -> 0..MaxJobs]
    /\ taken \in [Executions -> SUBSET Listings]
    /\ location \in [Executions -> 0..MaxSaves]
    /\ asks \in [Executions -> SUBSET Optional]
    /\ todo \in [Executions -> SUBSET Listings]
    /\ \A e \in Executions : todo[e] \subseteq taken[e]
    /\ cur \in [Executions -> Listings \cup {None}]
    /\ \A e \in Executions : step[e] \in InHand => cur[e] \in taken[e]
    /\ type \in [Executions -> Types]
    /\ target \in [Executions -> 0..MaxExecutions]
    /\ result \in [Executions -> Terminal]
    /\ located \in [Executions -> BOOLEAN]
    /\ open \in [Executions -> BOOLEAN]
    /\ clashes \in 0..MaxClashes

NoRows == [t \in Types |-> [e \in Executions |-> "none"]]
NoWriters == [t \in Types |-> [e \in Executions |-> 0]]
NoFields == [t \in Types |-> 0]

Init ==
    /\ listings \in SUBSET Listings
    /\ removed = {}
    /\ saves = 0
    /\ profile \in Profiles
    /\ job = "none"
    /\ round = 0
    /\ started = 0
    /\ status = [l \in Listings |-> NoRows]
    /\ writer = [l \in Listings |-> NoWriters]
    /\ field = [l \in Listings |-> NoFields]
    /\ step = [e \in Executions |-> "idle"]
    /\ serves = [e \in Executions |-> 0]
    /\ taken = [e \in Executions |-> {}]
    /\ location = [e \in Executions |-> 0]
    /\ asks = [e \in Executions |-> {}]
    /\ todo = [e \in Executions |-> {}]
    /\ cur = [e \in Executions |-> None]
    /\ type = [e \in Executions |-> "geocoding"]
    /\ target = [e \in Executions |-> 0]
    /\ result = [e \in Executions |-> "SUCCEEDED"]
    /\ located = [e \in Executions |-> FALSE]
    /\ open = [e \in Executions |-> FALSE]
    /\ clashes = 0

AtWork(e) == step[e] # "idle"

CountClash ==
    IF \E e \in Executions : AtWork(e)
    THEN clashes < MaxClashes /\ clashes' = clashes + 1
    ELSE UNCHANGED clashes

-----------------------------------------------------------------------------
(* The user: listings, profile, start requests.                            *)

AddListing(l) ==
    /\ l \notin listings \cup removed
    /\ listings' = listings \cup {l}
    /\ UNCHANGED <<removed, saves, profile, jobVars, tableVars, step,
                   scopeVars, cursorVars, open, clashes>>

\* The listing's rows are no longer found by its id.
RemoveListing(l) ==
    /\ l \in listings
    /\ listings' = listings \ {l}
    /\ removed' = removed \cup {l}
    /\ status' = [status EXCEPT ![l] = NoRows]
    /\ writer' = [writer EXCEPT ![l] = NoWriters]
    /\ field' = [field EXCEPT ![l] = NoFields]
    /\ UNCHANGED <<saves, profile, jobVars, step, scopeVars, cursorVars, open,
                   clashes>>

\* PUT .../buyer-profile: every save draws new location ids and deletes the
\* old locations, whose journey estimates go with them.  It may leave no
\* location, change the transport mode or turn the schools off; the run rows
\* of what is no longer asked for stay.
SaveProfile ==
    /\ saves < MaxSaves
    /\ saves' = saves + 1
    /\ profile' \in Profiles
    /\ field' = [l \in Listings |-> [field[l] EXCEPT !["journey"] = 0]]
    /\ UNCHANGED <<listings, removed, jobVars, status, writer, step, scopeVars,
                   cursorVars, open, clashes>>

\* POST .../enrichment/start creates a job when none is active ...
Start ==
    /\ job \in {"none", "completed", "failed", "refused"}
    /\ round < MaxJobs
    /\ round' = round + 1
    /\ job' = "created"
    /\ UNCHANGED <<userVars, started, tableVars, step, scopeVars, cursorVars,
                   open, clashes>>

\* ... resets the run rows, those of types the profile no longer asks for
\* among them (mark_runs_queued) ...
ResetRuns ==
    /\ job = "created"
    /\ job' = "reset"
    /\ status' = [l \in Listings |-> [t \in Types |-> [e \in Executions |->
                    IF l \in listings /\ status[l][t][e] # "none"
                    THEN "QUEUED" ELSE status[l][t][e]]]]
    /\ writer' = [l \in Listings |-> IF l \in listings THEN NoWriters ELSE writer[l]]
    /\ CountClash
    /\ UNCHANGED <<userVars, round, started, field, step, scopeVars, cursorVars,
                   open>>

\* ... and dispatches the task, or marks the job failed ("refused": its
\* error_code is task_enqueue_failed).
Dispatch ==
    /\ job = "reset"
    /\ job' \in {"queued", "refused"}
    /\ UNCHANGED <<userVars, round, started, tableVars, step, scopeVars,
                   cursorVars, open, clashes>>

\* Polling fails a job whose lease has run out, wherever it stands.
GiveUp ==
    /\ job \in {"created", "reset", "queued", "running"}
    /\ job' = "failed"
    /\ UNCHANGED <<userVars, round, started, tableVars, step, scopeVars,
                   cursorVars, open, clashes>>

-----------------------------------------------------------------------------
(* An execution's moves.                                                   *)

Goto(e, where) == step' = [step EXCEPT ![e] = where]

TablesUnchanged == UNCHANGED <<userVars, jobVars, tableVars, clashes>>

\* Locals of an execution that is over have their first values again.
Rest(e) ==
    /\ Goto(e, "idle")
    /\ open' = [open EXCEPT ![e] = FALSE]
    /\ serves' = [serves EXCEPT ![e] = 0]
    /\ todo' = [todo EXCEPT ![e] = {}]
    /\ cur' = [cur EXCEPT ![e] = None]
    /\ type' = [type EXCEPT ![e] = "geocoding"]
    /\ target' = [target EXCEPT ![e] = 0]
    /\ result' = [result EXCEPT ![e] = "SUCCEEDED"]
    /\ located' = [located EXCEPT ![e] = FALSE]
    /\ UNCHANGED <<taken, location, asks>>

CursorUnchanged == UNCHANGED <<scopeVars, cursorVars>>

\* complete, fail_permanently and requeue_retryable write the job's own row.
EndAs(e, outcome) ==
    /\ Rest(e)
    /\ job' = IF serves[e] = round THEN outcome ELSE job
    /\ UNCHANGED <<userVars, round, started, clashes>>

\* An error nothing guards ends the execution: its job fails, or is queued
\* again when the error is transient and attempts are left.
Raise(e) == EndAs(e, "failed") \/ EndAs(e, "queued")

\* A claim of the queued job, or of one whose execution was given up, reads
\* the session once.
StartExecution(e) ==
    /\ e = started + 1
    /\ job \in {"queued", "running"}
    /\ job' = "running"
    /\ started' = e
    /\ serves' = [serves EXCEPT ![e] = round]
    /\ taken' = [taken EXCEPT ![e] = listings]
    /\ location' = [location EXCEPT ![e] = saves]
    /\ asks' = [asks EXCEPT ![e] = profile]
    /\ todo' = [todo EXCEPT ![e] = listings]
    /\ Goto(e, "next")
    /\ CountClash
    /\ UNCHANGED <<userVars, round, tableVars, cur, type, target, result,
                   located, open>>

\* The process dies, or its instance is taken away.
Crash(e) ==
    /\ AtWork(e)
    /\ Rest(e)
    /\ TablesUnchanged

\* The next listing is reloaded after the last commit: ObjectDeletedError
\* when it is gone.
NextListing(e) ==
    /\ step[e] = "next"
    /\ \E l \in todo[e] :
        \/ /\ l \in listings
           /\ todo' = [todo EXCEPT ![e] = @ \ {l}]
           /\ cur' = [cur EXCEPT ![e] = l]
           /\ type' = [type EXCEPT ![e] = "geocoding"]
           /\ located' = [located EXCEPT ![e] = FALSE]
           /\ Goto(e, "read")
           /\ TablesUnchanged
           /\ UNCHANGED <<scopeVars, target, result, open>>
        \/ /\ l \notin listings
           /\ Raise(e)
           /\ UNCHANGED tableVars

ListingsDone(e) ==
    /\ step[e] = "next"
    /\ todo[e] = {}
    /\ Goto(e, IF "journey" \in asks[e] THEN "journeys" ELSE "end")
    /\ TablesUnchanged
    /\ CursorUnchanged
    /\ UNCHANGED open

-----------------------------------------------------------------------------
(* upsert_run and save_enriched_field.                                     *)

\* Inserters of the rows of a listing and type.
Rows(l, t) == {e \in Executions : status[l][t][e] # "none"}

\* Mutant: every upsert inserts.
NoneFound(l, t) == {}

\* What the query of an upsert returns.
RowsFound(l, t) == Rows(l, t)

SetRow(l, t, row, new, e) ==
    /\ status' = [status EXCEPT ![l][t][row] = new]
    /\ writer' = [writer EXCEPT ![l][t][row] = IF new = "SUCCEEDED" THEN e ELSE 0]

\* Where an execution goes once a type is marked.
AfterMark(t) ==
    CASE t = "property" -> "next"
      [] t = "journey" -> "mark"
      [] OTHER -> "work"

\* upsert_run reads: nothing is done for a listing that is gone, and the
\* transaction the read began stays.
ReadRun(e) ==
    /\ step[e] = "read"
    /\ open' = [open EXCEPT ![e] = TRUE]
    /\ \/ /\ cur[e] \notin listings
          /\ Goto(e, AfterMark(type[e]))
          /\ UNCHANGED target
       \/ /\ cur[e] \in listings
          /\ \/ /\ RowsFound(cur[e], type[e]) = {}
                /\ target' = [target EXCEPT ![e] = 0]
             \/ \E row \in RowsFound(cur[e], type[e]) :
                target' = [target EXCEPT ![e] = row]
          /\ Goto(e, "write")
    /\ TablesUnchanged
    /\ UNCHANGED <<scopeVars, todo, cur, type, result, located>>

Marked(e) ==
    /\ target' = [target EXCEPT ![e] = 0]
    /\ UNCHANGED <<scopeVars, todo, cur, type, result, located>>

MarkedAs(t) == IF t = "property" THEN "SUCCEEDED" ELSE "RUNNING"

\* Mutant: at depth one the commit waits for the end of the batch.
WriteRunCoalesced(e) ==
    /\ step[e] = "write"
    /\ cur[e] \in listings
    /\ SetRow(cur[e], type[e], IF target[e] = 0 THEN e ELSE target[e],
              MarkedAs(type[e]), e)
    /\ Goto(e, AfterMark(type[e]))
    /\ Marked(e)
    /\ UNCHANGED <<userVars, jobVars, field, open, clashes>>

\* ... and commits its marker.  An insert for a listing deleted since breaks
\* the foreign key; an update of its detached row is seen by nobody.
WriteRun(e) ==
    /\ step[e] = "write"
    /\ \/ /\ cur[e] \in listings
          /\ SetRow(cur[e], type[e], IF target[e] = 0 THEN e ELSE target[e],
                    MarkedAs(type[e]), e)
          /\ Goto(e, AfterMark(type[e]))
          /\ open' = [open EXCEPT ![e] = FALSE]
          /\ Marked(e)
          /\ UNCHANGED <<userVars, jobVars, field, clashes>>
       \/ /\ cur[e] \notin listings
          /\ target[e] # 0
          /\ Goto(e, AfterMark(type[e]))
          /\ open' = [open EXCEPT ![e] = FALSE]
          /\ TablesUnchanged
          /\ Marked(e)
       \/ /\ cur[e] \notin listings
          /\ target[e] = 0
          /\ Raise(e)
          /\ UNCHANGED tableVars

\* Mutant: the evidence is never committed.
SaveLost(e) ==
    /\ step[e] = "save"
    /\ Goto(e, "settle")
    /\ TablesUnchanged
    /\ CursorUnchanged
    /\ UNCHANGED open

\* Mutant: evidence that is there already is left as it is.
SaveKeeps(e) ==
    /\ step[e] = "save"
    /\ field' = IF cur[e] \in listings /\ field[cur[e]][type[e]] = 0
                THEN [field EXCEPT ![cur[e]][type[e]] = e] ELSE field
    /\ Goto(e, "settle")
    /\ CursorUnchanged
    /\ UNCHANGED <<userVars, jobVars, status, writer, open, clashes>>

\* save_enriched_field, update_lease_estimate or save_journey_estimate.  The
\* lease raises for a listing that is gone; the others skip it, or break the
\* foreign key when it went after their check.  An estimate also needs the
\* location the execution read.
Save(e) ==
    /\ step[e] = "save"
    /\ \/ /\ cur[e] \in listings
          /\ type[e] = "journey" => location[e] = saves
          /\ field' = [field EXCEPT ![cur[e]][type[e]] = e]
          /\ Goto(e, "settle")
          /\ CursorUnchanged
          /\ UNCHANGED <<userVars, jobVars, status, writer, open, clashes>>
       \/ /\ cur[e] \notin listings
          /\ type[e] # "lease"
          /\ Goto(e, "settle")
          /\ TablesUnchanged
          /\ CursorUnchanged
          /\ UNCHANGED open
       \/ /\ cur[e] \notin listings \/ (type[e] = "journey" /\ location[e] # saves)
          /\ Raise(e)
          /\ UNCHANGED tableVars

\* What follows a type that is settled: a score only if the profile asks.
Following(e) ==
    CASE type[e] = "geocoding" -> "lease"
      [] type[e] = "lease" -> IF "score" \in asks[e] THEN "score" ELSE "property"
      [] type[e] = "score" -> "property"
      [] OTHER -> type[e]

\* upsert_run with the type's final status.
Settle(e) ==
    /\ step[e] = "settle"
    /\ \/ /\ cur[e] \in listings
          /\ \/ /\ RowsFound(cur[e], type[e]) = {}
                /\ SetRow(cur[e], type[e], e, result[e], e)
             \/ \E row \in RowsFound(cur[e], type[e]) :
                SetRow(cur[e], type[e], row, result[e], e)
       \/ /\ cur[e] \notin listings
          /\ UNCHANGED <<status, writer>>
    /\ type' = [type EXCEPT ![e] = Following(e)]
    /\ Goto(e, IF type[e] = "journey" THEN "store" ELSE "read")
    /\ result' = [result EXCEPT ![e] = IF type[e] = "journey" THEN @ ELSE "SUCCEEDED"]
    /\ UNCHANGED <<userVars, jobVars, field, scopeVars, todo, cur, target,
                   located, open, clashes>>

-----------------------------------------------------------------------------
(* Provider calls and calculations.                                        *)

\* The call returns; the type will end as r, its evidence saved first.
Returns(e, r) ==
    /\ result' = [result EXCEPT ![e] = r]
    /\ Goto(e, "save")
    /\ TablesUnchanged
    /\ UNCHANGED <<scopeVars, todo, cur, type, target, open>>

\* The type ends as r without evidence.
Skips(e, r) ==
    /\ result' = [result EXCEPT ![e] = r]
    /\ Goto(e, "settle")
    /\ TablesUnchanged
    /\ UNCHANGED <<scopeVars, todo, cur, type, target, located, open>>

\* Geocoding guards its call: a failure is recorded and the listing goes on
\* without coordinates.
Geocode(e) ==
    /\ step[e] = "work"
    /\ type[e] = "geocoding"
    /\ \/ Returns(e, "SUCCEEDED") /\ located' = [located EXCEPT ![e] = TRUE]
       \/ Skips(e, "FAILED")

EstimateLease(e) ==
    /\ step[e] = "work"
    /\ type[e] = "lease"
    /\ \/ Returns(e, "SUCCEEDED") /\ UNCHANGED located
       \/ Raise(e) /\ UNCHANGED tableVars

\* Mutant: transport without coordinates is left as it was marked.
ScoreContinues(e) ==
    /\ step[e] = "work"
    /\ type[e] = "score"
    /\ ~located[e]
    /\ type' = [type EXCEPT ![e] = Following(e)]
    /\ Goto(e, "read")
    /\ TablesUnchanged
    /\ UNCHANGED <<scopeVars, todo, cur, target, result, located, open>>

\* Fair price, transport, driving, schools: a result, none, or an error.
\* Transport and driving are not computed without coordinates.
Score(e) ==
    /\ step[e] = "work"
    /\ type[e] = "score"
    /\ \/ \E r \in {"SUCCEEDED", "UNAVAILABLE"} :
            Returns(e, r) /\ UNCHANGED located
       \/ ~located[e] /\ Skips(e, "UNAVAILABLE")
       \/ Raise(e) /\ UNCHANGED tableVars

\* Mutant: the journeys query the session's listings again.
JourneysRequery(e) ==
    /\ step[e] = "journeys"
    /\ todo' = [todo EXCEPT ![e] = listings]
    /\ type' = [type EXCEPT ![e] = "journey"]
    /\ Goto(e, "mark")
    /\ TablesUnchanged
    /\ UNCHANGED <<scopeVars, cur, target, result, located, open>>

\* _enrich_journeys reloads every listing and takes its geocode, or a fixed
\* point where it has none, as its origin.  It marks them all RUNNING ...
Journeys(e) ==
    /\ step[e] = "journeys"
    /\ \/ /\ taken[e] \subseteq listings
          /\ todo' = [todo EXCEPT ![e] = taken[e]]
          /\ type' = [type EXCEPT ![e] = "journey"]
          /\ Goto(e, "mark")
          /\ TablesUnchanged
          /\ UNCHANGED <<scopeVars, cur, target, result, located, open>>
       \/ /\ ~(taken[e] \subseteq listings)
          /\ Raise(e)
          /\ UNCHANGED tableVars

TakeNext(e, where) ==
    /\ \E l \in todo[e] :
        /\ todo' = [todo EXCEPT ![e] = @ \ {l}]
        /\ cur' = [cur EXCEPT ![e] = l]
    /\ Goto(e, where)
    /\ TablesUnchanged
    /\ UNCHANGED <<scopeVars, type, target, result, located, open>>

MarkJourneys(e) ==
    /\ step[e] = "mark"
    /\ \/ TakeNext(e, "read")
       \/ /\ todo[e] = {}
          /\ Goto(e, "work")
          /\ TablesUnchanged
          /\ CursorUnchanged
          /\ UNCHANGED open

\* ... asks for the matrix, which it guards ...
RouteMatrix(e) ==
    /\ step[e] = "work"
    /\ type[e] = "journey"
    /\ \E r \in {"SUCCEEDED", "FAILED"} : result' = [result EXCEPT ![e] = r]
    /\ todo' = [todo EXCEPT ![e] = taken[e]]
    /\ Goto(e, "store")
    /\ TablesUnchanged
    /\ UNCHANGED <<scopeVars, cur, type, target, located, open>>

\* ... and stores an estimate and a status for each listing.
StoreJourneys(e) ==
    /\ step[e] = "store"
    /\ \/ TakeNext(e, "save")
       \/ /\ todo[e] = {}
          /\ Goto(e, "end")
          /\ TablesUnchanged
          /\ CursorUnchanged
          /\ UNCHANGED open

Finish(e) ==
    /\ step[e] = "end"
    /\ EndAs(e, "completed")
    /\ UNCHANGED tableVars

-----------------------------------------------------------------------------
ExecutionStep(e) ==
    \/ StartExecution(e) \/ Crash(e) \/ NextListing(e) \/ ListingsDone(e)
    \/ ReadRun(e) \/ WriteRun(e) \/ Save(e) \/ Settle(e) \/ Geocode(e)
    \/ EstimateLease(e) \/ Score(e) \/ Journeys(e) \/ MarkJourneys(e)
    \/ RouteMatrix(e) \/ StoreJourneys(e) \/ Finish(e)

UserStep ==
    \/ \E l \in Listings : AddListing(l) \/ RemoveListing(l)
    \/ SaveProfile \/ Start \/ ResetRuns \/ Dispatch \/ GiveUp

Next == UserStep \/ \E e \in Executions : ExecutionStep(e)

Spec == Init /\ [][Next]_vars

-----------------------------------------------------------------------------
(* What the run rows tell their readers.                                   *)

\* Rows (listing, type, inserter) that read SUCCEEDED and promise evidence.  A
\* profile saved since takes the journey estimates with it.
Succeeded ==
    {r \in listings \X (Types \ {"property"}) \X Executions :
        /\ status[r[1]][r[2]][r[3]] = "SUCCEEDED"
        /\ r[2] = "journey" => location[writer[r[1]][r[2]][r[3]]] = saves}

\* A run that reads SUCCEEDED has evidence in the database, however
\* executions overlap and whatever the user removes.
SuccessIsBacked == \A r \in Succeeded : field[r[1]][r[2]] # 0

\* ... and it is the evidence of the execution that set the status, not one
\* an earlier execution left, unless executions clashed.
SuccessIsFresh ==
    clashes = 0 => \A r \in Succeeded :
        field[r[1]][r[2]] = writer[r[1]][r[2]][r[3]]

\* What an execution does for a listing: what it does for every session, and
\* what the profile it read asks for.
Planned(e) == (Types \ Optional) \cup asks[e]

\* After a job completes, every type planned for a listing it took and that
\* is still there has a row, and the row has ended, unless executions
\* clashed.  Rows of other types are excepted: the start request resets what
\* an earlier profile asked for too, nothing settles it, and the browser goes
\* on showing it as running (enrichment-progress.ts:75).
CompletedMeansSettled ==
    job = "completed" /\ clashes = 0 =>
        \A l \in taken[started] \cap listings, t \in Planned(started) :
            /\ Rows(l, t) # {}
            /\ \A e \in Rows(l, t) : status[l][t][e] \in Terminal

\* The check-then-insert of an upsert leaves one row for a listing and type,
\* unless executions clashed.
OneRunPerType ==
    clashes = 0 =>
        \A l \in Listings, t \in Types : Cardinality(Rows(l, t)) <= 1

\* No transaction is open while a provider is waited for
\* (enrichment_repository.py:86), except for a listing that went away.
ProvidersHoldNoTransaction ==
    \A e \in Executions :
        step[e] = "work" /\ taken[e] \subseteq listings => ~open[e]

\* enrichment_repository.py:184, "Avoid leaving a run permanently queued when
\* dispatch itself fails."
NoRunStaysQueued ==
    job = "refused" =>
        \A l \in listings, t \in Types, e \in Executions :
            status[l][t][e] # "QUEUED"

\* docs/nearhome-spec.md:1242: without coordinates a listing's location
\* features are disabled, so a journey that reads SUCCEEDED starts at one.
JourneysStartAtTheListing ==
    \A l \in listings, e \in Executions :
        status[l]["journey"][e] = "SUCCEEDED" => field[l]["geocoding"] # 0
=============================================================================
