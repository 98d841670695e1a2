# NearHome in TLA+

NearHome helps a buyer compare two to five HDB resale flats. A browser client
talks to a public FastAPI service; slow work (geocoding, lease, fair price,
transport, journeys) is done by a private worker that Cloud Tasks calls; both
keep their state in one PostgreSQL database. This directory holds TLA+ models
of that backend, the TLC runs that check them and the proofs TLAPS checks.

The reference is the code. `PROJECT.json` maps every definition to the lines it
stands for and lists the runs, the mutants that show each property can fail,
the hazards, the findings and the theorems. Paths below are relative to
`src/apps/api/app/` unless they say otherwise.

## 1. Inventory

| Component | State | Operations | Talks to | Hard behaviour | What makes it correct |
| --- | --- | --- | --- | --- | --- |
| Durable enrichment jobs (`repositories/enrichment_job_repository.py`, `api/routes.py`, `worker_main.py`, migration 009) | `enrichment_jobs` rows: status, stage, attempts, updated_at | start, claim, set_stage, complete, fail, requeue, fail_if_stale | queue, worker, browser | racing starts, redelivery, lost answers, crashes, staleness | one active job per session, one execution per job, ends are final and reached |
| Cloud Tasks (`jobs/cloud_tasks.py`, `src/scripts/configure-enrichment-queue.sh`) | tasks (external) | create_task, deliver, retry, give up | API, worker | at least once, deadline, doubtful create | 2xx ends a task, other answers repeat it |
| Session shortlist and profile (`repositories/session_repository.py`, `models/orm.py`, migration 001) | sessions, listings, inputs, extractions, profiles, evidence rows | add, confirm, discard, remove, delete, save profile | every reader | limit checked apart from its insert, cascades, cut-off requests | bounded shortlist, no duplicate flat, no draft left behind or taken away |
| Enrichment pipeline (`services/enrichment_service.py`, `repositories/enrichment_repository.py`) | run rows, enriched fields, journey estimates | one pipeline per listing, then journeys | providers, jobs, shortlist | crash in mid-run, listing or profile changed in mid-run, overlapping executions | a status never claims more than the evidence behind it; a completed job leaves nothing it planned spinning |
| Decision engines (`engines/requirement_engine.py`, `preference_scoring.py`, `recommendation.py`, `immediate_comparison.py`, `services/comparison_service.py`) | none (pure) | filter, rank, recommend | comparison endpoint | chains of near-equal scores, missing metrics | a flat that fails a requirement is never recommended; ranks follow fits; missing evidence moves no flat |
| Fair price and lease (`engines/fair_price*.py`, `services/lease_estimation.py`) | lease cache | comparable relaxation ladder, evidence order | pipeline | order of relaxations, empty evidence, feedback of stored leases | only past sales count; HIGH needs close ones; a lease comes from the flat's own block; a model is not older than its metadata |
| Smart Paste (`services/smart_paste/*`) | extraction attempts | retrieve, extract, reconcile | LLM, shortlist | retrieval fallbacks, an open transaction across the LLM call | every accepted value has a source |
| Routing (`adapters/routing/*`) | HTTP client, route cache | bounded concurrent calls, fallback | Google, engines | shared client created lazily, partial failure of a batch | each call gets its own answer; clients are bounded |
| Transport and driving engines (`engines/public_transport/*`, `engines/driving/*`, `networks/*`) | loaded graphs | score a flat | routing, pipeline | coverage of partial results | no score without its evidence |
| Car park availability (`adapters/parking/hdb_availability.py`, `repositories/carpark_repository.py`) | class-wide cache | fetch, publish, match | pipeline | slow downloads, a label settled before it is shown | LIVE means recent |
| Inline and ARQ executors (`jobs/queue.py`, `jobs/tasks.py`, `jobs/worker.py`) | none | run a job in process | jobs | none beyond the jobs' own | as the jobs |
| Rate limiter (`core/rate_limit.py`) | windows per client | allow | middleware | window edges | at most the limit per window |
| Web client (`src/apps/web/src`) | polling state | start, poll, show | API | polling through errors | it stops at a terminal status |
| Data pipeline (`src/data_pipeline`) | reference files | offline builds | files the API loads | an approximate search that loses a match | the catalogue of entries misses none (major roads only) |
| Model evaluation (`evaluation/`), deployment scripts | files | offline | files | none at run time | not modelled |

How they interact: `POST .../enrichment/start` commits a job row, resets the
run rows of the session and calls `create_task`. The queue delivers the task to
the worker, which claims the row by a conditional update, runs the pipeline
(provider calls between commits) and writes the end of the job. The browser
polls `GET /jobs/{id}`, which also fails a job whose lease has run out, and
`.../enrichment/status`, which reads the run rows. Nothing stops the user from
adding or removing listings, saving the profile or deleting the session
meanwhile; the processes share nothing but the database.

## 2. The modules

| Module | Models | Composed with |
| --- | --- | --- |
| `JobLifecycle` | abstract: the state diagram of a job, one active job per session, and what may happen to a disturbed job | |
| `EnrichmentJobs` | the job table, start requests, queue, worker handlers, polling, deletion, time | refines `JobLifecycle` |
| `EnrichmentJobsProofs` | proofs about it | |
| `Shortlist` | abstract: the shortlist a buyer relies on | |
| `SessionStore` | sessions, listings, drafts, extractions, evidence, and concurrent requests on them | refines `Shortlist` |
| `SessionStoreProofs` | proofs about it | |
| `BuyerProfile` | saving a profile, the ids in it, and the comparison that reads it | |
| `EnrichmentRuns` | what executions write for a session's listings, and the user's changes meanwhile | takes the job's claim, retry and end from `EnrichmentJobs`, coarsened |
| `EnrichmentRunsProofs` | proofs about it | |
| `RouteBatch` | one execution's bounded route calls, their client and cache | |
| `Availability` | live car park lots: download, retry, cache, label | |
| `ModelArtifact` | the trained price model's two files between trainer and server | |
| `SmartPaste` | a paste from its request to its answer | |
| `RateLimit` | the request window of a client | |
| `ServiceProofs` | proofs about `Availability`, `BuyerProfile`, `ModelArtifact`, `RateLimit`, `SmartPaste`, `RouteBatch`, and about `Services` | extends `Services` and `DecisionProofs` |
| `LeaseEstimate` | evidence of a lease and its cache | |
| `FairPrice` | comparable sales, estimate and confidence of one valuation | |
| `Comparison` | requirements, scores, ranks, recommendation | |
| `DecisionProofs` | proofs about `LeaseEstimate`, `FairPrice`, `Comparison` | extends them |
| `BusCorridors`, `RailReach`, `TransportRollup` | distinct bus corridors; stations in reach; scores of a transport model | |
| `PublicTransport` | the routed calls and the public-transport score of a flat | extends the three above |
| `Driving` | the routed calls and the driving score of a flat | extends `TransportRollup` |
| `MajorRoads` | build, load and lookup of the catalogue of major-road entries | |
| `RouteOverlap` | how much road two drives share | |
| `NetworkProofs` | proofs about `BusCorridors`, `RailReach`, `RouteOverlap` | extends them |
| `TransportProofs` | proofs about `Driving`, `PublicTransport`, `MajorRoads` | extends them |
| `OrderFacts` | lemmas on finite sets of numbers, total orders and rounded quotients | |
| `Services` | all of these (the services and the decision rules), explored one at a time | extends them |
| `MCServices` | their small instances for TLC | extends `Services` |
| `MCEnrichmentJobs`, `MCSessionStore`, `MCEnrichmentRuns` | symmetry sets for TLC | |

### EnrichmentJobs

One action is one transaction (READ COMMITTED), one queue call or one response;
`pc`/`apc` say where a handler stands between two of them. A start request goes
`ApiBegin` (404 or continue) - `ApiExpire` (`fail_stale_active_for_session`) -
`ApiLookup` - `ApiInsert` - on an IntegrityError `ApiRelookup` - `ApiDispatch`,
`ApiDispatchRefused` or `ApiDispatchUnsure` (the queue accepted the task and the
call failed) - `ApiMarkEnqueueFailed`. A delivery goes `WorkerRead`,
`WorkerRequeueIfStale`, `WorkerClaim`, `WorkerLoad`, any number of
`WorkerSetStage`, then `WorkerComplete`, `WorkerFail` or `WorkerRequeue`, and
`WorkerReply`. `Poll` is the polling endpoint with its `fail_if_stale`.

What is abstracted, and why it loses nothing the properties ask about:

- `age` counts time since `updated_at` only for active rows, up to `StaleAfter`:
  no query reads it otherwise.
- `cut` and `unsure` are history variables. They name the two events after which
  the queue and the table have different ideas of a job: the queue gave up on a
  handler that is still running, or accepted a task whose creation was reported
  as failed.
- The queue may run any number of tasks at once. The deployed queue bounds them,
  so the model has more behaviours than production.
- The reset of the run rows between the insert and the dispatch is only a window
  for `ApiCrash` here; `EnrichmentRuns` models what it writes.
- Only the `cloud_tasks` mode is modelled. Settings refuse the others in
  production.
- "cancelled" is named in `TERMINAL_STATUSES` and written by no code.

### SessionStore

A request is a process. `ManualBegin` and `ConfirmBegin` are the 404 and
duplicate checks; `CheckLimit` and `InsertListing` are the two halves of
`confirm_listing`, apart because the count is read before the insert and no
constraint bounds the table; `Refuse`/`Cleanup` are the manual route's removal
of its draft; `DiscardBegin`/`Discard` are the two halves of
`discard_listing_input`, whose second half looks at a relationship loaded by the
first. `uq_listing_dup` and the foreign keys are guards of `InsertListing`.

Deletion follows the ORM before the database: for a relationship without
`passive_deletes` SQLAlchemy sets the children's key to NULL, so the
`ON DELETE CASCADE` in the schema never sees them. The migrations leave those
columns nullable, so the rows stay. `home`, `draft` and `paste` therefore know
"orphan" (the key was NULLed) and "gone" (deleted).

A pasted draft may be confirmed more than once, by the code's own rules; a
manual draft's id reaches the client only together with its listing. Clients
confirm and discard drafts of their own session.

### EnrichmentRuns

An execution reads the session once (`taken`, `location`, `asks`), then for each listing
marks a type RUNNING and commits (`ReadRun`, `WriteRun`), calls a provider or
calculates (`Geocode`, `EstimateLease`, `Score`), saves evidence (`Save`) and
sets the final status (`Settle`); afterwards it marks the journeys of all
listings, asks for one matrix and stores the answers. `Raise` is any error
nothing guards; geocoding and the route matrix are the two that are guarded.
`Crash` may come anywhere. `batch()` has depth one, and at depth one `_commit`
commits whatever is pending, so every write above is its own commit.

A row is identified by (listing, type, inserter), because nothing but the
check in `upsert_run` keeps two rows of a type apart. Fair price, public
transport, driving and schools share the step `Score`; transaction and property
data, which are only ever marked SUCCEEDED, share "property". There is one
important location with one mode, or none.

A profile asks for optional types (`Optional`: journeys by naming a location,
transport by the mode, schools by the switch), and a save may drop some
(`SaveProfile`). An execution computes what the profile it read asks for
(`Planned`); the rows of other types stay as the start request has left them,
which is QUEUED, because `mark_runs_queued` resets every row of the listings.

### BuyerProfile

A save reads the stored rows (`BeginSave`) and flushes later (`CommitSave`, or
`SaveFails` with the unique index or the foreign key). It deletes what it has
read and numbers its location anew, so a location's id is the number of its
save. The body names ids that some tab has read before; the handler checks none
of them. `ON DELETE SET NULL` on a requirement's location is `Cleared`. Where
the order of a flush is not fixed both outcomes are allowed. `Compare` is the
comparison's validation of the stored requirements, `StoreDriving` the journey
an execution leaves.

### RouteBatch, Availability, ModelArtifact, RateLimit, SmartPaste

These are the services whose steps interleave.

- `RouteBatch`: a batch removes repeated keys, its unique calls go through a
  pool, and a thread's stages are its reads and writes of what is shared:
  `Take`, `LookupHit` or `LookupMiss` (Redis has nothing or refuses),
  `NeedClient` (`if self._client is None`), `CreateClient`, `UseClient`,
  `Answered` or `Refused`, `StoreRoute`. `Collect` hands the outcomes out by
  key; `CloseProvider` is the `finally` of the execution. Trips share a cache
  slot when their rounded points and time bucket agree.
- `Availability`: a run's provider downloads the feed, tries an HTTP error once
  more and keeps the parsed records with their labels for a while. The cache is
  documented as the process's but assigned on the instance, so each run has its
  own.
- `ModelArtifact`: the trainer stages, then replaces the model and the metadata
  one after the other and may stop between; threads read the metadata, compare
  its snapshot key, load the model, and keep it until the process ends.
- `RateLimit`: `dispatch` has no await between its read and its write, so a
  request is one step.
- `SmartPaste`: a request goes through redirects, a fetch, maybe one of the few
  browsers, the model with its one retry, validation and reconciliation. Its
  rows are flushed before the model is called and committed after. A restart of
  the server may come anywhere.

### The decision rules

`LeaseEstimate`, `FairPrice`, `Comparison`, `BusCorridors`, `RailReach`,
`RouteOverlap` and `MajorRoads` are algorithms: their operators are translated
from the code, a step applies them to one member of a table of inputs (or, for
the lease cache and the catalogue, one input after another), and the properties
compare the answer with a definition that does not follow the code's way of
finding it. `PublicTransport` and `Driving` add the calls: each routed call
answers with a member of a small set or fails on its own, and the stages are
those of the engines (walks, feeders, rollup; summaries, details, alternatives,
parking, rollup).

Where what a loop builds can be said at once, the operator says it: a bucket of
`RateLimit` is the set of its admissions, the groups of the union-find are what
no set that keeps overlapping pairs together can separate, `EntryNodes` is the
set of junctions that the thinning loop keeps (one stays when it can be entered,
no earlier one that stays is near, and there is still room), and a sorted list
cut to its first entries has at each place the one with so many before it. A
loop that carries a state from turn to turn (`SharedStops`, `ShortestPath`,
`CheapestPath`) is a recursive function over its turns. The properties define
their answers in yet another way.

Numbers are integers in the smallest unit the code distinguishes (tenths of a
minute or a point, hundredths of a fit, 36ths of a metre for the matching
costs), with the code's rounding. Where the code compares a difference of floats
with a threshold that the exact difference meets (0.01 between ranks, 3 points
for a tie), the outcome is a choice (`apart`, `above`). Polylines, headings and distances are data of
the inputs: the model starts where the code has computed how near an edge is
and how much it turns.

## 3. What the runs check

Every passing run exhausts its state space; every property of theirs has a
mutant of the mapped code that TLC shows to violate it.

| Run | Instance | Shows |
| --- | --- | --- |
| `one_job` | 1 job, 1 start request, 2 workers, 2 attempts, 2 deliveries and 1 duplicate, deadline 1 < lease 2, 1 stage report | no job of a live delivery is judged abandoned; executions overlap and ends are overwritten only after the queue cut a delivery or an enqueueing was in doubt; a client sees the end |
| `one_session` | 2 jobs of one session, 2 racing starts, 2 workers, 1 delivery | one active job, one executing job, `JobLifecycle` implemented |
| `store` | 1 session, limit 1, 3 flats, 3 listings, 2 drafts, 2 requests | the bound limit + requests - 1, drafts accounted for and kept, `Shortlist` implemented |
| `runs` | 2 listings, 2 jobs, 2 executions one after the other, 1 profile save that drops one type and asks for another | SUCCEEDED has evidence of the same execution; a completed job leaves every planned type ended; one row per type; no transaction held across a provider call |
| `overlap` | 1 listing, 1 job, 2 executions interleaved | SUCCEEDED still has evidence when executions clash |
| `services` | `MCServices.tla`; below | each of the other services and decision rules: see the list below |
| `terminal_overwrite`, `over_limit`, `removal`, `queued`, `origins`, `driving_limit` | as above | the findings of section 5 |

`services` is one run because the parts share no variable: `component` says
which one this behaviour explores, and the others stay as they start, so the
states add up instead of multiplying (about 104,000 distinct states). What it
shows:

- `OutcomesAnswerTheirCalls`, `ClientsAreAccountedFor`: 2 threads, 2 batches,
  calls that repeat a key, two trips that share a cache slot and one with a
  slot of its own, an expiring cache, a Redis that refuses. A batch answers every call with its own slot's route or
  its own failure; no thread uses a closed client; the clients left open are
  fewer than the threads.
- `LiveIsRecent`: 7 ticks against a lifetime of 2 and a limit of 3, so a record
  is fetched slowly, kept and shown at the last moment.
- `ProfileIsOfOneSave`, `SavedNamesAreStale`: 2 tabs, 3 saves.
- `WindowsAreBounded`: 2 addresses, 9 seconds, 2 requests per 3 seconds.
- `AnswersMatchTheRows` (with the browser permits in the type invariant): 2
  requests, 1 browser, 1 redirect.
- `ModelNotOlderThanMetadata`: 2 threads, 3 snapshots, 2 server starts.
- `LeaseFollowsItsBlock`: blocks that share a number, more sales than the twelve
  that are read, a sale in the future, one without a lease.
- `OnlyThePastCounts`, `HighNeedsCloseSales`: ledgers on both sides of each rung
  of the relaxation (7 and 8 comparables), with sales of the current month,
  sales on both sides of the window's far end, and repeated rows. The town is the
  geocoder's, the one of the block's sales, or none.
- `NoFailingFlatWins`, `ClearLead`, `RanksFollowFit`: up to 3 flats of 6, with
  and without each kind of evidence, some of them leading by exactly the 3 points
  of a practical tie, 15 buyers.
- `CorridorsAreDistinctRoads`: loops, opposite directions, partial overlaps, a
  stop with more services than are kept. `EveryStationOnce`: interchanges, a
  loop, stations with two codes, in many timings.
- `TransitScoreHasEvidence`, `DrivingScoreHasEvidence`: every pattern of failed
  calls for two stops and two stations, and for four entries of two roads.
- `EntriesCoverTheRoad`: junctions closer than 35 m, a road beside the road, one
  out of range. `OverlapIsMutual`: frontage roads, the way back, gaps of two
  hops, missing matches.

Why the bounds are enough. Two workers and two deliveries are what it takes for
one handler to outlive its delivery while another one starts; the duplicate adds
a third. Deadline 1 and lease 2 are the smallest values the assumption
`Deadline < StaleAfter` allows, and time matters only by which of the two is
reached first. `one_session` has one start more than a session may have jobs, so
the insert, the index and the second lookup all race. In `store` two requests
for one place are the smallest overrun, with a third flat and listing so that
neither the unique key nor the ids hide a larger one; the limit is 1 instead of 5
because only "full or not" is read. In `runs` the second execution finds rows
and evidence of the first, the second job finds rows to reset, and the profile
save replaces the location or drops it. The profiles of `runs` ask for "score" or
for "journey", so a save leaves rows of a dropped type behind and makes new ones;
those of `queued` and `origins` ask for both or for nothing, and
the theorems hold for every set of profiles. `MaxClashes` is 0 in `runs`: properties that speak
of executions one after the other are checked on exactly those; `overlap` allows
one clash and, to stay small, one profile that asks for journeys and no save.

Symmetry is used where ids are interchangeable and only for safety runs (no
symmetry in `one_job`, which checks liveness). `CHECK_DEADLOCK FALSE` is said
for `SessionStore`, `EnrichmentRuns` and `MCServices`: once every session is
deleted, the bounds on jobs, executions, saves or time are used up, or an
algorithm has answered, nothing is left to do.

### Fairness

`FairSpec` of `EnrichmentJobs` assumes that the clock ticks, that the queue ends
a delivery at its deadline, and that a client that was given a job polls it
until it reads a terminal status (`src/apps/web/src/components/enrichment-progress.tsx`
polls on a timer and goes on after errors). Nothing is assumed of the API, the
worker or the queue's deliveries: they may crash or do nothing for ever, and
`ClientsSeeTheEnd` holds because polling itself ends what time has abandoned.
The other modules state safety only.

## 4. What is proved

The theorems hold for every set of jobs, sessions, requests, workers, flats,
listings, threads and trips, for every ledger, block, network, catalogue and
survey, and for every value of the limits. What they assume is stated by name in
the module that declares the constants, and TLC evaluates it in the runs.

- Nulls are not ids, and limits and bounds are numbers of the right sign:
  `NoneAssumption`, `NamesAssumption`, `BoundsAssumption`, `LimitAssumption`,
  `ProfileAssumption`, `ArtifactAssumption`, `AvailabilityAssumption`,
  `RateAssumption`, `RouteAssumption` (also: a trip that names a cache slot is
  in it).
- Sets that the code counts are finite: `FiniteAssumption`, `PasteAssumption`.
- What a profile may ask for are optional types: `ProfilesAssumption`.
- Inputs have the shape of the code's records: `FairPriceAssumption`, the
  `LeaseAssumption` of `LeaseEstimate`, `DrivingAssumption` (ratios lie between
  none and all), `TransitAssumption` (also: the stations looked for near a flat
  are active ones, as `nearby_station_codes` sees to), `ComparisonAssumption`
  (at most five flats and three priorities, the bounds of the request schema).
- `NetworksAssumption` (finitely many services, each a list of stops, a known
  interval of 1 to 300 minutes) and `RailAssumption` (riding takes no negative
  time) say the same of the networks the loaders build.
- `SearchRadiusAssumption` and `SurveyAssumption`: the search radius is at least
  the matching tolerance, and a point of an edge is no nearer to a road than the
  planar distance of the two lines says. The code measures the one in a local
  projection and the other in SVY21, which agree to less than a millimetre over
  these distances.
- `MatchIsBounded`, `GraphOfEdges`, `PairsOfDrives`: lengths and angles are not
  negative, an edge of the drive graph is the only one with its identifier (its
  two nodes and key, `major_road_network.py:61`), and a drive has finitely many
  steps, none without length, for `map_match_route` leaves out the segments of
  half a metre and less.
- `LeaseAssumption` of `EnrichmentJobs`: the dispatch deadline is shorter than
  the lease, which `core/config.py` enforces when a production service starts.

`EnrichmentJobsProofs`. None of the safety properties is inductive: they say
what may not happen, and the reason is what handlers know. `IInv` adds it.

- `AgeBelowHeld`: a claim refreshes `updated_at`, so a job's row is never older
  than the delivery that executes it. With the queue's deadline and the lease
  assumption this is why a live worker keeps its job.
- `DetachedIsCut`, `ExecutingIsNotQueued`, `ExecutingIsRunning`: what a handler
  may believe of its row while its delivery lasts; why a second claim fails.
- `EnqueuedAfterInsert`, `OneDispatcher`, `DispatcherKnowsFate`: a job has one
  start request between its insert and its dispatch and nothing runs before;
  why marking an enqueue as failed overwrites nobody.
- `RowsFollowSession`: rows and sessions go together; why a deleted session
  leaves nothing for a late write to revive.

From it: `TypeCorrect`, `LiveWorkersKeepTheirJobs`, `ExecutionsAreExclusive`,
`ActiveJobIsUnique`, `SessionsAreExclusive`, the action property
`TerminalStaysUnlessDisturbed`, and the refinement `JobsImplementLifecycle`.

`SessionStoreProofs`. `ListingsBounded` is not inductive because a request that
passed the check inserts later, whatever happened since. `PlacesAreBounded`
counts listings together with such promises: `CheckLimit` makes one only below
the limit, and there are never more promises than requests; `InsertListing`
turns one into a listing. `RequestsHoldDrafts`, `DraftsAreOpen`,
`DraftsFollowListings` and `DiscardsAreFresh` say whom each draft belongs to and
what a discard under way may believe of it. From them: `TypeCorrect`,
`ShortlistsAreBounded`, `NoDraftIsLeftBehind`, the action property
`DraftsStayWithListings`, and the refinement `StoreImplementsShortlist`.

`EnrichmentRunsProofs`. Executions and bounds are arbitrary, so the proofs
first fix what a step of one execution leaves alone (the locals of the others,
the rows of other listings and types) and argue each invariant for the one that
moves.

- `ProvidersWaitWithoutTransaction`: a transaction is open for a reason
  (`OpenForAReason`): its read is followed by its write, or a listing went away
  for good (`TakenOnce`).
- `SuccessHasEvidence`: evidence is stored before the status that promises it
  (`StoredFirst`), nothing takes evidence away and leaves the row, and a row
  that reads SUCCEEDED has its writer on record. This one holds however
  executions clash.
- `UpsertsMakeOneRow`: without clashes the execution at work is the last one
  started (`Alone`), so the row its upsert read is still the only one when it
  writes (`TargetsHold`).
- `CompletionSettles`: what the execution has behind it is ended (`DueEnded`)
  and what it marked and has not settled is not SUCCEEDED; a step moves one pair
  of listing and type from the second set to the first, and a job is completed
  only when nothing is left in it. The sets range over the types that the profile
  read by the execution asks for; of the rows of other types it says nothing.
- `SuccessIsOfItsWriter`: the execution about to report success wrote the
  evidence itself (`OwnFirst`), and no other is at work.

`ServiceProofs`, one part per service, each with the type theorem that its
invariant gives.

- `Availability`: a record carries the label of the moment its fetch began and
  the cache is stamped with the same moment, so the age of a live record is its
  age then and the time it was kept.
- `BuyerProfile`: a save that is open alone has read exactly the rows it will
  delete, and its number was never committed before.
- `ModelArtifact`: snapshots are published in order and the model before its
  metadata, so the model file is never behind; a thread reads the metadata first.
- `RateLimit`: a bucket is pruned only when a request comes, so it is not what
  the property counts. `BucketsHold`: an admission that is missing from the
  bucket is too old for any window that ends now or later, and the bucket never
  holds more than the limit.
- `SmartPaste`: the outcome of a paste and its candidates are committed
  together, once, and the answer is built from the committed rows. `PasteInv`
  also counts: browsers taken and permits left add up to the pool on every path,
  the failing ones included.
- `RouteBatch`: "is there a client" turns to yes with the first one and stays so,
  so the clients created and the threads about to create one are together at
  most as many as the pool has threads (`ClientsAreBounded`). A slot of the cache
  holds a route of that slot, and a call without a thread has an earlier call
  with its key, the first of which has a thread (`CallersGetTheirOwn`).

At the end come the services together: a step of `Services` is one of a single part
and leaves the others alone (`PartsMoveApart`), so a behaviour of `Services` is
one of each part's own specification (`PartsAreThemselves`), and every theorem
about a part holds of what the run `services` explores. `ServicesTypeCorrect`
joins the type theorems that way.

`DecisionProofs`. Each algorithm answers in one step, so the invariant says that
what is stored is the algorithm's answer to an input that was offered, and the
work is in the lemmas about the algorithm.

- `LeasesFollowTheirBlock`: `LeaseInv` says that cached evidence is that of the
  block its key names, and one key names one block, so the order of the listings
  does not matter.
- `ValuationsSeeThePast`: every level of the relaxation reduces the snapshot to
  a set of sales first, in which neither the rows outside the window (of the valuation month, later,
  or too old) nor the repeated ones are. `HighGradesAreEarned`: only the tight levels may lead to HIGH, and the
  pool of eight counts different sales.
- `RanksAreOfTheFits`: ranks go along a sequence that the code sorts. The places
  in it are taken once each (`PlacesAreTaken`), scores fall along it, and within
  a rank no step is above the threshold (`ChainsAreClose`). `RecommendationsPass`
  and `RecommendationsLead` say what the first of the eligible flats has over the
  others: a lead of at least the tie threshold, whichever way the floats fall
  when it is the threshold exactly.

`TransportProofs`.

- `DrivingScoresHaveEvidence`, `TransitScoresHaveEvidence`: an overall score is
  only given when components of 60 % of the weight were assessed. Those that can
  be assessed without an entry to a major road, or without a stop or station in
  reach, weigh less than that together. Each component lies in its range, hence
  so does their weighted mean. `DriveInv` and `TransitInv` follow the stages:
  what a later stage reads was put there by the answers of an earlier one,
  whichever calls failed. MRT reach begins where Access entered the network
  because only active stations are looked for.
- `EntriesCoverTheirRoad`: an edge of the road has a point within tolerance, so
  neither the index nor the planar filter hides it; what the loop keeps is
  apart, and covers what it drops, or is full.

`NetworkProofs`. The three searches are loops over data: a lemma says what holds
after each turn, and one that it holds at the first and is kept by a turn.

- `CorridorsAreRoads`: `TailsFit` says of the loop in `shared_ordered_stop_count`
  that slot t of the tails holds the least position at which a chain of t common
  stops can end. So its length is that of the longest common subsequence
  (`SharedStopsAreCommon`), which does not depend on which ride comes first
  (`CommonIsMutual`) and is at most the number of stops both name, which is why
  the prefilter skips no pair that would pass (`OverlapsIsSameRoad`). Groups are
  closed under sharing a road and connected by it (`GroupsAreRoads`).
- `StationsAreBanded`: `WayFits` says of the loop in `shortest_path` that no
  visited node is farther than an unvisited one, that the edges of visited nodes
  were tried, and that a way within the limit is a ride. Every ride is
  overtaken by the search (`RidesAreOvertaken`): each node on it was reached as
  quickly or a nearer one is still to be visited, and the search ends when the
  target is visited or nothing is left. Hence the path it returns is a ride, none
  is quicker (`ShortestPathIsARide`), and the bands are what the rides say.
- `OverlapMutual`: `AreCheapest` says of the loop in `map_match_route` that every
  option of the segment it has come to holds a way there that costs no more than
  any other. A way to an option of the next segment is one to an option of this
  segment and a step (`ExtendIsCheapest`), so the answer is the minimum over all
  ways (`PathIsCheapest`), however many there are. A jump costs 110 m and to be
  off the road for a segment 100 m: the way that leaves out the edge after a jump
  would be cheaper, so no match has one (`NoJumps`), and what is shared of an
  edge or a drive is part of it (`SharesAreDriven`, `MatchOfSegments`). The
  lengths are sums over finite sets, of which the first lemmas of that part say
  that they can be taken apart, compared and added. Each of the three measures of what
  is shared (not `not_practical`, which asks which drive is primary) is then the
  same both ways and a share (`EdgesOverlap`, `PolylinesOverlap`,
  `FallbacksOverlap`).

`OrderFacts` has what these need of numbers and finite sets: a least element, a
first one in a total order, a place for each, the range of a rounded quotient. Where an
induction is called for (the first of a set by its value, every place is taken,
the thinning loop keeps some set) the lemma takes a minimal counterexample, by
the well-foundedness of the naturals, instead of a theorem with an operator
parameter.

Only model-checked is one property:

- `ClientsSeeTheEnd`: liveness under fairness is beyond the prover.

Every other invariant and action property that a run checks is stated by a
theorem. What `Services` explores at a time is one part; that two parts move at
once adds nothing, for they share no variable.

## 5. Findings

1. `terminal_overwrite`: `_update` writes whatever the status is, so a worker
   that outlives its delivery turns a failed job back to completed, queued or
   running, though the documentation calls those states terminal.
2. `over_limit`: the limit of five is checked apart from the insert; requests
   that overlap exceed it. `ShortlistsAreBounded` says by how much.
3. `removal`: removing an enriched listing leaves its observations, runs, fields
   and journeys in the database with a NULL key, though specification and
   comment say they go with it. Deleting a session leaves its listings, profile
   and pasted texts behind in the same way.
4. `queued`: when the dispatch of a restarted job fails, its run rows stay
   QUEUED; the method written for this case has no caller.
5. `origins`: a listing that could not be geocoded gets journeys from a fixed
   point, stored as AVAILABLE and SUCCEEDED, where the specification asks to
   disable location features.
6. `driving_limit`: every profile save draws new location ids, so a driving
   limit that names a location loses it at the next save (`ON DELETE SET NULL`),
   and the comparison then answers 404 as a whole, where the specification
   promises PASS, FAIL or CANNOT_DETERMINE for that requirement.

Smaller observations, from reading and not from a run:

- `mark_runs_queued` resets "prior run rows so status polling represents the new
  job", also those of types that the new job does not compute: with journeys and
  transport asked for, a first job completed, and a profile saved that asks for
  neither, the second job completes and those rows stay QUEUED. The browser
  shows their stage as running (`src/apps/web/src/lib/enrichment-progress.ts:75`)
  and their values as "Still calculating" (`comparison-view.tsx:976`).
  `CompletedMeansSettled` therefore speaks of planned types.
- A lead of exactly 3 points is a practical tie by the rule of
  `recommendation.py:160-162` and of `preference_scoring.py:98`, but the code
  subtracts floats: 65.40 - 62.40 gives 3.0000000000000071 and the first flat is
  recommended. `Recommend` lets both comparisons go either way at 3.00, and
  `ClearLead` promises a lead of at least 3 points.
- `delete_session` leaves listings and drafts without a session, which no
  property counts: `ManualDraftsAreAccountedFor` and `Shortlist` speak of what a
  session shows.
- The docstring of `select_comparables` says that levels relax one rule at a
  time; a level may relax more. `rail_graph.py:79` says that minimum-time paths
  minimise transfers too; that is not so in general, and `RailReach` keeps
  minutes and changes apart.
- In `RouteOverlap` a segment left out costs less (100 m) than a jump (110 m), so
  no match ever jumps and `discontinuity_fraction` is always 0.
- `LISTING_BROWSER_BUSY` never reaches the user: the plain fetch's error is
  answered instead. A database connection is held while the page is fetched and
  the model answers.
- The winner's requirements may be CANNOT_DETERMINE and its confidence HIGH. The
  walking sub-score of parking may exceed 100 before it is weighed. A flat with
  no access at all scores points for resilience, but its coverage keeps it from
  an overall score. `range_low` of a valuation may exceed its central estimate.
- A loaded price model is not checked again until the process ends. Corridors are
  grouped per stop and once more jointly, and the two groupings may differ.
- All official road features without a name become one road. The catalogue's
  hashes are taken after the build, and its file is not replaced atomically;
  startup refuses one that is not valid JSON.

## 6. What is left

Not modelled, and why:

- Inline and ARQ executors: development modes that call the same pipeline in one
  process; production settings refuse them.
- The web client beyond its polling, which is the fairness of `EnrichmentJobs`.
- `FallbackRoutingProvider`: `adapters/factory.py` never builds it. The route
  matrix request is one provider call in `EnrichmentRuns`.
- The recommendation trace and the feedback, which are stored and read by
  nothing that decides; the texts of reasons and trade-offs.
- Car park rows and their history, which `Driving` takes as inputs; the schools
  engine, a scored step in `EnrichmentRuns`.
- Geometry, the fit of the price model, the parsing of HTML and of the language
  model's JSON: data, of which the models enumerate what later code can tell
  apart. `MajorRoads` does not tell the projected metric from the local one
  (`SurveyAssumption`).
- Offline scripts other than the major-road build, evaluation, deployment: one
  process each, whose result is a file.

What would add most next:

1. More than one destination in `EnrichmentRuns`: the destinations of one mode
   share a run row, and the last result wins.
2. `EnrichmentRuns` and `EnrichmentJobs` composed instead of coarsened, with the
   display of the client over both.
3. `BuyerProfile` composed with the journeys of `EnrichmentRuns`, so that the new
   ids of a save meet an execution under way.
