----------------------------- MODULE RouteBatch -----------------------------
(***************************************************************************)
(* The route calls of one enrichment execution: the engines hand lists of  *)
(* calls to a small thread pool, the threads share one provider, its HTTP  *)
(* client is created on first use without a lock, and Redis is a           *)
(* cache-aside that may refuse any read or write.  A call's key names its  *)
(* two points and its departure; trips whose rounded points and time       *)
(* bucket agree share one slot of the cache.                               *)
(***************************************************************************)
EXTENDS Naturals, Sequences, FiniteSets

CONSTANTS
    Trips,            \* keys of route calls
    Slot,             \* trip -> the trip that names its slot of the cache
    CallLists,        \* the lists of calls the engines make
    RouteWorkers,     \* route_request_concurrency
    MaxBatches,       \* bound: batches of the execution
    Failed, Nothing   \* the outcome of a failed call; no route

ASSUME RouteAssumption ==
    /\ Slot \in [Trips -> Trips] /\ \A t \in Trips : Slot[Slot[t]] = Slot[t]
    /\ \A list \in CallLists : list \in Seq(Trips) /\ list # <<>>
    /\ RouteWorkers \in Nat \ {0} /\ MaxBatches \in Nat
    /\ {Failed, Nothing} \cap Trips = {} /\ Failed # Nothing

VARIABLES
    calls,      \* the batch in progress, empty between batches
    at,         \* position in it -> where the call's thread stands
    held,       \* position -> the client it posts with, 0 for none
    outcome,    \* position -> the trip whose route it got, or Failed
    refused,    \* history: trips of this batch the provider refused
    answers,    \* history: the last batch and the outcomes it returned
    batches,    \* batches so far
    client,     \* the provider's _client, 0 for None
    created,    \* clients created so far
    closedClients,
    cache,      \* slot -> the trip whose route Redis holds, or Nothing
    providerLife

routeVars == <<calls, at, held, outcome, refused, answers, batches, client,
               created, closedClients, cache, providerLife>>

NoAnswers == [calls |-> <<>>, outcomes |-> <<>>]

RoutesInit ==
    /\ calls = <<>> /\ at = <<>> /\ held = <<>> /\ outcome = <<>>
    /\ refused = {} /\ answers = NoAnswers /\ batches = 0
    /\ client = 0 /\ created = 0 /\ closedClients = {}
    /\ cache = [t \in Trips |-> Nothing]
    /\ providerLife = "open"

(***************************************************************************)
(* unique.setdefault: the first call with a key makes the request.         *)
(***************************************************************************)
FirstWithKey(list, i) == CHOOSE j \in 1..i : list[j] = list[i] /\ \A k \in 1..(j-1) : list[k] # list[i]

UniqueCalls(list) == {i \in DOMAIN list : FirstWithKey(list, i) = i}

StartBatch(list) ==
    /\ providerLife = "open" /\ calls = <<>> /\ batches < MaxBatches
    /\ calls' = list
    /\ at' = [i \in DOMAIN list |-> IF i \in UniqueCalls(list) THEN "queued" ELSE "absent"]
    /\ held' = [i \in DOMAIN list |-> 0]
    /\ outcome' = [i \in DOMAIN list |-> Nothing]
    /\ refused' = {} /\ batches' = batches + 1
    /\ UNCHANGED <<answers, client, created, closedClients, cache, providerLife>>

Running == {i \in DOMAIN at : at[i] \notin {"queued", "absent", "done"}}

\* The pool takes the submitted calls in order.
Take(i) ==
    /\ at[i] = "queued" /\ \A j \in 1..(i-1) : at[j] # "queued"
    /\ Cardinality(Running) < RouteWorkers
    /\ at' = [at EXCEPT ![i] = "lookup"]
    /\ UNCHANGED <<calls, held, outcome, refused, answers, batches, client, created,
                   closedClients, cache, providerLife>>

Done(i, result) ==
    /\ outcome' = [outcome EXCEPT ![i] = result]
    /\ at' = [at EXCEPT ![i] = "done"]

LookupHit(i) ==
    /\ at[i] = "lookup" /\ cache[Slot[calls[i]]] # Nothing
    /\ Done(i, cache[Slot[calls[i]]])
    /\ UNCHANGED <<calls, held, refused, answers, batches, client, created,
                   closedClients, cache, providerLife>>

\* Nothing is stored, or Redis cannot be read: get() returns None for both.
LookupMiss(i) ==
    /\ at[i] = "lookup"
    /\ at' = [at EXCEPT ![i] = "client"]
    /\ UNCHANGED <<calls, held, outcome, refused, answers, batches, client, created,
                   closedClients, cache, providerLife>>

NeedClientAlways(i) ==
    /\ at[i] = "client"
    /\ at' = [at EXCEPT ![i] = "create"]
    /\ UNCHANGED <<calls, held, outcome, refused, answers, batches, client, created,
                   closedClients, cache, providerLife>>

\* "if self._client is None", whose answer the thread acts on later.
NeedClient(i) ==
    /\ at[i] = "client"
    /\ at' = [at EXCEPT ![i] = IF client = 0 THEN "create" ELSE "use"]
    /\ UNCHANGED <<calls, held, outcome, refused, answers, batches, client, created,
                   closedClients, cache, providerLife>>

CreateClient(i) ==
    /\ at[i] = "create"
    /\ created' = created + 1 /\ client' = created + 1
    /\ at' = [at EXCEPT ![i] = "use"]
    /\ UNCHANGED <<calls, held, outcome, refused, answers, batches,
                   closedClients, cache, providerLife>>

UseClient(i) ==
    /\ at[i] = "use"
    /\ held' = [held EXCEPT ![i] = client]
    /\ at' = [at EXCEPT ![i] = "post"]
    /\ UNCHANGED <<calls, outcome, refused, answers, batches, client, created,
                   closedClients, cache, providerLife>>

Answered(i) ==
    /\ at[i] = "post"
    /\ outcome' = [outcome EXCEPT ![i] = calls[i]]
    /\ at' = [at EXCEPT ![i] = "store"]
    /\ UNCHANGED <<calls, held, refused, answers, batches, client, created,
                   closedClients, cache, providerLife>>

\* A transport error, an error status, malformed JSON or no usable route.
Refused(i) ==
    /\ at[i] = "post"
    /\ Done(i, Failed) /\ refused' = refused \cup {calls[i]}
    /\ UNCHANGED <<calls, held, answers, batches, client, created,
                   closedClients, cache, providerLife>>

StoreRoute(i) ==
    /\ at[i] = "store"
    /\ at' = [at EXCEPT ![i] = "done"]
    /\ \E held2 \in {cache[Slot[calls[i]]], calls[i]} :   \* Redis may refuse the write
           cache' = [cache EXCEPT ![Slot[calls[i]]] = held2]
    /\ UNCHANGED <<calls, held, outcome, refused, answers, batches, client, created,
                   closedClients, providerLife>>

BatchOver == calls # <<>> /\ \A i \in DOMAIN at : at[i] \in {"done", "absent"}

\* outcomes handed over as the positions of the list, not through its keys
CollectByPosition ==
    /\ BatchOver
    /\ answers' = [calls |-> calls, outcomes |-> outcome]
    /\ calls' = <<>> /\ at' = <<>> /\ held' = <<>> /\ outcome' = <<>>
    /\ UNCHANGED <<refused, batches, client, created, closedClients, cache, providerLife>>

Collect ==
    /\ BatchOver
    /\ answers' = [calls |-> calls,
                   outcomes |-> [i \in DOMAIN calls |-> outcome[FirstWithKey(calls, i)]]]
    /\ calls' = <<>> /\ at' = <<>> /\ held' = <<>> /\ outcome' = <<>>
    /\ UNCHANGED <<refused, batches, client, created, closedClients, cache, providerLife>>

ExpireRoute(t) ==
    /\ cache[t] # Nothing
    /\ cache' = [cache EXCEPT ![t] = Nothing]
    /\ UNCHANGED <<calls, at, held, outcome, refused, answers, batches, client, created,
                   closedClients, providerLife>>

CloseProviderEarly ==
    /\ providerLife = "open"
    /\ providerLife' = "closed"
    /\ closedClients' = closedClients \cup ({client} \ {0})
    /\ client' = 0
    /\ UNCHANGED <<calls, at, held, outcome, refused, answers, batches, created, cache>>

\* The finally of run_session_enrichment: every batch has been waited for.
CloseProvider ==
    /\ providerLife = "open" /\ calls = <<>>
    /\ providerLife' = "closed"
    /\ closedClients' = closedClients \cup ({client} \ {0})
    /\ client' = 0
    /\ UNCHANGED <<calls, at, held, outcome, refused, answers, batches, created, cache>>

RoutesNext ==
    \/ \E list \in CallLists : StartBatch(list)
    \/ \E i \in DOMAIN at :
           \/ Take(i)       \/ LookupHit(i)    \/ LookupMiss(i)
           \/ NeedClient(i) \/ CreateClient(i) \/ UseClient(i)
           \/ Answered(i)   \/ Refused(i)      \/ StoreRoute(i)
    \/ Collect
    \/ \E t \in Trips : ExpireRoute(t)
    \/ CloseProvider

RoutesSpec == RoutesInit /\ [][RoutesNext]_routeVars

-----------------------------------------------------------------------------
RoutesTypeOK ==
    /\ DOMAIN at = DOMAIN calls /\ DOMAIN held = DOMAIN calls /\ DOMAIN outcome = DOMAIN calls
    /\ \A i \in DOMAIN at :
           /\ at[i] \in {"absent", "queued", "lookup", "client", "create", "use", "post", "store", "done"}
           /\ held[i] \in 0..created /\ outcome[i] \in Trips \cup {Failed, Nothing}
    /\ client \in 0..created /\ closedClients \subseteq 1..created
    /\ cache \in [Trips -> Trips \cup {Nothing}]

(***************************************************************************)
(* A batch answers each of its calls, in the order of the list: with a     *)
(* route of the call's own cache slot, or with a failure only when the     *)
(* provider refused that very call, never because another call failed      *)
(* (run_bounded_route_calls: results are looked up by key after the pool   *)
(* has been waited for; a repeated key shares the first one's request).    *)
(***************************************************************************)
OutcomesAnswerTheirCalls ==
    \A i \in DOMAIN answers.calls :
        LET trip == answers.calls[i] got == answers.outcomes[i] IN
        /\ got = Failed => calls # <<>> \/ trip \in refused
        /\ got # Failed => got \in Trips /\ Slot[got] = Slot[trip]
        /\ \A j \in DOMAIN answers.calls :
               answers.calls[j] = trip => answers.outcomes[j] = got

(***************************************************************************)
(* No thread posts with a client that has been closed, or with none: the   *)
(* provider is closed after the last batch, and a thread that finds        *)
(* _client set, or sets it itself, reads it again afterwards               *)
(* (_get_client returns self._client).  Threads that create the client at  *)
(* once replace each other's, and only the last is closed.  What stays     *)
(* open afterwards is bounded by the size of the pool, however many calls  *)
(* the execution made.                                                     *)
(***************************************************************************)
ClientsAreAccountedFor ==
    /\ \A i \in DOMAIN at : at[i] = "post" => held[i] # 0 /\ held[i] \notin closedClients
    /\ providerLife = "closed" => created - Cardinality(closedClients) < RouteWorkers

=============================================================================
