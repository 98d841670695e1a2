---------------------------- MODULE Availability ----------------------------
(***************************************************************************)
(* Live lots of the HDB car parks.  One enrichment run has one provider    *)
(* and asks it once for each of its listings.  The class documents one     *)
(* cache for the process, but fetch assigns self._cache, an attribute of   *)
(* the instance: what another run has downloaded is never found.  The      *)
(* model follows one car park in the feed.                                 *)
(***************************************************************************)
EXTENDS Naturals

CONSTANTS
    ParkingRuns,    \* enrichment runs, each with a provider of its own
    CacheTtl,       \* hdb_carpark_availability_cache_seconds
    StaleAfter,     \* hdb_carpark_availability_stale_minutes
    LastTick        \* bound: the clock stops here

ASSUME AvailabilityAssumption ==
    CacheTtl \in Nat \ {0} /\ StaleAfter \in Nat /\ LastTick \in Nat \ {0}

Tries == 2

VARIABLES
    clock,
    feed,     \* the car park's reading: whether it has a time, and which
    fetching, \* run -> [now, tries] of the fetch in progress, or NoFetch
    kept,     \* run -> [stamp, record] of its provider's cache, or NotKept
    shown     \* run -> what its last assessment said, and when it asked

availabilityVars == <<clock, feed, fetching, kept, shown>>

NoFetch == [now |-> 0, tries |-> 0]
NotKept == [stamp |-> 0, record |-> [status |-> "none", observed |-> 0]]

AvailabilityInit ==
    /\ clock = 1 /\ feed = [kind |-> "absent", at |-> 0]
    /\ fetching = [r \in ParkingRuns |-> NoFetch]
    /\ kept = [r \in ParkingRuns |-> NotKept]
    /\ shown = [r \in ParkingRuns |-> [status |-> "nothing", observed |-> 0, asked |-> 0]]

Tick == clock < LastTick /\ clock' = clock + 1 /\ UNCHANGED <<feed, fetching, kept, shown>>

\* HDB publishes a reading taken now, one without a usable time, or none.
FeedChanges ==
    /\ feed' \in [kind : {"dated"}, at : {clock}] \cup [kind : {"undated", "absent"}, at : {0}]
    /\ UNCHANGED <<clock, fetching, kept, shown>>

(***************************************************************************)
(* _parse_response with retrieved_at = the time the fetch began.           *)
(***************************************************************************)
Record(reading, now) ==
    IF reading.kind = "absent" THEN [status |-> "NOT_COVERED", observed |-> 0]
    ELSE IF reading.kind = "undated" THEN [status |-> "TIMESTAMP_UNAVAILABLE", observed |-> now]
    ELSE [status |-> IF now > reading.at + StaleAfter THEN "STALE" ELSE "LIVE",
          observed |-> reading.at]

Show(r, record, now) ==
    shown' = [shown EXCEPT ![r] =
                 [status |-> record.status, observed |-> record.observed, asked |-> now]]

IsFresh(r) == kept[r] # NotKept /\ clock < kept[r].stamp + CacheTtl

FetchHit(r) ==
    /\ fetching[r] = NoFetch /\ IsFresh(r)
    /\ Show(r, kept[r].record, clock)
    /\ UNCHANGED <<clock, feed, fetching, kept>>

FetchMiss(r) ==
    /\ fetching[r] = NoFetch /\ ~IsFresh(r)
    /\ fetching' = [fetching EXCEPT ![r] = [now |-> clock, tries |-> Tries]]
    /\ UNCHANGED <<clock, feed, kept, shown>>

\* the stamp taken when the download is published
DownloadedLate(r) ==
    /\ fetching[r] # NoFetch
    /\ LET record == Record(feed, fetching[r].now) IN
       /\ kept' = [kept EXCEPT ![r] = [stamp |-> clock, record |-> record]]
       /\ Show(r, record, fetching[r].now)
    /\ fetching' = [fetching EXCEPT ![r] = NoFetch]
    /\ UNCHANGED <<clock, feed>>

Downloaded(r) ==
    /\ fetching[r] # NoFetch
    /\ LET record == Record(feed, fetching[r].now) IN
       /\ kept' = [kept EXCEPT ![r] = [stamp |-> fetching[r].now, record |-> record]]
       /\ Show(r, record, fetching[r].now)
    /\ fetching' = [fetching EXCEPT ![r] = NoFetch]
    /\ UNCHANGED <<clock, feed>>

\* Only an HTTP error is tried again, once.
HttpError(r) ==
    /\ fetching[r].tries > 1
    /\ fetching' = [fetching EXCEPT ![r].tries = @ - 1]
    /\ UNCHANGED <<clock, feed, kept, shown>>

\* The second HTTP error, or a malformed answer: the cache keeps what it has.
FeedFails(r) ==
    /\ fetching[r] # NoFetch
    /\ fetching' = [fetching EXCEPT ![r] = NoFetch]
    /\ Show(r, [status |-> "TEMPORARILY_UNAVAILABLE", observed |-> 0], fetching[r].now)
    /\ UNCHANGED <<clock, feed, kept>>

AvailabilityNext ==
    \/ Tick
    \/ FeedChanges
    \/ \E r \in ParkingRuns :
           \/ FetchHit(r) \/ FetchMiss(r) \/ Downloaded(r) \/ HttpError(r) \/ FeedFails(r)

AvailabilitySpec == AvailabilityInit /\ [][AvailabilityNext]_availabilityVars

-----------------------------------------------------------------------------
Statuses == {"nothing", "LIVE", "STALE", "TIMESTAMP_UNAVAILABLE", "NOT_COVERED", "TEMPORARILY_UNAVAILABLE"}

AvailabilityTypeOK ==
    /\ clock \in 1..LastTick
    /\ \A r \in ParkingRuns :
           /\ fetching[r].now \in 0..clock /\ fetching[r].tries \in 0..Tries
           /\ kept[r].stamp \in 0..clock
           /\ shown[r].status \in Statuses /\ shown[r].asked \in 0..clock

(***************************************************************************)
(* What an assessment calls LIVE was read by HDB no longer ago than the    *)
(* staleness limit and the cache's lifetime together, however long the     *)
(* download took: the label is settled once, when a fetch begins, and a    *)
(* cached record keeps it (fetch stamps the cache with the time it began). *)
(***************************************************************************)
LiveIsRecent ==
    \A r \in ParkingRuns :
        shown[r].status = "LIVE" => shown[r].asked < shown[r].observed + StaleAfter + CacheTtl

=============================================================================
