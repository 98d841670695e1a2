--------------------------- MODULE ServiceProofs ---------------------------
(***************************************************************************)
(* Theorems about the services that keep little state of their own: the    *)
(* car park feed, the buyer profile, the price model's files, the rate     *)
(* limiter, the extraction of a listing and the batches of routed calls.   *)
(* They share no variable, so each theorem is about the specification of   *)
(* one of them alone; the last ones carry them over to Services.           *)
(***************************************************************************)
EXTENDS Services, DecisionProofs

-----------------------------------------------------------------------------
(***************************************************************************)
(* What is shown as live was read recently, for any number of runs and any *)
(* lifetimes.  The argument: a record carries the label it got when its    *)
(* fetch began, and the cache is stamped with that same time, so that the  *)
(* age of a live record is the age it had then and the time it was kept.   *)
(***************************************************************************)

Readings == [kind : {"dated", "undated", "absent"}, at : Nat]
Records == [status : Statuses, observed : Nat]

\* AvailabilityTypeOK, for every time the clock may show.
TimesTyped ==
  /\ clock \in Nat
  /\ feed \in Readings
  /\ fetching \in [ParkingRuns -> [now : Nat, tries : Nat]]
  /\ kept \in [ParkingRuns -> {NotKept} \cup [stamp : Nat, record : Records]]
  /\ shown \in [ParkingRuns -> [status : Statuses, observed : Nat, asked : Nat]]

\* A live record was fresh when its fetch began.
KeptLiveWasFresh ==
  \A r \in ParkingRuns :
    kept[r].record.status = "LIVE" => kept[r].stamp <= kept[r].record.observed + StaleAfter

AvailabilityInv == TimesTyped /\ KeptLiveWasFresh /\ LiveIsRecent

LEMMA AvailabilityStarts == AvailabilityInit => AvailabilityInv
  BY AvailabilityAssumption
  DEF AvailabilityInit, AvailabilityInv, TimesTyped, KeptLiveWasFresh, LiveIsRecent, Readings,
      Records, Statuses, NoFetch, NotKept

\* _parse_response: a live record is at most StaleAfter older than the fetch.
LEMMA RecordIsFresh ==
  ASSUME NEW reading \in Readings, NEW began \in Nat
  PROVE  /\ Record(reading, began) \in Records
         /\ Record(reading, began).status = "LIVE" =>
              began <= Record(reading, began).observed + StaleAfter
  BY AvailabilityAssumption DEF Record, Records, Readings, Statuses

\* What Show leaves of the invariant when the record is recent enough.
LEMMA ShowKeeps ==
  ASSUME TimesTyped, LiveIsRecent, NEW r \in ParkingRuns, NEW began \in Nat, NEW record \in Records,
         Show(r, record, began),
         record.status = "LIVE" => began < record.observed + StaleAfter + CacheTtl
  PROVE  /\ shown' \in [ParkingRuns -> [status : Statuses, observed : Nat, asked : Nat]]
         /\ LiveIsRecent'
<1> DEFINE said == [status |-> record.status, observed |-> record.observed, asked |-> began]
<1>1. said \in [status : Statuses, observed : Nat, asked : Nat]
  BY DEF Records
<1>2. shown' = [shown EXCEPT ![r] = said]
  BY DEF Show
<1>3. shown' \in [ParkingRuns -> [status : Statuses, observed : Nat, asked : Nat]]
  BY <1>1, <1>2 DEF TimesTyped
<1>4. ASSUME NEW q \in ParkingRuns, shown'[q].status = "LIVE"
      PROVE  shown'[q].asked < shown'[q].observed + StaleAfter + CacheTtl
  <2>1. CASE q = r
    <3>1. shown'[q] = said
      BY <1>2, <2>1 DEF TimesTyped
    <3> QED
      BY <3>1, <1>4
  <2>2. CASE q # r
    BY <1>2, <1>4, <2>2 DEF TimesTyped, LiveIsRecent
  <2> QED
    BY <2>1, <2>2
<1> QED
  BY <1>3, <1>4 DEF LiveIsRecent

\* Time passes and HDB publishes: nothing that was kept or shown changes.
LEMMA WorldKeeps == AvailabilityInv /\ (Tick \/ FeedChanges) => AvailabilityInv'
<1> SUFFICES ASSUME AvailabilityInv, Tick \/ FeedChanges PROVE AvailabilityInv'
  OBVIOUS
<1>1. UNCHANGED <<fetching, kept, shown>>
  BY DEF Tick, FeedChanges
<1>2. clock' \in Nat /\ feed' \in Readings
  BY DEF Tick, FeedChanges, AvailabilityInv, TimesTyped, Readings
<1> QED
  BY <1>1, <1>2 DEF AvailabilityInv, TimesTyped, KeptLiveWasFresh, LiveIsRecent

\* A hit shows the record that is kept, at most CacheTtl after its fetch.
LEMMA HitKeeps ==
  ASSUME AvailabilityInv, NEW r \in ParkingRuns, FetchHit(r)
  PROVE  AvailabilityInv'
<1> DEFINE record == kept[r].record
<1>1. TimesTyped /\ KeptLiveWasFresh /\ LiveIsRecent
  BY DEF AvailabilityInv
<1>2. Show(r, record, clock) /\ clock < kept[r].stamp + CacheTtl /\ kept[r] # NotKept
  BY DEF FetchHit, IsFresh
<1>3. kept[r] \in [stamp : Nat, record : Records] /\ clock \in Nat
  BY <1>1, <1>2 DEF TimesTyped
<1>4. record.status = "LIVE" => clock < record.observed + StaleAfter + CacheTtl
  BY <1>1, <1>2, <1>3, AvailabilityAssumption DEF KeptLiveWasFresh, Records
<1>5. /\ shown' \in [ParkingRuns -> [status : Statuses, observed : Nat, asked : Nat]]
      /\ LiveIsRecent'
  BY <1>1, <1>2, <1>3, <1>4, ShowKeeps
<1> QED
  BY <1>1, <1>5 DEF FetchHit, AvailabilityInv, TimesTyped, KeptLiveWasFresh

\* A fetch begins, or an error leaves it one try.
LEMMA FetchKeeps ==
  ASSUME AvailabilityInv, NEW r \in ParkingRuns, FetchMiss(r) \/ HttpError(r)
  PROVE  AvailabilityInv'
<1>1. UNCHANGED <<clock, feed, kept, shown>>
  BY DEF FetchMiss, HttpError
<1>2. fetching' \in [ParkingRuns -> [now : Nat, tries : Nat]]
  <2>1. CASE FetchMiss(r)
    BY <2>1 DEF FetchMiss, AvailabilityInv, TimesTyped, Tries
  <2>2. CASE HttpError(r)
    <3>1. fetching[r] \in [now : Nat, tries : Nat] /\ fetching[r].tries > 1
      BY <2>2 DEF HttpError, AvailabilityInv, TimesTyped
    <3>2. [fetching[r] EXCEPT !.tries = @ - 1] \in [now : Nat, tries : Nat]
      BY <3>1
    <3>3. fetching' = [fetching EXCEPT ![r] = [fetching[r] EXCEPT !.tries = @ - 1]]
      BY <2>2 DEF HttpError, AvailabilityInv, TimesTyped
    <3> QED
      BY <3>2, <3>3 DEF AvailabilityInv, TimesTyped
  <2> QED
    BY <2>1, <2>2
<1> QED
  BY <1>1, <1>2 DEF AvailabilityInv, TimesTyped, KeptLiveWasFresh, LiveIsRecent

\* A download is labelled and stamped with the time its fetch began.
LEMMA DownloadKeeps ==
  ASSUME AvailabilityInv, NEW r \in ParkingRuns, Downloaded(r)
  PROVE  AvailabilityInv'
<1> DEFINE began == fetching[r].now
           record == Record(feed, began)
<1>1. TimesTyped /\ KeptLiveWasFresh /\ LiveIsRecent
  BY DEF AvailabilityInv
<1>2. began \in Nat /\ feed \in Readings
  BY <1>1 DEF TimesTyped
<1>3. record \in Records /\ (record.status = "LIVE" => began <= record.observed + StaleAfter)
  BY <1>2, RecordIsFresh
<1>4. record.status = "LIVE" => began < record.observed + StaleAfter + CacheTtl
  <2> HIDE DEF began, record
  <2>1. record.observed \in Nat
    BY <1>3 DEF Records
  <2> QED
    BY <1>2, <1>3, <2>1, AvailabilityAssumption
<1>5. /\ Show(r, record, began) /\ UNCHANGED <<clock, feed>>
      /\ kept' = [kept EXCEPT ![r] = [stamp |-> began, record |-> record]]
      /\ fetching' = [fetching EXCEPT ![r] = NoFetch]
  BY DEF Downloaded
<1>6. /\ shown' \in [ParkingRuns -> [status : Statuses, observed : Nat, asked : Nat]]
      /\ LiveIsRecent'
  BY <1>1, <1>2, <1>3, <1>4, <1>5, ShowKeeps
<1>7. [stamp |-> began, record |-> record] \in [stamp : Nat, record : Records]
  BY <1>2, <1>3
<1>8. TimesTyped'
  <2>1. kept' \in [ParkingRuns -> {NotKept} \cup [stamp : Nat, record : Records]]
    BY <1>1, <1>5, <1>7 DEF TimesTyped
  <2>2. fetching' \in [ParkingRuns -> [now : Nat, tries : Nat]]
    BY <1>1, <1>5 DEF TimesTyped, NoFetch
  <2> QED
    BY <1>1, <1>5, <1>6, <2>1, <2>2 DEF TimesTyped
<1>9. ASSUME NEW q \in ParkingRuns, kept'[q].record.status = "LIVE"
      PROVE  kept'[q].stamp <= kept'[q].record.observed + StaleAfter
  <2>1. CASE q = r
    <3>1. kept'[q] = [stamp |-> began, record |-> record]
      BY <1>1, <1>5, <2>1 DEF TimesTyped
    <3> QED
      BY <1>3, <1>9, <3>1
  <2>2. CASE q # r
    BY <1>1, <1>5, <1>9, <2>2 DEF TimesTyped, KeptLiveWasFresh
  <2> QED
    BY <2>1, <2>2
<1> QED
  BY <1>6, <1>8, <1>9 DEF AvailabilityInv, KeptLiveWasFresh

\* A fetch that fails says so; the cache keeps what it has.
LEMMA FailureKeeps ==
  ASSUME AvailabilityInv, NEW r \in ParkingRuns, FeedFails(r)
  PROVE  AvailabilityInv'
<1> DEFINE record == [status |-> "TEMPORARILY_UNAVAILABLE", observed |-> 0]
<1>1. TimesTyped /\ KeptLiveWasFresh /\ LiveIsRecent /\ fetching[r].now \in Nat
  BY DEF AvailabilityInv, TimesTyped
<1>2. record \in Records /\ record.status # "LIVE"
  BY DEF Records, Statuses
<1>3. Show(r, record, fetching[r].now)
  BY DEF FeedFails
<1>4. /\ shown' \in [ParkingRuns -> [status : Statuses, observed : Nat, asked : Nat]]
      /\ LiveIsRecent'
  BY <1>1, <1>2, <1>3, ShowKeeps
<1>5. fetching' \in [ParkingRuns -> [now : Nat, tries : Nat]] /\ UNCHANGED <<clock, feed, kept>>
  BY <1>1 DEF FeedFails, TimesTyped, NoFetch
<1> QED
  BY <1>1, <1>4, <1>5 DEF AvailabilityInv, TimesTyped, KeptLiveWasFresh

LEMMA AvailabilityKeeps ==
  AvailabilityInv /\ [AvailabilityNext]_availabilityVars => AvailabilityInv'
<1> SUFFICES ASSUME AvailabilityInv, [AvailabilityNext]_availabilityVars PROVE AvailabilityInv'
  OBVIOUS
<1>1. CASE UNCHANGED availabilityVars
  BY <1>1 DEF availabilityVars, AvailabilityInv, TimesTyped, KeptLiveWasFresh, LiveIsRecent
<1> QED
  BY <1>1, WorldKeeps, HitKeeps, FetchKeeps, DownloadKeeps, FailureKeeps DEF AvailabilityNext

(***************************************************************************)
(* HdbCarparkAvailabilityProvider.fetch: for any number of runs, and any   *)
(* lifetimes of the cache and of a reading, a reading shown as live is     *)
(* younger than both lifetimes together.                                   *)
(***************************************************************************)
THEOREM LiveReadingsAreRecent == AvailabilitySpec => []LiveIsRecent
<1>1. AvailabilityInv => LiveIsRecent
  BY DEF AvailabilityInv
<1> QED
  BY <1>1, AvailabilityStarts, AvailabilityKeeps, PTL DEF AvailabilitySpec

\* What lies behind the clock stays behind it.
TimesPassed ==
  /\ clock \in 1..LastTick
  /\ \A r \in ParkingRuns :
       /\ fetching[r].now <= clock /\ fetching[r].tries <= Tries
       /\ kept[r].stamp <= clock /\ shown[r].asked <= clock

\* AvailabilityTypeOK: the times of a fetch, of the cache and of an answer are
\* never ahead of the clock, and a fetch is tried twice at most.
THEOREM AvailabilityTypeCorrect == AvailabilitySpec => []AvailabilityTypeOK
<1>1. AvailabilityInit => TimesPassed
  BY AvailabilityAssumption DEF AvailabilityInit, TimesPassed, NoFetch, NotKept, Tries
<1>2. AvailabilityInv /\ TimesPassed /\ AvailabilityInv' /\ [AvailabilityNext]_availabilityVars => TimesPassed'
  <2> SUFFICES ASSUME AvailabilityInv, TimesPassed, AvailabilityInv', [AvailabilityNext]_availabilityVars
               PROVE  TimesPassed'
    OBVIOUS
  <2>a. TimesTyped /\ TimesTyped' /\ clock \in Nat /\ LastTick \in Nat
    BY AvailabilityAssumption DEF AvailabilityInv, TimesTyped
  <2>b. \A r \in ParkingRuns :
          /\ fetching[r].now \in Nat /\ fetching[r].tries \in Nat
          /\ kept[r].stamp \in Nat /\ shown[r].asked \in Nat
    BY <2>a DEF TimesTyped, NotKept
  <2>1. CASE Tick \/ FeedChanges \/ UNCHANGED availabilityVars
    <3>1. clock' \in {clock, clock + 1} /\ clock' <= LastTick /\ UNCHANGED <<fetching, kept, shown>>
      BY <2>1, <2>a DEF TimesPassed, Tick, FeedChanges, availabilityVars
    <3> QED
      BY <3>1, <2>a, <2>b DEF TimesPassed
  <2>2. ASSUME NEW r \in ParkingRuns, FetchHit(r) PROVE TimesPassed'
    <3>1. UNCHANGED <<clock, fetching, kept>> /\ \A q \in ParkingRuns : shown'[q].asked \in {clock, shown[q].asked}
      BY <2>2, <2>a DEF FetchHit, Show, TimesTyped
    <3> QED
      BY <3>1, <2>a, <2>b DEF TimesPassed
  <2>3. ASSUME NEW r \in ParkingRuns, FetchMiss(r) PROVE TimesPassed'
    <3>1. UNCHANGED <<clock, kept, shown>>
          /\ \A q \in ParkingRuns : fetching'[q] \in {fetching[q], [now |-> clock, tries |-> Tries]}
      BY <2>3, <2>a DEF FetchMiss, TimesTyped
    <3> QED
      BY <3>1, <2>a, <2>b DEF TimesPassed, Tries
  <2>4. ASSUME NEW r \in ParkingRuns, Downloaded(r) PROVE TimesPassed'
    <3>1. /\ clock' = clock
          /\ \A q \in ParkingRuns : /\ fetching'[q] \in {fetching[q], NoFetch}
                                    /\ kept'[q].stamp \in {kept[q].stamp, fetching[q].now}
                                    /\ shown'[q].asked \in {shown[q].asked, fetching[q].now}
      BY <2>4, <2>a DEF Downloaded, Show, TimesTyped
    <3> QED
      BY <3>1, <2>a, <2>b DEF TimesPassed, NoFetch, Tries
  <2>5. ASSUME NEW r \in ParkingRuns, HttpError(r) PROVE TimesPassed'
    <3>1. UNCHANGED <<clock, kept, shown>>
          /\ \A q \in ParkingRuns : fetching'[q].now = fetching[q].now
                                    /\ fetching'[q].tries \in {fetching[q].tries, fetching[q].tries - 1}
      BY <2>5, <2>a DEF HttpError, TimesTyped
    <3> QED
      BY <3>1, <2>a, <2>b DEF TimesPassed, Tries
  <2>6. ASSUME NEW r \in ParkingRuns, FeedFails(r) PROVE TimesPassed'
    <3>1. /\ UNCHANGED <<clock, kept>>
          /\ \A q \in ParkingRuns : /\ fetching'[q] \in {fetching[q], NoFetch}
                                    /\ shown'[q].asked \in {shown[q].asked, fetching[q].now}
      BY <2>6, <2>a DEF FeedFails, Show, TimesTyped
    <3> QED
      BY <3>1, <2>a, <2>b DEF TimesPassed, NoFetch, Tries
  <2> QED
    BY <2>1, <2>2, <2>3, <2>4, <2>5, <2>6 DEF AvailabilityNext
<1>3. AvailabilityInv /\ TimesPassed => AvailabilityTypeOK
  <2> SUFFICES ASSUME AvailabilityInv, TimesPassed PROVE AvailabilityTypeOK
    OBVIOUS
  <2>1. \A r \in ParkingRuns :
          /\ fetching[r].now \in Nat /\ fetching[r].tries \in Nat
          /\ kept[r].stamp \in Nat /\ shown[r].asked \in Nat /\ shown[r].status \in Statuses
    BY DEF AvailabilityInv, TimesTyped, NotKept
  <2> QED
    BY <2>1, AvailabilityAssumption DEF TimesPassed, AvailabilityTypeOK, Tries
<1> QED
  BY <1>1, <1>2, <1>3, AvailabilityStarts, AvailabilityKeeps, PTL DEF AvailabilitySpec

-----------------------------------------------------------------------------
(***************************************************************************)
(* While saves do not overlap, the stored profile is one save's, and no    *)
(* requirement or priority in it names a location of it.  The argument: a  *)
(* save that is open alone has read exactly the rows that it will delete,  *)
(* and its own number, the id of its location, was never committed before, *)
(* while the body can only name ids that were.                             *)
(***************************************************************************)

\* A row of hard_requirements, and the names a save between its read and its
\* commit carries.
LimitRows == [save : Nat, on : Nat \cup {Plain, Unnamed}]

Named(p) ==
  p.save \in Nat /\ p.limit \in Nat \cup {Plain, Unnamed} /\ p.journey \in Nat \cup {Unnamed}

\* The shapes of the rows, and the bookkeeping of ids.
RowsTyped ==
  /\ puts \in Nat /\ profileSave \in Nat
  /\ put = [s \in Savers |-> put[s]]
  /\ \A s \in Savers : put[s] # Idle => Named(put[s])
  /\ issued \in SUBSET Nat /\ locations \in SUBSET Nat
  /\ limits \in SUBSET LimitRows
  /\ journeyOn \in Nat \cup {Unnamed}
  /\ overlapped \in BOOLEAN

\* A save that is open alone has read the rows as they are, and has a number
\* that no committed location has.
OpenSaveIsCurrent ==
  ~overlapped => \A s \in Savers : put[s] # Idle =>
    /\ put[s].seenLimits = limits /\ put[s].seenLocations = locations
    /\ put[s].save = puts /\ puts \notin issued
    /\ put[s].limit \in issued \cup {Plain, Unnamed}
    /\ put[s].journey \in issued \cup {Unnamed}

OnlyOneIsOpen ==
  ~overlapped => \A s, t \in Savers : put[s] # Idle /\ put[t] # Idle => s = t

\* Ids are numbers of saves that were begun.
IdsAreSaves == ~overlapped => \A i \in issued : i <= puts

ProfileInv ==
  RowsTyped /\ OpenSaveIsCurrent /\ OnlyOneIsOpen /\ IdsAreSaves
    /\ ProfileIsOfOneSave /\ SavedNamesAreStale


LEMMA ProfileStarts == ProfileInit => ProfileInv
<1> SUFFICES ASSUME ProfileInit PROVE ProfileInv
  OBVIOUS
<1>1. RowsTyped
  BY DEF ProfileInit, RowsTyped
<1>2. \A s \in Savers : put[s] = Idle
  BY DEF ProfileInit
<1>3. IdsAreSaves /\ ProfileIsOfOneSave /\ SavedNamesAreStale
  BY DEF ProfileInit, IdsAreSaves, ProfileIsOfOneSave, SavedNamesAreStale
<1> QED
  BY <1>1, <1>2, <1>3 DEF ProfileInv, OpenSaveIsCurrent, OnlyOneIsOpen

\* A save begins: alone it reads what is stored and takes a new number.
LEMMA BeginKeeps ==
  ASSUME ProfileInv, NEW s \in Savers, NEW limit \in {Plain, Unnamed} \cup issued,
         NEW journey \in {Unnamed} \cup issued, NEW located \in BOOLEAN,
         BeginSave(s, limit, journey, located)
  PROVE  ProfileInv'
<1> DEFINE begun == [save |-> puts + 1, limit |-> limit, journey |-> journey, located |-> located,
                     first |-> ~hasProfile, seenLimits |-> limits, seenLocations |-> locations]
<1>a. /\ RowsTyped /\ OpenSaveIsCurrent /\ OnlyOneIsOpen /\ IdsAreSaves
      /\ ProfileIsOfOneSave /\ SavedNamesAreStale
  BY DEF ProfileInv
<1>1. /\ put[s] = Idle /\ puts' = puts + 1 /\ put' = [put EXCEPT ![s] = begun]
      /\ overlapped' = (overlapped \/ \E t \in Savers : put[t] # Idle)
      /\ UNCHANGED <<hasProfile, locations, limits, journeyOn, profileSave, issued>>
  BY DEF BeginSave
<1>2. Named(begun)
  BY <1>a DEF RowsTyped, Named
<1>3. RowsTyped'
  <2>1. overlapped' \in BOOLEAN
    BY <1>1
  <2>2. put' = [t \in Savers |-> put'[t]] /\ puts' \in Nat
    BY <1>1, <1>a DEF RowsTyped
  <2>3. ASSUME NEW t \in Savers, put'[t] # Idle PROVE Named(put'[t])
    <3>1. put'[t] = IF t = s THEN begun ELSE put[t]
      BY <1>1, <1>a DEF RowsTyped
    <3> QED
      BY <1>2, <1>a, <2>3, <3>1 DEF RowsTyped
  <2> QED
    BY <1>1, <1>a, <2>1, <2>2, <2>3 DEF RowsTyped
<1>4. CASE overlapped'
  BY <1>3, <1>4 DEF ProfileInv, OpenSaveIsCurrent, OnlyOneIsOpen, IdsAreSaves, ProfileIsOfOneSave,
     SavedNamesAreStale
<1>5. CASE ~overlapped'
  <2>1. ~overlapped /\ \A t \in Savers : put[t] = Idle
    BY <1>1, <1>5
  <2>2. \A t \in Savers : put'[t] # Idle => t = s /\ put'[t] = begun
    BY <1>1, <1>a, <2>1 DEF RowsTyped
  <2>3. puts' \notin issued /\ \A i \in issued : i <= puts'
    BY <1>1, <1>a, <2>1 DEF IdsAreSaves, RowsTyped
  <2>4. OpenSaveIsCurrent'
    BY <1>1, <2>2, <2>3 DEF OpenSaveIsCurrent
  <2>5. OnlyOneIsOpen' /\ IdsAreSaves'
    BY <1>1, <2>2, <2>3 DEF OnlyOneIsOpen, IdsAreSaves
  <2>6. ProfileIsOfOneSave' /\ SavedNamesAreStale'
    BY <1>1, <1>a, <2>1 DEF ProfileIsOfOneSave, SavedNamesAreStale
  <2> QED
    BY <1>3, <2>4, <2>5, <2>6 DEF ProfileInv
<1> QED
  BY <1>4, <1>5

\* What a commit writes has the shapes of the tables.
LEMMA CommitTyped ==
  ASSUME RowsTyped, NEW s \in Savers, CommitSave(s)
  PROVE  RowsTyped'
<1> DEFINE p == put[s]
           gone == p.seenLocations
           old == limits \ p.seenLimits
<1>1. Named(p)
  BY DEF CommitSave, RowsTyped
<1>2. /\ locations' = (locations \ gone) \cup (IF p.located THEN {p.save} ELSE {})
      /\ limits' = Cleared(old \cup NewLimit(p), gone)
      /\ journeyOn' = p.journey /\ profileSave' = p.save
      /\ issued' = issued \cup (IF p.located THEN {p.save} ELSE {})
      /\ put' = [put EXCEPT ![s] = Idle]
      /\ UNCHANGED <<puts, overlapped>>
  BY DEF CommitSave, Replace
<1>3. p.save \in Nat /\ p.limit \in Nat \cup {Plain, Unnamed} /\ p.journey \in Nat \cup {Unnamed}
  BY <1>1 DEF Named
<1>4. locations' \in SUBSET Nat /\ issued' \in SUBSET Nat
  BY <1>2, <1>3 DEF RowsTyped
<1>5. limits' \in SUBSET LimitRows
  <2>1. old \cup NewLimit(p) \in SUBSET LimitRows
    BY <1>3 DEF RowsTyped, NewLimit, LimitRows
  <2> QED
    BY <1>2, <2>1 DEF Cleared, LimitRows
<1>6. put' = [t \in Savers |-> put'[t]] /\ \A t \in Savers : put'[t] # Idle => Named(put'[t])
  BY <1>2 DEF RowsTyped
<1> QED
  BY <1>2, <1>3, <1>4, <1>5, <1>6 DEF RowsTyped

\* A commit deletes what the save has read, which is all there is, and adds
\* rows of its own that name earlier ids.
LEMMA CommitKeeps ==
  ASSUME ProfileInv, NEW s \in Savers, CommitSave(s)
  PROVE  ProfileInv'
<1> DEFINE p == put[s]
<1>a. /\ RowsTyped /\ OpenSaveIsCurrent /\ OnlyOneIsOpen /\ IdsAreSaves
      /\ ProfileIsOfOneSave /\ SavedNamesAreStale
  BY DEF ProfileInv
<1>1. RowsTyped'
  BY <1>a, CommitTyped
<1>2. /\ p # Idle
      /\ locations' = (locations \ p.seenLocations) \cup (IF p.located THEN {p.save} ELSE {})
      /\ limits' = Cleared((limits \ p.seenLimits) \cup NewLimit(p), p.seenLocations)
      /\ journeyOn' = p.journey /\ profileSave' = p.save
      /\ issued' = issued \cup (IF p.located THEN {p.save} ELSE {})
      /\ put' = [put EXCEPT ![s] = Idle]
      /\ UNCHANGED <<puts, overlapped>>
  BY DEF CommitSave, Replace
<1>3. CASE overlapped
  BY <1>1, <1>2, <1>3 DEF ProfileInv, OpenSaveIsCurrent, OnlyOneIsOpen, IdsAreSaves,
     ProfileIsOfOneSave, SavedNamesAreStale
<1>4. CASE ~overlapped
  <2>1. /\ p.seenLimits = limits /\ p.seenLocations = locations
        /\ p.save = puts /\ puts \notin issued
        /\ p.limit \in issued \cup {Plain, Unnamed} /\ p.journey \in issued \cup {Unnamed}
    BY <1>2, <1>4, <1>a DEF OpenSaveIsCurrent
  <2>2. \A t \in Savers : put'[t] = Idle
    BY <1>2, <1>4, <1>a DEF OnlyOneIsOpen, RowsTyped
  <2>3. locations' \subseteq {puts} /\ limits' = Cleared(NewLimit(p), locations)
    <3>1. (limits \ limits) \cup NewLimit(p) = NewLimit(p)
      OBVIOUS
    <3> QED
      BY <1>2, <2>1, <3>1
  <2>4. \A l \in limits' : l.save = puts /\ l.on \in issued \cup {Plain, Unnamed}
    BY <2>1, <2>3 DEF Cleared, NewLimit
  <2>5. puts \notin {Plain, Unnamed}
    BY <1>a, ProfileAssumption DEF RowsTyped
  <2>6. ProfileIsOfOneSave' /\ SavedNamesAreStale'
    BY <1>2, <2>1, <2>3, <2>4, <2>5 DEF ProfileIsOfOneSave, SavedNamesAreStale
  <2>7. IdsAreSaves'
    BY <1>2, <1>4, <1>a, <2>1 DEF IdsAreSaves, RowsTyped
  <2> QED
    BY <1>1, <2>2, <2>6, <2>7 DEF ProfileInv, OpenSaveIsCurrent, OnlyOneIsOpen
<1> QED
  BY <1>3, <1>4, <1>a DEF RowsTyped

\* A save that fails leaves the rows; so do journeys and comparisons.
LEMMA OthersKeep ==
  ASSUME ProfileInv,
         (\E s \in Savers : SaveFails(s)) \/ (\E l \in SaveIds : StoreDriving(l)) \/ Compare
  PROVE  ProfileInv'
<1>a. /\ RowsTyped /\ OpenSaveIsCurrent /\ OnlyOneIsOpen /\ IdsAreSaves
      /\ ProfileIsOfOneSave /\ SavedNamesAreStale
  BY DEF ProfileInv
<1>1. UNCHANGED <<puts, hasProfile, locations, limits, journeyOn, profileSave, issued, overlapped>>
  BY DEF SaveFails, StoreDriving, Compare
<1>2. put' = [t \in Savers |-> put'[t]] /\ \A t \in Savers : put'[t] # Idle => put'[t] = put[t]
  BY <1>a DEF SaveFails, StoreDriving, Compare, RowsTyped
<1>3. OpenSaveIsCurrent' /\ OnlyOneIsOpen'
  BY <1>1, <1>2, <1>a DEF OpenSaveIsCurrent, OnlyOneIsOpen
<1>4. RowsTyped'
  BY <1>1, <1>2, <1>a DEF RowsTyped
<1> QED
  BY <1>1, <1>3, <1>4, <1>a DEF ProfileInv, IdsAreSaves, ProfileIsOfOneSave, SavedNamesAreStale

LEMMA ProfileKeeps == ProfileInv /\ [ProfileNext]_profileVars => ProfileInv'
<1> SUFFICES ASSUME ProfileInv, [ProfileNext]_profileVars PROVE ProfileInv'
  OBVIOUS
<1>1. CASE UNCHANGED profileVars
  BY <1>1 DEF profileVars, ProfileInv, RowsTyped, OpenSaveIsCurrent, OnlyOneIsOpen, IdsAreSaves,
     ProfileIsOfOneSave, SavedNamesAreStale
<1>2. CASE \E s \in Savers :
             \E limit \in {Plain, Unnamed} \cup issued, journey \in {Unnamed} \cup issued,
                located \in BOOLEAN : BeginSave(s, limit, journey, located)
  BY <1>2, BeginKeeps
<1>3. CASE \E s \in Savers : CommitSave(s)
  BY <1>3, CommitKeeps
<1>4. CASE (\E s \in Savers : SaveFails(s)) \/ (\E l \in SaveIds : StoreDriving(l)) \/ Compare
  BY <1>4, OthersKeep
<1> QED
  BY <1>1, <1>2, <1>3, <1>4 DEF ProfileNext

(***************************************************************************)
(* upsert_buyer_profile: for any number of tabs and saves, a profile whose *)
(* saves never overlapped is the last one's alone.                         *)
(***************************************************************************)
THEOREM ProfilesAreOfOneSave == ProfileSpec => []ProfileIsOfOneSave
<1>1. ProfileInv => ProfileIsOfOneSave
  BY DEF ProfileInv
<1> QED
  BY <1>1, ProfileStarts, ProfileKeeps, PTL DEF ProfileSpec

(***************************************************************************)
(* The ids in a stored requirement or priority are never those of the      *)
(* stored locations, whatever the browser sends: no save that was open     *)
(* alone can name the location it creates.                                 *)
(***************************************************************************)
THEOREM StoredNamesAreStale == ProfileSpec => []SavedNamesAreStale
<1>1. ProfileInv => SavedNamesAreStale
  BY DEF ProfileInv
<1> QED
  BY <1>1, ProfileStarts, ProfileKeeps, PTL DEF ProfileSpec

\* What a save carries was read, and its number is that of a save.
SavesTyped ==
  /\ ProfileTypeOK
  /\ put = [s \in Savers |-> put[s]]
  /\ \A s \in Savers : put[s] # Idle =>
       /\ put[s].save \in SaveIds
       /\ put[s].limit \in issued \cup {Plain, Unnamed} /\ put[s].journey \in issued \cup {Unnamed}

LEMMA CommitKeepsTypes ==
  ASSUME SavesTyped, NEW s \in Savers, CommitSave(s)
  PROVE  SavesTyped'
<1> DEFINE p == put[s]
           gone == p.seenLocations
           old == limits \ p.seenLimits
           own == IF p.located THEN {p.save} ELSE {}
<1>1. /\ p.save \in SaveIds
      /\ p.limit \in issued \cup {Plain, Unnamed} /\ p.journey \in issued \cup {Unnamed}
  BY DEF CommitSave, SavesTyped
<1>2. /\ locations' = (locations \ gone) \cup own
      /\ limits' = Cleared(old \cup NewLimit(p), gone)
      /\ journeyOn' = p.journey
      /\ issued' = issued \cup own
      /\ driven' = driven \ gone
      /\ put' = [put EXCEPT ![s] = Idle]
      /\ UNCHANGED puts
  BY DEF CommitSave, Replace
<1>3. /\ puts \in 0..MaxProfileSaves
      /\ locations \subseteq issued /\ issued \subseteq SaveIds /\ driven \subseteq locations
      /\ \A l \in limits : l.save \in SaveIds /\ l.on \in SaveIds \cup {Plain, Unnamed}
  BY DEF SavesTyped, ProfileTypeOK
<1>4. own \subseteq SaveIds
  BY <1>1
<1>5. \A l \in limits' : l.save \in SaveIds /\ l.on \in SaveIds \cup {Plain, Unnamed}
  <2>1. \A l \in old \cup NewLimit(p) : l.save \in SaveIds /\ l.on \in SaveIds \cup {Plain, Unnamed}
    BY <1>1, <1>3 DEF NewLimit
  <2> QED
    BY <1>2, <2>1 DEF Cleared
<1> HIDE DEF own
<1>6. ProfileTypeOK'
  BY <1>1, <1>2, <1>3, <1>4, <1>5 DEF ProfileTypeOK
<1>7. /\ put' = [t \in Savers |-> put'[t]]
      /\ \A t \in Savers : put'[t] # Idle => put'[t] = put[t]
  BY <1>2 DEF SavesTyped
<1> QED
  BY <1>2, <1>6, <1>7 DEF SavesTyped

\* ProfileTypeOK: stored locations have ids that were drawn by a save, journeys
\* lead to stored locations, and rows name ids of saves or none.
THEOREM ProfileTypeCorrect == ProfileSpec => []ProfileTypeOK
<1>1. ProfileInit => SavesTyped
  BY ProfileAssumption DEF ProfileInit, SavesTyped, ProfileTypeOK
<1>2. SavesTyped /\ [ProfileNext]_profileVars => SavesTyped'
  <2> SUFFICES ASSUME SavesTyped, [ProfileNext]_profileVars PROVE SavesTyped'
    OBVIOUS
  <2>1. CASE UNCHANGED profileVars
    BY <2>1 DEF profileVars, SavesTyped, ProfileTypeOK
  <2>2. ASSUME NEW s \in Savers, NEW limit \in {Plain, Unnamed} \cup issued,
               NEW journey \in {Unnamed} \cup issued, NEW located \in BOOLEAN,
               BeginSave(s, limit, journey, located)
        PROVE  SavesTyped'
    <3> DEFINE begun == [save |-> puts + 1, limit |-> limit, journey |-> journey, located |-> located,
                         first |-> ~hasProfile, seenLimits |-> limits, seenLocations |-> locations]
    <3>1. /\ puts < MaxProfileSaves /\ puts' = puts + 1 /\ put' = [put EXCEPT ![s] = begun]
          /\ UNCHANGED <<locations, limits, journeyOn, issued, driven>>
      BY <2>2 DEF BeginSave
    <3>2. begun.save \in SaveIds /\ begun.limit = limit /\ begun.journey = journey /\ puts' \in 0..MaxProfileSaves
      BY <3>1, ProfileAssumption DEF SavesTyped, ProfileTypeOK, SaveIds
    <3> HIDE DEF begun
    <3>3. /\ put' = [t \in Savers |-> put'[t]]
          /\ \A t \in Savers : put'[t] = IF t = s THEN begun ELSE put[t]
      BY <3>1 DEF SavesTyped
    <3> QED
      BY <3>1, <3>2, <3>3 DEF SavesTyped, ProfileTypeOK
  <2>3. ASSUME NEW s \in Savers, CommitSave(s) PROVE SavesTyped'
    BY <2>3, CommitKeepsTypes
  <2>4. ASSUME NEW s \in Savers, SaveFails(s) PROVE SavesTyped'
    <3>1. /\ put' = [t \in Savers |-> put'[t]] /\ \A t \in Savers : put'[t] # Idle => put'[t] = put[t]
          /\ UNCHANGED <<puts, locations, limits, journeyOn, issued, driven>>
      BY <2>4 DEF SaveFails, SavesTyped
    <3> QED
      BY <3>1 DEF SavesTyped, ProfileTypeOK
  <2>5. ASSUME NEW l \in SaveIds, StoreDriving(l) PROVE SavesTyped'
    BY <2>5 DEF StoreDriving, SavesTyped, ProfileTypeOK
  <2>6. CASE Compare
    BY <2>6 DEF Compare, SavesTyped, ProfileTypeOK
  <2> QED
    BY <2>1, <2>2, <2>3, <2>4, <2>5, <2>6 DEF ProfileNext
<1>3. SavesTyped => ProfileTypeOK
  BY DEF SavesTyped
<1> QED
  BY <1>1, <1>2, <1>3, PTL DEF ProfileSpec

-----------------------------------------------------------------------------
(***************************************************************************)
(* A model that is loaded is never older than the metadata it is used      *)
(* with, whatever snapshots arrive, however often the trainer stops half   *)
(* way and the server starts again.  The argument: one trainer publishes   *)
(* snapshots in their order and the model before its metadata, so the      *)
(* model file is always ahead, and a thread that read the metadata earlier *)
(* finds a model at least as new.                                          *)
(***************************************************************************)

\* What is published comes from a snapshot that exists, and what the trainer
\* holds is ahead of the files it replaces.
FilesInOrder ==
  /\ metadataFile <= modelFile /\ modelFile <= snapshot
  /\ trainer.at = "staged" => modelFile <= trainer.on /\ trainer.on <= snapshot
  /\ trainer.at = "half" => trainer.on = modelFile

\* What a thread has read of the metadata is behind the model file.
ReadersBehind ==
  \A v \in Valuers : valuer[v].at = "described" => valuer[v].by <= modelFile

\* ArtifactTypeOK with the shape of the threads' table.
FilesTyped ==
  snapshot \in 1..LastSnapshot /\ modelFile \in 0..LastSnapshot /\ metadataFile \in 0..LastSnapshot

Typed ==
  /\ FilesTyped
  /\ trainer \in {Resting} \cup [at : {"staged", "half"}, on : 1..LastSnapshot]
  /\ valuer \in [Valuers -> {Resting} \cup [at : {"described"}, by : 1..LastSnapshot]]
  /\ artifactCache \in
       {Unloaded} \cup [loaded : {TRUE}, model : 1..LastSnapshot, metadata : 1..LastSnapshot]

ArtifactInv == Typed /\ FilesInOrder /\ ReadersBehind /\ ModelNotOlderThanMetadata

LEMMA ArtifactStarts == ArtifactInit => ArtifactInv
  BY ArtifactAssumption
  DEF ArtifactInit, ArtifactInv, FilesTyped, Typed, FilesInOrder, ReadersBehind,
      ModelNotOlderThanMetadata, Resting, Unloaded, NoFile

\* What the trainer holds, a thread has read or the process has loaded.
LEMMA Holdings ==
  ASSUME Typed
  PROVE  /\ trainer.at # "idle" => trainer \in [at : {"staged", "half"}, on : 1..LastSnapshot]
         /\ \A v \in Valuers : valuer[v].at # "idle" =>
              valuer[v] \in [at : {"described"}, by : 1..LastSnapshot]
         /\ artifactCache.loaded =>
              artifactCache \in [loaded : {TRUE}, model : 1..LastSnapshot, metadata : 1..LastSnapshot]
<1>1. trainer.at # "idle" => trainer \in [at : {"staged", "half"}, on : 1..LastSnapshot]
  BY DEF Typed, Resting
<1>2. ASSUME NEW v \in Valuers, valuer[v].at # "idle"
      PROVE  valuer[v] \in [at : {"described"}, by : 1..LastSnapshot]
  <2>1. valuer[v] \in {Resting} \cup [at : {"described"}, by : 1..LastSnapshot]
    BY DEF Typed
  <2> QED
    BY <1>2, <2>1 DEF Resting
<1>3. artifactCache.loaded =>
        artifactCache \in [loaded : {TRUE}, model : 1..LastSnapshot, metadata : 1..LastSnapshot]
  <2>1. CASE artifactCache = Unloaded
    BY <2>1 DEF Unloaded
  <2>2. CASE artifactCache # Unloaded
    BY <2>2 DEF Typed
  <2> QED
    BY <2>1, <2>2
<1> QED
  BY <1>1, <1>2, <1>3

\* Snapshots arrive: the files only fall behind.
LEMMA SnapshotsKeep == ArtifactInv /\ NewSnapshot => ArtifactInv'
<1> SUFFICES ASSUME ArtifactInv, NewSnapshot PROVE ArtifactInv'
  OBVIOUS
<1>1. FilesTyped' /\ snapshot <= snapshot' /\ snapshot \in Nat /\ snapshot' \in Nat
  BY ArtifactAssumption DEF ArtifactInv, Typed, FilesTyped, NewSnapshot
<1>2. Typed'
  BY <1>1 DEF ArtifactInv, Typed, NewSnapshot
<1>3. trainer.at = "staged" => trainer.on \in Nat
  BY Holdings, ArtifactAssumption DEF ArtifactInv
<1>4. FilesInOrder'
  BY <1>1, <1>3 DEF ArtifactInv, Typed, FilesTyped, FilesInOrder, NewSnapshot
<1>5. ReadersBehind' /\ ModelNotOlderThanMetadata'
  BY DEF ArtifactInv, ReadersBehind, ModelNotOlderThanMetadata, NewSnapshot
<1> QED
  BY <1>2, <1>4, <1>5 DEF ArtifactInv

\* The trainer stages what it read, publishes it file by file, or stops.
LEMMA TrainerKeeps == ArtifactInv /\ (Train \/ Publish \/ TrainerStops) => ArtifactInv'
<1> SUFFICES ASSUME ArtifactInv, Train \/ Publish \/ TrainerStops PROVE ArtifactInv'
  OBVIOUS
<1>a. Typed /\ FilesInOrder /\ ReadersBehind /\ ModelNotOlderThanMetadata
  BY DEF ArtifactInv
<1>1. CASE Train
  <2>1. trainer' \in [at : {"staged", "half"}, on : 1..LastSnapshot] /\ trainer'.at = "staged" /\ trainer'.on = snapshot
    <3>1. snapshot \in 1..LastSnapshot
      BY <1>a DEF Typed, FilesTyped
    <3>2. trainer' = [at |-> "staged", on |-> snapshot]
      BY <1>1 DEF Train
    <3> QED
      BY <3>1, <3>2
  <2>2. Typed'
    <3>1. FilesTyped'
      BY <1>1, <1>a DEF Train, Typed, FilesTyped
    <3> QED
      BY <1>1, <1>a, <2>1, <3>1 DEF Train, Typed
  <2>3. FilesInOrder'
    BY <1>1, <1>a, <2>1 DEF Train, FilesInOrder, FilesTyped, Typed
  <2> QED
    BY <1>1, <1>a, <2>2, <2>3 DEF Train, ArtifactInv, ReadersBehind, ModelNotOlderThanMetadata
<1>2. CASE TrainerStops
  <2>1. trainer' = Resting /\ Typed'
    <3>1. FilesTyped'
      BY <1>2, <1>a DEF TrainerStops, Typed, FilesTyped
    <3> QED
      BY <1>2, <1>a, <3>1 DEF TrainerStops, Typed
  <2>2. FilesInOrder'
    BY <1>2, <1>a, <2>1 DEF TrainerStops, FilesInOrder, Resting
  <2> QED
    BY <1>2, <1>a, <2>1, <2>2 DEF TrainerStops, ArtifactInv, ReadersBehind, ModelNotOlderThanMetadata
<1>3. ASSUME trainer.at = "staged", modelFile' = trainer.on, trainer' = [trainer EXCEPT !.at = "half"],
             UNCHANGED <<snapshot, metadataFile, valuer, artifactCache, starts>>
      PROVE  ArtifactInv'
  <2>1. trainer \in [at : {"staged", "half"}, on : 1..LastSnapshot]
    BY <1>3, <1>a, Holdings
  <2>2. trainer' \in [at : {"staged", "half"}, on : 1..LastSnapshot] /\ trainer'.at = "half" /\ trainer'.on = trainer.on
    BY <1>3, <2>1
  <2>3. Typed'
    <3>1. FilesTyped'
      BY <1>3, <1>a, <2>1 DEF FilesTyped, Typed
    <3> QED
      BY <1>3, <1>a, <2>2, <3>1 DEF Typed
  <2>4. FilesInOrder'
    BY <1>3, <1>a, <2>1, <2>2 DEF FilesInOrder, FilesTyped, Typed
  <2>5. modelFile <= modelFile' /\ modelFile' \in Nat /\ modelFile \in Nat
    BY <1>3, <1>a, <2>1 DEF FilesInOrder, FilesTyped, Typed
  <2>6. ASSUME NEW v \in Valuers, valuer'[v].at = "described" PROVE valuer'[v].by <= modelFile'
    <3>1. valuer[v].by \in Nat /\ valuer[v].by <= modelFile
      BY <1>3, <1>a, <2>6, Holdings DEF ReadersBehind
    <3> QED
      BY <1>3, <2>5, <3>1
  <2> QED
    BY <1>3, <1>a, <2>3, <2>4, <2>6 DEF ArtifactInv, ReadersBehind, ModelNotOlderThanMetadata
<1>4. ASSUME trainer.at = "half", metadataFile' = trainer.on, trainer' = Resting,
             UNCHANGED <<snapshot, modelFile, valuer, artifactCache, starts>>
      PROVE  ArtifactInv'
  <2>1. trainer \in [at : {"staged", "half"}, on : 1..LastSnapshot]
    BY <1>4, <1>a, Holdings
  <2>2. Typed'
    <3>1. FilesTyped'
      BY <1>4, <1>a, <2>1 DEF FilesTyped, Typed
    <3> QED
      BY <1>4, <1>a, <3>1 DEF Typed
  <2>3. FilesInOrder'
    BY <1>4, <1>a, <2>1 DEF FilesInOrder, FilesTyped, Typed, Resting
  <2> QED
    BY <1>4, <1>a, <2>2, <2>3 DEF ArtifactInv, ReadersBehind, ModelNotOlderThanMetadata
<1> QED
  BY <1>1, <1>2, <1>3, <1>4 DEF Publish

\* A thread reads the metadata, then the model, and the process keeps both.
LEMMA ValuersKeep ==
  ASSUME ArtifactInv, NEW v \in Valuers, ReadMetadata(v) \/ LoadModel(v)
  PROVE  ArtifactInv'
<1>a. Typed /\ FilesInOrder /\ ReadersBehind /\ ModelNotOlderThanMetadata
  BY DEF ArtifactInv
<1>1. CASE ReadMetadata(v)
  <2> DEFINE read == [at |-> "described", by |-> metadataFile]
  <2>1. metadataFile \in 1..LastSnapshot /\ valuer' = [valuer EXCEPT ![v] = read]
    BY <1>1, <1>a DEF ReadMetadata, FilesTyped, Typed, NoFile
  <2>2. read \in [at : {"described"}, by : 1..LastSnapshot]
    BY <2>1
  <2>3. Typed'
    <3>1. FilesTyped'
      BY <1>1, <1>a DEF ReadMetadata, Typed, FilesTyped
    <3>2. /\ trainer' \in {Resting} \cup [at : {"staged", "half"}, on : 1..LastSnapshot]
          /\ artifactCache' \in
               {Unloaded} \cup [loaded : {TRUE}, model : 1..LastSnapshot, metadata : 1..LastSnapshot]
      BY <1>1, <1>a, Zenon DEF ReadMetadata, Typed
    <3> DEFINE States == {Resting} \cup [at : {"described"}, by : 1..LastSnapshot]
    <3>3. valuer \in [Valuers -> States] /\ read \in States
      BY <1>a, <2>2 DEF Typed
    <3> HIDE DEF States, read
    <3>4. valuer' \in [Valuers -> States]
      BY <3>3, <2>1
    <3> QED
      BY <3>1, <3>2, <3>4, Zenon DEF Typed, States
  <2>4. ReadersBehind'
    <3>1. SUFFICES ASSUME NEW u \in Valuers, valuer'[u].at = "described"
                   PROVE  valuer'[u].by <= modelFile'
      BY DEF ReadersBehind
    <3>2. CASE u = v
      BY <1>1, <1>a, <2>1, <3>2 DEF ReadMetadata, FilesTyped, Typed, FilesInOrder
    <3>3. CASE u # v
      BY <1>1, <1>a, <2>1, <3>1, <3>3 DEF ReadMetadata, Typed, ReadersBehind
    <3> QED
      BY <3>2, <3>3
  <2> QED
    BY <1>1, <1>a, <2>3, <2>4 DEF ReadMetadata, ArtifactInv, FilesInOrder, ModelNotOlderThanMetadata
<1>2. CASE LoadModel(v)
  <2>1. valuer[v] \in [at : {"described"}, by : 1..LastSnapshot] /\ valuer[v].by <= modelFile
    BY <1>2, <1>a, Holdings DEF LoadModel, ReadersBehind
  <2>2. modelFile \in 1..LastSnapshot
    BY <1>a, <2>1, ArtifactAssumption DEF FilesTyped, Typed
  <2>3. /\ artifactCache' \in [loaded : {TRUE}, model : 1..LastSnapshot, metadata : 1..LastSnapshot]
        /\ artifactCache'.metadata <= artifactCache'.model
    BY <1>2, <2>1, <2>2 DEF LoadModel
  <2>4. Typed'
    <3>1. FilesTyped'
      BY <1>2, <1>a DEF LoadModel, Typed, FilesTyped
    <3> QED
      BY <1>2, <1>a, <2>3, <3>1 DEF LoadModel, Typed
  <2>5. ReadersBehind'
    <3>1. SUFFICES ASSUME NEW u \in Valuers, valuer'[u].at = "described"
                   PROVE  valuer'[u].by <= modelFile'
      BY DEF ReadersBehind
    <3>2. u # v
      BY <1>2, <1>a, <3>1 DEF LoadModel, Typed, Resting
    <3> QED
      BY <1>2, <1>a, <3>1, <3>2 DEF LoadModel, Typed, ReadersBehind
  <2> QED
    BY <1>2, <1>a, <2>3, <2>4, <2>5 DEF LoadModel, ArtifactInv, FilesInOrder, ModelNotOlderThanMetadata
<1> QED
  BY <1>1, <1>2

\* A new process has loaded nothing and its threads rest.
LEMMA StartKeeps == ArtifactInv /\ ServerStarts => ArtifactInv'
<1> SUFFICES ASSUME ArtifactInv, ServerStarts PROVE ArtifactInv'
  OBVIOUS
<1>1. Typed'
  <2>1. FilesTyped'
    BY DEF ArtifactInv, Typed, FilesTyped, ServerStarts
  <2> QED
    BY <2>1 DEF ArtifactInv, Typed, ServerStarts
<1>2. ReadersBehind'
  BY DEF ReadersBehind, ServerStarts, Resting
<1>3. FilesInOrder' /\ ModelNotOlderThanMetadata'
  BY DEF ArtifactInv, FilesInOrder, ModelNotOlderThanMetadata, ServerStarts, Unloaded
<1> QED
  BY <1>1, <1>2, <1>3 DEF ArtifactInv

LEMMA ArtifactKeeps == ArtifactInv /\ [ArtifactNext]_artifactVars => ArtifactInv'
<1> SUFFICES ASSUME ArtifactInv, [ArtifactNext]_artifactVars PROVE ArtifactInv'
  OBVIOUS
<1>1. CASE UNCHANGED artifactVars
  <2>1. Typed'
    BY <1>1 DEF artifactVars, ArtifactInv, Typed, FilesTyped
  <2>2. FilesInOrder'
    BY <1>1 DEF artifactVars, ArtifactInv, FilesInOrder
  <2>3. ReadersBehind' /\ ModelNotOlderThanMetadata'
    BY <1>1 DEF artifactVars, ArtifactInv, ReadersBehind, ModelNotOlderThanMetadata
  <2> QED
    BY <2>1, <2>2, <2>3 DEF ArtifactInv
<1> QED
  BY <1>1, SnapshotsKeep, TrainerKeeps, ValuersKeep, StartKeeps DEF ArtifactNext

(***************************************************************************)
(* load_artifact under _publish_artifact: for any number of threads,       *)
(* snapshots and starts, a loaded model is not from an older training than *)
(* the metadata it is used with.                                           *)
(***************************************************************************)
THEOREM LoadedModelsAreRecent == ArtifactSpec => []ModelNotOlderThanMetadata
<1>1. ArtifactInv => ModelNotOlderThanMetadata
  BY DEF ArtifactInv
<1> QED
  BY <1>1, ArtifactStarts, ArtifactKeeps, PTL DEF ArtifactSpec

\* ArtifactTypeOK: files, trainer, threads and cache are of snapshots that exist.
THEOREM ArtifactTypeCorrect == ArtifactSpec => []ArtifactTypeOK
<1>1. ArtifactInv => ArtifactTypeOK
  BY DEF ArtifactInv, Typed, FilesTyped, ArtifactTypeOK, NoFile
<1> QED
  BY <1>1, ArtifactStarts, ArtifactKeeps, PTL DEF ArtifactSpec

-----------------------------------------------------------------------------
(***************************************************************************)
(* RateLimit: no window holds more than the limit.  The argument: what was *)
(* pruned is too old for any window that ends now or later, so the admission *)
(* that is let in closes a window whose older members are all still in the *)
(* bucket, and the bucket was below the limit.                             *)
(***************************************************************************)

Admissions == [nth : Nat, at : Nat]

\* What the bucket of an address holds: admissions that were made, and every
\* one of them that a window ending now can still reach.
BucketsHold ==
  \A a \in Addresses :
    /\ \A h \in hits[a] : h \in admitted[a]
    /\ \A h \in admitted[a] : h.at >= now - Window => h \in hits[a]

\* The admissions of an address are numbered from 0.
AdmissionsNumbered ==
  \A a \in Addresses :
    /\ IsFiniteSet(admitted[a])
    /\ \A h \in admitted[a] : h \in Admissions /\ h.at <= now /\ h.nth < Cardinality(admitted[a])

RateInv ==
  /\ now \in Nat /\ now >= Window
  /\ hits = [a \in Addresses |-> hits[a]] /\ admitted = [a \in Addresses |-> admitted[a]]
  /\ BucketsHold
  /\ AdmissionsNumbered
  /\ WindowsAreBounded

LEMMA RateStarts == RateInit => RateInv
<1> SUFFICES ASSUME RateInit PROVE RateInv
  OBVIOUS
<1>1. \A a \in Addresses : hits[a] = {} /\ admitted[a] = {}
  BY DEF RateInit
<1>2. IsFiniteSet({})
  BY FS_EmptySet
<1> QED
  BY <1>1, <1>2, RateAssumption
  DEF RateInit, RateInv, BucketsHold, AdmissionsNumbered, WindowsAreBounded

\* A second passes: fewer admissions can be reached.
LEMMA SecondKeepsRate == RateInv /\ Second => RateInv'
  <1> SUFFICES ASSUME RateInv, Second PROVE RateInv'
  OBVIOUS
<1>1. now \in Nat /\ now' = now + 1 /\ hits' = hits /\ admitted' = admitted
  BY DEF RateInv, Second
<1>2. \A b \in Addresses : \A h \in admitted[b] : h.at \in Nat
  BY DEF RateInv, AdmissionsNumbered, Admissions
<1>3. BucketsHold'
  BY <1>1, <1>2, RateAssumption DEF RateInv, BucketsHold
<1>4. AdmissionsNumbered' /\ WindowsAreBounded'
  BY <1>1, <1>2 DEF RateInv, AdmissionsNumbered, WindowsAreBounded
<1> QED
  BY <1>1, <1>3, <1>4, RateAssumption DEF RateInv

\* What pruning keeps of the bucket, and the windows that an admission enters.
LEMMA AdmitKeepsRate ==
  ASSUME RateInv, NEW a \in Addresses, Admit(a)
  PROVE  RateInv'
<1> DEFINE new == [nth |-> Cardinality(admitted[a]), at |-> now]
           Reach(S, t) == {g \in S : g.at \in t..(t + Window)}
<1>1. /\ Cardinality(InWindow(a)) < MaxRequests
      /\ hits' = [hits EXCEPT ![a] = InWindow(a) \cup {new}]
      /\ admitted' = [admitted EXCEPT ![a] = admitted[a] \cup {new}]
      /\ now' = now
  BY DEF Admit
<1>2. /\ hits'[a] = InWindow(a) \cup {new} /\ admitted'[a] = admitted[a] \cup {new}
      /\ \A b \in Addresses \ {a} : hits'[b] = hits[b] /\ admitted'[b] = admitted[b]
  BY <1>1 DEF RateInv
<1>3. /\ now \in Nat /\ IsFiniteSet(admitted[a]) /\ Cardinality(admitted[a]) \in Nat
      /\ new \in Admissions /\ new \notin admitted[a]
  BY FS_CardinalityType DEF RateInv, AdmissionsNumbered, Admissions
<1>4. IsFiniteSet(admitted'[a]) /\ Cardinality(admitted'[a]) = Cardinality(admitted[a]) + 1
  <2> HIDE DEF new
  <2>1. /\ IsFiniteSet(admitted[a] \cup {new})
        /\ Cardinality(admitted[a] \cup {new}) =
             IF new \in admitted[a] THEN Cardinality(admitted[a]) ELSE Cardinality(admitted[a]) + 1
    BY <1>3, FS_AddElement
  <2> QED
    BY <2>1, <1>2, <1>3
<1>5. AdmissionsNumbered'
  <2>1. ASSUME NEW h \in admitted'[a]
        PROVE  h \in Admissions /\ h.at <= now /\ h.nth < Cardinality(admitted'[a])
    BY <1>2, <1>3, <1>4, <2>1 DEF RateInv, AdmissionsNumbered, Admissions
  <2> QED
    BY <1>1, <1>2, <1>4, <2>1 DEF RateInv, AdmissionsNumbered
<1>6. BucketsHold'
  BY <1>1, <1>2, <1>3, RateAssumption DEF RateInv, BucketsHold, InWindow, Admissions
<1>7. IsFiniteSet(InWindow(a)) /\ Cardinality(InWindow(a)) \in Nat
  <2>1. InWindow(a) \in SUBSET admitted[a]
    BY DEF RateInv, BucketsHold, InWindow
  <2> QED
    BY <2>1, <1>3, FS_Subset, FS_CardinalityType
<1>8. IsFiniteSet(InWindow(a) \cup {new}) /\ Cardinality(InWindow(a) \cup {new}) <= MaxRequests
  <2> HIDE DEF new
  <2>1. /\ IsFiniteSet(InWindow(a) \cup {new})
        /\ Cardinality(InWindow(a) \cup {new}) =
             IF new \in InWindow(a) THEN Cardinality(InWindow(a)) ELSE Cardinality(InWindow(a)) + 1
    BY <1>7, FS_AddElement
  <2> QED
    BY <2>1, <1>1, <1>7, RateAssumption
<1>9. ASSUME NEW h \in admitted'[a]
      PROVE  Cardinality(Reach(admitted'[a], h.at)) <= MaxRequests
  <2>1. h \in Admissions /\ h.at <= now
    BY <1>1, <1>5 DEF AdmissionsNumbered
  <2>2. CASE now <= h.at + Window
    <3>1. ASSUME NEW g \in Reach(admitted'[a], h.at) PROVE g \in InWindow(a) \cup {new}
      <4>1. g \in admitted'[a] /\ g.at >= h.at /\ g.at \in Nat
        BY <3>1, <2>1 DEF Admissions
      <4>2. g.at >= now - Window
        BY <4>1, <2>1, <2>2, <1>3, RateAssumption DEF Admissions
      <4> QED
        BY <4>1, <4>2, <1>2 DEF RateInv, BucketsHold, InWindow
    <3>2. Reach(admitted'[a], h.at) \in SUBSET (InWindow(a) \cup {new})
      BY <3>1
    <3>3. Reach(admitted'[a], h.at) \in SUBSET (InWindow(a) \cup {new}) =>
            Cardinality(Reach(admitted'[a], h.at)) <= Cardinality(InWindow(a) \cup {new})
          /\ IsFiniteSet(Reach(admitted'[a], h.at))
      BY <1>8, FS_Subset
    <3>4. Cardinality(Reach(admitted'[a], h.at)) \in Nat /\ Cardinality(InWindow(a) \cup {new}) \in Nat
      BY <3>2, <3>3, <1>8, FS_CardinalityType, FS_Subset
    <3> QED
      BY <3>2, <3>3, <3>4, <1>8, RateAssumption
  <2>3. CASE ~(now <= h.at + Window)
    <3>1. h \in admitted[a]
      BY <1>2, <1>3, <2>1, <2>3, RateAssumption DEF Admissions
    <3>2. Reach(admitted'[a], h.at) = Reach(admitted[a], h.at)
      BY <1>2, <1>3, <2>1, <2>3, RateAssumption DEF Admissions
    <3> QED
      BY <3>1, <3>2 DEF RateInv, WindowsAreBounded
  <2> QED
    BY <2>2, <2>3
<1>10. WindowsAreBounded'
  BY <1>2, <1>9 DEF RateInv, WindowsAreBounded
<1> QED
  BY <1>1, <1>3, <1>5, <1>6, <1>10 DEF RateInv

LEMMA RateInvHolds == RateSpec => []RateInv
<1>1. RateInv /\ [RateNext]_rateVars => RateInv'
  <2> SUFFICES ASSUME RateInv, [RateNext]_rateVars PROVE RateInv'
    OBVIOUS
  <2>1. CASE UNCHANGED rateVars
    BY <2>1 DEF rateVars, RateInv, BucketsHold, AdmissionsNumbered, WindowsAreBounded
  <2>2. CASE Second
    BY <2>2, SecondKeepsRate
  <2>3. ASSUME NEW a \in Addresses, Admit(a) PROVE RateInv'
    BY <2>3, AdmitKeepsRate
  <2>4. ASSUME NEW a \in Addresses, Refuse(a) PROVE RateInv'
    BY <2>1, <2>4 DEF Refuse
  <2> QED
    BY <2>1, <2>2, <2>3, <2>4 DEF RateNext
<1> QED
  BY <1>1, RateStarts, PTL DEF RateSpec

\* WindowsAreBounded: for any limit, any window and any traffic, no window
\* that ends now or earlier lets more requests of an address in than the limit.
THEOREM RatesAreBounded == RateSpec => []WindowsAreBounded
<1>1. RateInv => WindowsAreBounded
  BY DEF RateInv
<1> QED
  BY <1>1, RateInvHolds, PTL

\* RateTypeOK: a bucket holds admissions that were made, none of them later than now.
THEOREM RateTypeCorrect == RateSpec => []RateTypeOK
<1>1. RateInv => RateTypeOK
  BY DEF RateInv, BucketsHold, AdmissionsNumbered, RateTypeOK
<1> QED
  BY <1>1, RateInvHolds, PTL

-----------------------------------------------------------------------------
(***************************************************************************)
(* SmartPaste: what a request is told and what is stored agree, and the    *)
(* browsers are never more than the permits.  The argument: the outcome of *)
(* an attempt and its candidates are committed together, once, and an answer *)
(* is built from the rows that were committed.                             *)
(***************************************************************************)

Stages == {"new", "fetching", "queueing", "rendering", "rendered", "extracting", "stored", "answered"}
RenderingNow == {p \in Pasters : paste[p].at = "rendering"}

\* The candidates of a stored field: at positions of the model's answer.
CandidatesTyped(candidates) ==
  /\ DOMAIN candidates \subseteq Nat /\ IsFiniteSet(DOMAIN candidates)
  /\ \A i \in DOMAIN candidates : candidates[i].confidence \in Nat

RowsWellFormed ==
  \A p \in DOMAIN inputRows : \A f \in DOMAIN inputRows[p] : CandidatesTyped(inputRows[p][f])

\* A suggested value is a strongest accepted candidate, or implied.
Backed(suggested, rows) ==
  \A f \in DOMAIN suggested :
    LET value == suggested[f]
        backing == IF f \in DOMAIN rows THEN Accepted(rows[f]) ELSE {}
    IN IF backing = {} THEN value = SubtypeTable[suggested["subtype"]][f]
       ELSE \E i \in backing : /\ rows[f][i].value = value
                               /\ \A j \in backing : ~Stronger(rows[f][j], rows[f][i])

\* Where a request may be, given whether its attempt is committed.
Allowed(state, committed, rows) ==
  /\ state.at \in Stages
  /\ state.at \in {"queueing", "rendering", "rendered"} => state.fetch \in Retried
  /\ state.at # "answered" => (committed <=> state.at = "stored")
  /\ state.at = "answered" /\ state.code # "LOST" =>
       (committed <=> state.code \in {"ok", "EXTRACTION_EMPTY"})
  /\ state.at = "answered" /\ state.code = "ok" => Backed(state.suggested, rows)

PasteInv ==
  /\ paste = [p \in Pasters |-> paste[p]]
  /\ browserSlots \in 0..MaxBrowsers
  /\ BrowsersAddUp
  /\ attemptRows \subseteq Pasters
  /\ DOMAIN inputRows = attemptRows
  /\ RowsWellFormed
  /\ \A p \in Pasters : Allowed(paste[p], p \in attemptRows, inputRows[p])

LEMMA PasteInvImplies == PasteInv => PasteTypeOK /\ AnswersMatchTheRows
<1> SUFFICES ASSUME PasteInv PROVE PasteTypeOK /\ AnswersMatchTheRows
  OBVIOUS
<1>1. PasteTypeOK
  BY DEF PasteInv, PasteTypeOK, Allowed, Stages
<1>2. ASSUME NEW p \in Pasters
      PROVE  /\ p \in attemptRows <=> p \in DOMAIN inputRows
             /\ paste[p].at # "answered" => (p \in attemptRows <=> paste[p].at = "stored")
             /\ paste[p].at = "answered" /\ paste[p].code # "LOST" =>
                  (p \in attemptRows <=> paste[p].code \in {"ok", "EXTRACTION_EMPTY"})
             /\ paste[p].at = "answered" /\ paste[p].code = "ok" =>
                  Backed(paste[p].suggested, inputRows[p])
  BY DEF PasteInv, Allowed
<1> QED
  BY <1>1, <1>2 DEF AnswersMatchTheRows, Backed

LEMMA PasteStarts == PasteInit => PasteInv
<1> SUFFICES ASSUME PasteInit PROVE PasteInv
  OBVIOUS
<1>1. RenderingNow = {}
  BY DEF PasteInit, RenderingNow
<1>2. BrowsersAddUp
  <2>1. browserSlots + Cardinality(RenderingNow) = MaxBrowsers
    BY <1>1, FS_EmptySet, PasteAssumption DEF PasteInit
  <2> QED
    BY <2>1 DEF BrowsersAddUp, RenderingNow
<1>3. \A p \in Pasters : paste[p] = [at |-> "new"] /\ p \notin attemptRows
  BY DEF PasteInit
<1>4. \A p \in Pasters : Allowed(paste[p], p \in attemptRows, inputRows[p])
  BY <1>3 DEF Allowed, Stages
<1>5. DOMAIN inputRows = {} /\ attemptRows = {} /\ browserSlots = MaxBrowsers
  BY DEF PasteInit
<1>6. paste = [p \in Pasters |-> paste[p]]
  BY DEF PasteInit
<1> QED
  BY <1>2, <1>4, <1>5, <1>6, PasteAssumption DEF PasteInv, RowsWellFormed

\* One request moves, and no row with it: it must go where it may be, and the
\* permits must follow what is being rendered.
LEMMA MovePreserves ==
  ASSUME PasteInv, NEW p \in Pasters, NEW state, Become(p, state), NoRowChange,
         Allowed(state, p \in attemptRows, inputRows[p]),
         browserSlots' \in 0..MaxBrowsers,
         \/ browserSlots' = browserSlots /\ (paste[p].at = "rendering" <=> state.at = "rendering")
         \/ browserSlots' = browserSlots - 1 /\ paste[p].at # "rendering" /\ state.at = "rendering"
         \/ browserSlots' = browserSlots + 1 /\ paste[p].at = "rendering" /\ state.at # "rendering"
  PROVE  PasteInv'
<1>1. /\ paste' = [paste EXCEPT ![p] = state]
      /\ attemptRows' = attemptRows /\ inputRows' = inputRows
  BY DEF Become, NoRowChange
<1>2. paste'[p] = state /\ \A q \in Pasters \ {p} : paste'[q] = paste[q]
  BY <1>1 DEF PasteInv
<1>3. BrowsersAddUp'
  <2>1. IsFiniteSet(RenderingNow) /\ Cardinality(RenderingNow) \in Nat
    BY PasteAssumption, ManyInSubset DEF RenderingNow
  <2>2. browserSlots + Cardinality(RenderingNow) = MaxBrowsers
    BY DEF PasteInv, BrowsersAddUp, RenderingNow
  <2>3. CASE paste[p].at = "rendering" <=> state.at = "rendering"
    <3>1. RenderingNow' = RenderingNow
      BY <1>2, <2>3 DEF RenderingNow
    <3>2. browserSlots' = browserSlots
      BY <2>3
    <3> QED
      BY <3>1, <3>2, <2>2 DEF BrowsersAddUp, RenderingNow
  <2>4. CASE paste[p].at # "rendering" /\ state.at = "rendering"
    <3>1. RenderingNow' = RenderingNow \cup {p} /\ p \notin RenderingNow
      BY <1>2, <2>4 DEF RenderingNow
    <3>2. Cardinality(RenderingNow') = Cardinality(RenderingNow) + 1
      BY <3>1, <2>1, FS_AddElement
    <3>3. browserSlots' = browserSlots - 1
      BY <2>4
    <3> QED
      BY <3>2, <3>3, <2>1, <2>2, PasteAssumption DEF BrowsersAddUp, RenderingNow, PasteInv
  <2>5. CASE paste[p].at = "rendering" /\ state.at # "rendering"
    <3>1. RenderingNow' = RenderingNow \ {p} /\ p \in RenderingNow
      BY <1>2, <2>5 DEF RenderingNow
    <3>2. Cardinality(RenderingNow') = Cardinality(RenderingNow) - 1
      BY <3>1, <2>1, FS_RemoveElement
    <3>3. browserSlots' = browserSlots + 1
      BY <2>5
    <3> QED
      BY <3>2, <3>3, <2>1, <2>2, PasteAssumption DEF BrowsersAddUp, RenderingNow, PasteInv
  <2> QED
    BY <2>3, <2>4, <2>5
<1>4. \A q \in Pasters : Allowed(paste'[q], q \in attemptRows', inputRows'[q])
  <2>1. \A q \in Pasters \ {p} : Allowed(paste[q], q \in attemptRows, inputRows[q])
    BY DEF PasteInv
  <2> QED
    BY <1>1, <1>2, <2>1
<1>5. RowsWellFormed'
  BY <1>1 DEF PasteInv, RowsWellFormed
<1> QED
  BY <1>1, <1>3, <1>4, <1>5 DEF PasteInv

LEMMA EarlyStepsPreserve ==
  ASSUME PasteInv, NEW p \in Pasters,
         PasteText(p) \/ PasteUrl(p) \/ FollowRedirect(p) \/ FetchFails(p) \/ FetchSucceeds(p)
  PROVE  PasteInv'
<1>1. Allowed(paste[p], p \in attemptRows, inputRows[p]) /\ browserSlots \in 0..MaxBrowsers
  BY DEF PasteInv
<1>2. /\ paste[p].at \in {"new", "fetching"} /\ p \notin attemptRows
      /\ browserSlots' = browserSlots /\ NoRowChange
  BY <1>1 DEF Allowed, PasteText, PasteUrl, FollowRedirect, FetchFails, FetchSucceeds, UsePage, Flush,
     NoRowChange
<1>3. ASSUME NEW code, code \in InputErrors \cup PageErrors, Answer(p, code) PROVE PasteInv'
  <2>1. Allowed([at |-> "answered", code |-> code], p \in attemptRows, inputRows[p])
    BY <1>2, <1>3 DEF Allowed, Stages, InputErrors, PageErrors, Retried
  <2> QED
    BY <1>1, <1>2, <1>3, <2>1, MovePreserves DEF Answer
<1>4. ASSUME Become(p, [at |-> "extracting", tries |-> 0]) PROVE PasteInv'
  <2>1. Allowed([at |-> "extracting", tries |-> 0], p \in attemptRows, inputRows[p])
    BY <1>2 DEF Allowed, Stages
  <2> QED
    BY <1>1, <1>2, <1>4, <2>1, MovePreserves
<1>5. ASSUME NEW hops, Become(p, [at |-> "fetching", hops |-> hops]) PROVE PasteInv'
  <2>1. Allowed([at |-> "fetching", hops |-> hops], p \in attemptRows, inputRows[p])
    BY <1>2 DEF Allowed, Stages
  <2> QED
    BY <1>1, <1>2, <1>5, <2>1, MovePreserves
<1>6. ASSUME NEW code \in Retried, Become(p, [at |-> "queueing", fetch |-> code]) PROVE PasteInv'
  <2>1. Allowed([at |-> "queueing", fetch |-> code], p \in attemptRows, inputRows[p])
    BY <1>2 DEF Allowed, Stages
  <2> QED
    BY <1>1, <1>2, <1>6, <2>1, MovePreserves
<1>7. ASSUME UsePage(p) PROVE PasteInv'
  <2>1. "TOO_SHORT" \in InputErrors
    BY DEF InputErrors
  <2> QED
    BY <1>3, <1>4, <1>7, <2>1 DEF UsePage, Flush
<1>8. CASE PasteText(p)
  BY <1>3, <1>4, <1>8 DEF PasteText, Flush
<1>9. CASE PasteUrl(p)
  <2>1. "INVALID_LISTING_URL" \in PageErrors
    BY DEF PageErrors
  <2> QED
    BY <1>3, <1>5, <1>9, <2>1 DEF PasteUrl
<1>10. CASE FollowRedirect(p)
  BY <1>5, <1>10 DEF FollowRedirect
<1>11. CASE FetchFails(p)
  BY <1>3, <1>6, <1>11 DEF FetchFails
<1>12. CASE FetchSucceeds(p)
  BY <1>7, <1>12 DEF FetchSucceeds
<1> QED
  BY <1>8, <1>9, <1>10, <1>11, <1>12

LEMMA BrowserStepsPreserve ==
  ASSUME PasteInv, NEW p \in Pasters,
         TakeBrowser(p) \/ BrowserBusy(p) \/ Rendering(p) \/ UseRendered(p)
  PROVE  PasteInv'
<1>1. Allowed(paste[p], p \in attemptRows, inputRows[p]) /\ browserSlots \in 0..MaxBrowsers
  BY DEF PasteInv
<1>2. /\ paste[p].at \in {"queueing", "rendering", "rendered"} /\ p \notin attemptRows
      /\ paste[p].fetch \in Retried /\ NoRowChange
  BY <1>1 DEF Allowed, TakeBrowser, BrowserBusy, Rendering, UseRendered, UsePage, Flush, NoRowChange
<1>3. ASSUME NEW code \in Retried \cup {"TOO_SHORT"}
      PROVE  Allowed([at |-> "answered", code |-> code], p \in attemptRows, inputRows[p])
  BY <1>2, <1>3 DEF Allowed, Stages, Retried
<1>4. /\ Allowed([at |-> "rendering", fetch |-> paste[p].fetch], p \in attemptRows, inputRows[p])
      /\ Allowed([at |-> "rendered", fetch |-> paste[p].fetch], p \in attemptRows, inputRows[p])
      /\ Allowed([at |-> "extracting", tries |-> 0], p \in attemptRows, inputRows[p])
  BY <1>2 DEF Allowed, Stages
<1>5. CASE TakeBrowser(p)
  <2>1. /\ browserSlots' = browserSlots - 1 /\ browserSlots' \in 0..MaxBrowsers
        /\ paste[p].at # "rendering" /\ Become(p, [at |-> "rendering", fetch |-> paste[p].fetch])
    BY <1>1, <1>5, PasteAssumption DEF TakeBrowser
  <2> QED
    BY <1>2, <1>4, <2>1, MovePreserves
<1>6. CASE BrowserBusy(p)
  BY <1>1, <1>2, <1>3, <1>6, MovePreserves DEF BrowserBusy, Answer
<1>7. CASE Rendering(p)
  <2>1. browserSlots' = browserSlots + 1 /\ paste[p].at = "rendering"
    BY <1>7 DEF Rendering
  <2>2. browserSlots' \in 0..MaxBrowsers
    <3>1. IsFiniteSet(RenderingNow) /\ RenderingNow # {}
      BY <2>1, PasteAssumption, FS_Subset DEF RenderingNow
    <3>2. Cardinality(RenderingNow) \in Nat /\ Cardinality(RenderingNow) # 0
      BY <3>1, FS_CardinalityType, FS_EmptySet
    <3> QED
      BY <2>1, <3>2, PasteAssumption DEF PasteInv, BrowsersAddUp, RenderingNow
  <2>3. CASE Answer(p, paste[p].fetch)
    BY <1>2, <1>3, <2>1, <2>2, <2>3, MovePreserves DEF Answer
  <2>4. CASE Become(p, [at |-> "rendered", fetch |-> paste[p].fetch])
    BY <1>2, <1>4, <2>1, <2>2, <2>4, MovePreserves
  <2> QED
    BY <1>7, <2>3, <2>4 DEF Rendering
<1>8. CASE UseRendered(p)
  <2>1. browserSlots' = browserSlots /\ paste[p].at = "rendered"
    BY <1>8 DEF UseRendered, UsePage, Flush
  <2>2. ASSUME NEW code \in Retried \cup {"TOO_SHORT"}, Answer(p, code) PROVE PasteInv'
    BY <1>1, <1>2, <1>3, <2>1, <2>2, MovePreserves DEF Answer
  <2>3. ASSUME Become(p, [at |-> "extracting", tries |-> 0]) PROVE PasteInv'
    BY <1>1, <1>2, <1>4, <2>1, <2>3, MovePreserves
  <2> QED
    BY <1>2, <1>8, <2>2, <2>3 DEF UseRendered, UsePage, Flush
<1> QED
  BY <1>5, <1>6, <1>7, <1>8

LEMMA ModelStepsPreserve ==
  ASSUME PasteInv, NEW p \in Pasters, ModelRetries(p) \/ ModelFails(p)
  PROVE  PasteInv'
<1>1. Allowed(paste[p], p \in attemptRows, inputRows[p]) /\ browserSlots \in 0..MaxBrowsers
  BY DEF PasteInv
<1>2. /\ paste[p].at = "extracting" /\ p \notin attemptRows
      /\ browserSlots' = browserSlots /\ NoRowChange
  BY <1>1 DEF Allowed, ModelRetries, ModelFails
<1>3. CASE ModelRetries(p)
  <2>1. Allowed([at |-> "extracting", tries |-> 1], p \in attemptRows, inputRows[p])
    BY <1>2 DEF Allowed, Stages
  <2> QED
    BY <1>1, <1>2, <1>3, <2>1, MovePreserves DEF ModelRetries
<1>4. CASE ModelFails(p)
  <2>1. PICK code \in ModelErrors : Answer(p, code)
    BY <1>4 DEF ModelFails
  <2>2. Allowed([at |-> "answered", code |-> code], p \in attemptRows, inputRows[p])
    BY <1>2, <2>1 DEF Allowed, Stages, ModelErrors
  <2> QED
    BY <1>1, <1>2, <2>1, <2>2, MovePreserves DEF Answer
<1> QED
  BY <1>3, <1>4

\* What validation keeps is as well formed as what the model found.
LEMMA ValidTyped ==
  ASSUME NEW found \in Extractions, NEW f \in DOMAIN Valid(found)
  PROVE  CandidatesTyped(Valid(found)[f])
<1>1. f \in DOMAIN found /\ Valid(found)[f] = [i \in Plausible(found, f) |-> found[f][i]]
  BY DEF Valid
<1>2. Plausible(found, f) \subseteq 1..Len(found[f]) /\ Len(found[f]) \in Nat
  BY <1>1, PasteAssumption DEF Plausible
<1>3. IsFiniteSet(1..Len(found[f]))
  BY <1>2, FS_Interval
<1>4. IsFiniteSet(Plausible(found, f))
  BY <1>2, <1>3, ManyInSubset
<1>5. \A i \in Plausible(found, f) : found[f][i].confidence \in Nat
  BY <1>1, PasteAssumption DEF Plausible
<1> QED
  BY <1>1, <1>2, <1>4, <1>5 DEF CandidatesTyped

LEMMA StorePreserves ==
  ASSUME PasteInv, NEW p \in Pasters, StoreListingInput(p)
  PROVE  PasteInv'
<1>1. PICK found \in Extractions :
        inputRows' = [q \in DOMAIN inputRows \cup {p} |-> IF q = p THEN Valid(found) ELSE inputRows[q]]
  BY DEF StoreListingInput
<1>2. /\ paste' = [paste EXCEPT ![p] = [at |-> "stored"]] /\ paste[p].at = "extracting"
      /\ attemptRows' = attemptRows \cup {p} /\ browserSlots' = browserSlots
  BY DEF StoreListingInput, Become
<1>3. paste'[p] = [at |-> "stored"] /\ \A q \in Pasters \ {p} : paste'[q] = paste[q]
  BY <1>2 DEF PasteInv
<1>4. RenderingNow' = RenderingNow
  BY <1>2, <1>3 DEF RenderingNow
<1>5. BrowsersAddUp'
  BY <1>2, <1>4 DEF PasteInv, BrowsersAddUp, RenderingNow
<1>6. Allowed([at |-> "stored"], p \in attemptRows', inputRows'[p])
  BY <1>2 DEF Allowed, Stages
<1>7. \A q \in Pasters \ {p} : (q \in attemptRows' <=> q \in attemptRows)
                            /\ (q \in attemptRows => inputRows'[q] = inputRows[q])
  BY <1>1, <1>2 DEF PasteInv
<1>8. ASSUME NEW q \in Pasters \ {p} PROVE Allowed(paste'[q], q \in attemptRows', inputRows'[q])
  <2>1. Allowed(paste[q], q \in attemptRows, inputRows[q])
    BY DEF PasteInv
  <2> QED
    BY <1>3, <1>7, <2>1 DEF Allowed
<1>9. RowsWellFormed'
  BY <1>1, ValidTyped DEF PasteInv, RowsWellFormed
<1> QED
  BY <1>1, <1>2, <1>3, <1>5, <1>6, <1>8, <1>9 DEF PasteInv

\* reconcile_candidates finds a strongest candidate where one is accepted.
LEMMA PrimaryIsStrongest ==
  ASSUME NEW candidates, CandidatesTyped(candidates), Accepted(candidates) # {}
  PROVE  \E i \in Accepted(candidates) :
           /\ candidates[i].value = Primary(candidates)
           /\ \A j \in Accepted(candidates) : ~Stronger(candidates[j], candidates[i])
<1> DEFINE A == Accepted(candidates)
           power == [i \in A |-> -(2 * candidates[i].confidence
                                   + IF candidates[i].status = "available" THEN 1 ELSE 0)]
<1>1. A \subseteq DOMAIN candidates /\ A \subseteq Nat /\ IsFiniteSet(A)
      /\ \A i \in A : candidates[i].confidence \in Nat
  BY ManyInSubset DEF Accepted, CandidatesTyped
<1>2. \A i \in A : power[i] \in Int
  BY <1>1
<1>3. \A i, j \in A : Stronger(candidates[i], candidates[j]) <=> power[i] < power[j]
  <2> SUFFICES ASSUME NEW i \in A, NEW j \in A
               PROVE  Stronger(candidates[i], candidates[j]) <=> power[i] < power[j]
    OBVIOUS
  <2> HIDE DEF A
  <2> QED
    BY <1>1 DEF Stronger, Strength
<1> HIDE DEF A, power
<1>4. PICK b \in A : \A j \in A : power[b] <= power[j]
  BY <1>1, <1>2, FirstByValue DEF A
<1> DEFINE best == {i \in A : power[i] = power[b]}
           own == [i \in best |-> i]
<1>5. IsFiniteSet(best) /\ best # {} /\ \A i \in best : own[i] \in Int
  BY <1>1, <1>4, ManyInSubset
<1>6. PICK i \in best : \A j \in best : i <= j
  <2>1. \E i \in best : \A j \in best : own[i] <= own[j]
    <3> HIDE DEF own, best
    <3> QED
      BY <1>5, FirstByValue
  <2> QED
    BY <2>1
<1> DEFINE First(k) == \A j \in A : ~Stronger(candidates[j], candidates[k])
                                    /\ (j < k => Stronger(candidates[k], candidates[j]))
           chosen == CHOOSE k \in A : First(k)
<1>7. i \in A
  BY <1>6
<1>8. First(i)
  <2> SUFFICES ASSUME NEW j \in A
               PROVE /\ ~Stronger(candidates[j], candidates[i])
                     /\ j < i => Stronger(candidates[i], candidates[j])
    OBVIOUS
  <2>1. power[i] = power[b] /\ power[b] <= power[j] /\ power[i] \in Int /\ power[j] \in Int
        /\ power[b] \in Int
    BY <1>2, <1>4, <1>6
  <2>2. j < i => power[j] # power[b]
    BY <1>1, <1>6
  <2> QED
    BY <2>1, <2>2, <1>3, <1>7
<1>9. chosen \in A /\ First(chosen)
  <2> HIDE DEF First
  <2> QED
    BY <1>7, <1>8
<1>10. Primary(candidates) = candidates[chosen].value
  BY DEF Primary, A
<1> QED
  BY <1>9, <1>10 DEF A

\* What is suggested from well-formed rows is backed by them.
LEMMA SuggestionsAreBacked ==
  ASSUME NEW rows, \A f \in DOMAIN rows : CandidatesTyped(rows[f])
  PROVE  Backed(Suggested(rows), rows)
<1> DEFINE values == Reconciled(rows)
           more == Derived(values)
           said == Suggested(rows)
<1>1. /\ DOMAIN values = {g \in DOMAIN rows : Accepted(rows[g]) # {}}
      /\ \A f \in DOMAIN values : values[f] = Primary(rows[f])
  BY DEF Reconciled
<1>2. /\ DOMAIN said = DOMAIN values \cup DOMAIN more
      /\ \A f \in DOMAIN said : said[f] = IF f \in DOMAIN values THEN values[f] ELSE more[f]
  BY DEF Suggested
<1>3. ASSUME NEW f \in DOMAIN more
      PROVE  "subtype" \in DOMAIN values /\ more[f] = SubtypeTable[values["subtype"]][f]
  BY <1>3 DEF Derived
<1> HIDE DEF values, more, said
<1> SUFFICES ASSUME NEW f \in DOMAIN said
             PROVE  LET backing == IF f \in DOMAIN rows THEN Accepted(rows[f]) ELSE {}
                    IN IF backing = {} THEN said[f] = SubtypeTable[said["subtype"]][f]
                       ELSE \E i \in backing : /\ rows[f][i].value = said[f]
                                               /\ \A j \in backing : ~Stronger(rows[f][j], rows[f][i])
  BY DEF Backed, said
<1>4. CASE f \in DOMAIN values
  <2>1. f \in DOMAIN rows /\ Accepted(rows[f]) # {} /\ said[f] = Primary(rows[f])
    BY <1>1, <1>2, <1>4
  <2> QED
    BY <2>1, PrimaryIsStrongest
<1>5. CASE f \notin DOMAIN values
  <2>1. f \in DOMAIN more
    BY <1>2, <1>5
  <2>2. said[f] = SubtypeTable[said["subtype"]][f]
    BY <1>2, <1>3, <1>5, <2>1
  <2>3. (IF f \in DOMAIN rows THEN Accepted(rows[f]) ELSE {}) = {}
    BY <1>1, <1>5
  <2> QED
    BY <2>2, <2>3
<1> QED
  BY <1>4, <1>5

LEMMA SuggestPreserves ==
  ASSUME PasteInv, NEW p \in Pasters, Suggest(p)
  PROVE  PasteInv'
<1>1. Allowed(paste[p], p \in attemptRows, inputRows[p]) /\ browserSlots \in 0..MaxBrowsers
  BY DEF PasteInv
<1>2. /\ paste[p].at = "stored" /\ p \in attemptRows /\ p \in DOMAIN inputRows
      /\ browserSlots' = browserSlots /\ NoRowChange
  BY <1>1 DEF Allowed, Suggest, PasteInv
<1>3. Backed(Suggested(inputRows[p]), inputRows[p])
  BY <1>2, SuggestionsAreBacked DEF PasteInv, RowsWellFormed
<1>4. /\ Allowed([at |-> "answered", code |-> "EXTRACTION_EMPTY"], p \in attemptRows, inputRows[p])
      /\ Allowed([at |-> "answered", code |-> "ok", suggested |-> Suggested(inputRows[p])],
                 p \in attemptRows, inputRows[p])
  BY <1>2, <1>3 DEF Allowed, Stages
<1>5. \/ Become(p, [at |-> "answered", code |-> "EXTRACTION_EMPTY"])
      \/ Become(p, [at |-> "answered", code |-> "ok", suggested |-> Suggested(inputRows[p])])
  BY DEF Suggest, Answer
<1> QED
  BY <1>1, <1>2, <1>4, <1>5, MovePreserves

LEMMA RestartPreserves ==
  ASSUME PasteInv, PasteServerRestarts
  PROVE  PasteInv'
<1>1. /\ paste' = [p \in Pasters |-> IF paste[p].at \in {"new", "answered"} THEN paste[p]
                                     ELSE [at |-> "answered", code |-> "LOST"]]
      /\ browserSlots' = MaxBrowsers /\ attemptRows' = attemptRows /\ inputRows' = inputRows
  BY DEF PasteServerRestarts, NoRowChange
<1>2. RenderingNow' = {}
  BY <1>1 DEF RenderingNow
<1>3. BrowsersAddUp'
  <2>1. browserSlots' + Cardinality(RenderingNow') = MaxBrowsers
    BY <1>1, <1>2, FS_EmptySet, PasteAssumption
  <2> QED
    BY <2>1 DEF BrowsersAddUp, RenderingNow
<1>4. ASSUME NEW p \in Pasters PROVE Allowed(paste'[p], p \in attemptRows', inputRows'[p])
  <2>1. Allowed(paste[p], p \in attemptRows, inputRows[p])
    BY DEF PasteInv
  <2>2. CASE paste[p].at \in {"new", "answered"}
    BY <1>1, <2>1, <2>2
  <2>3. CASE paste[p].at \notin {"new", "answered"}
    <3>1. paste'[p] = [at |-> "answered", code |-> "LOST"]
      BY <1>1, <2>3
    <3> QED
      BY <3>1 DEF Allowed, Stages
  <2> QED
    BY <2>2, <2>3
<1>5. RowsWellFormed' /\ browserSlots' \in 0..MaxBrowsers
  BY <1>1, PasteAssumption DEF PasteInv, RowsWellFormed
<1> QED
  BY <1>1, <1>3, <1>4, <1>5 DEF PasteInv

LEMMA PasteInvHolds == PasteSpec => []PasteInv
<1>1. PasteInv /\ [PasteNext]_pasteVars => PasteInv'
  <2> SUFFICES ASSUME PasteInv, [PasteNext]_pasteVars PROVE PasteInv'
    OBVIOUS
  <2>1. CASE UNCHANGED pasteVars
    BY <2>1 DEF pasteVars, PasteInv, BrowsersAddUp, RowsWellFormed
  <2>2. CASE PasteServerRestarts
    BY <2>2, RestartPreserves
  <2>3. ASSUME NEW p \in Pasters,
               \/ PasteText(p) \/ PasteUrl(p) \/ FollowRedirect(p) \/ FetchFails(p) \/ FetchSucceeds(p)
               \/ TakeBrowser(p) \/ BrowserBusy(p) \/ Rendering(p) \/ UseRendered(p)
               \/ ModelRetries(p) \/ ModelFails(p) \/ StoreListingInput(p) \/ Suggest(p)
        PROVE  PasteInv'
    BY <2>3, EarlyStepsPreserve, BrowserStepsPreserve, ModelStepsPreserve, StorePreserves,
       SuggestPreserves
  <2> QED
    BY <2>1, <2>2, <2>3 DEF PasteNext
<1> QED
  BY <1>1, PasteStarts, PTL DEF PasteSpec

\* AnswersMatchTheRows: however requests fail, overlap and are cut off, what a
\* request was told is what the database holds.
THEOREM AnswersMatchRows == PasteSpec => []AnswersMatchTheRows
  BY PasteInvHolds, PasteInvImplies, PTL

\* PasteTypeOK: stages, permits and rows keep their types, and no browser
\* permit is lost or counted twice.
THEOREM PasteTypeCorrect == PasteSpec => []PasteTypeOK
  BY PasteInvHolds, PasteInvImplies, PTL

-----------------------------------------------------------------------------
(***************************************************************************)
(* What the threads of a batch share, for any number of calls, threads and *)
(* batches.  The clients: while the provider is open its client is the     *)
(* last one created, and the clients created, with the threads about to    *)
(* create one, are never more than the pool has threads, for the answer to *)
(* "is there a client" turns to yes with the first one.                    *)
(***************************************************************************)

RouteStages == {"absent", "queued", "lookup", "client", "create", "use", "post", "store", "done"}

\* The batch in progress and the threads that serve it.
BatchTyped ==
  /\ calls \in Seq(Trips)
  /\ at \in [DOMAIN calls -> RouteStages]
  /\ held \in [DOMAIN calls -> Nat]
  /\ outcome \in [DOMAIN calls -> Trips \cup {Failed, Nothing}]
  /\ providerLife \in {"open", "closed"}
  /\ created \in Nat
  /\ cache \in [Trips -> Trips \cup {Nothing}]

Creators == {i \in DOMAIN at : at[i] = "create"}

\* The provider's client is the last one, and every thread past the check has one.
ClientIsLast ==
  /\ providerLife = "open" => client = created /\ closedClients = {}
  /\ providerLife = "closed" => calls = <<>> /\ closedClients = {created} \ {0}
  /\ \A i \in DOMAIN at : at[i] = "use" => created # 0
  /\ \A i \in DOMAIN at : at[i] = "post" => held[i] # 0

PoolIsBounded ==
  /\ Cardinality(Running) <= RouteWorkers
  /\ created + Cardinality(Creators) <= RouteWorkers

ClientInv == BatchTyped /\ ClientIsLast /\ PoolIsBounded

LEMMA PoolIsFinite ==
  ASSUME BatchTyped
  PROVE  /\ IsFiniteSet(Running) /\ IsFiniteSet(Creators) /\ Creators \subseteq Running
         /\ Cardinality(Running) \in Nat /\ Cardinality(Creators) \in Nat
         /\ Cardinality(Creators) <= Cardinality(Running)
<1>1. DOMAIN at = 1..Len(calls) /\ Len(calls) \in Nat
  BY DEF BatchTyped
<1>2. IsFiniteSet(DOMAIN at)
  BY <1>1, FS_Interval
<1>3. Running \subseteq DOMAIN at /\ Creators \subseteq Running
  BY DEF Running, Creators
<1>4. IsFiniteSet(Running) /\ IsFiniteSet(Creators) /\ Cardinality(Creators) <= Cardinality(Running)
  BY <1>2, <1>3, FS_Subset
<1> QED
  BY <1>3, <1>4, FS_CardinalityType

LEMMA ClientsStart == RoutesInit => ClientInv
<1> SUFFICES ASSUME RoutesInit PROVE ClientInv
  OBVIOUS
<1>1. BatchTyped
  BY DEF RoutesInit, BatchTyped
<1>2. ClientIsLast
  BY DEF RoutesInit, ClientIsLast
<1>3. Running = {} /\ Creators = {} /\ created = 0
  BY DEF RoutesInit, Running, Creators
<1>4. PoolIsBounded
  BY <1>3, FS_EmptySet, RouteAssumption DEF PoolIsBounded
<1> QED
  BY <1>1, <1>2, <1>4 DEF ClientInv
\* A step of a thread that creates no client and takes no call.
LEMMA PoolShrinks ==
  ASSUME ClientInv, Running' \subseteq Running, Creators' \subseteq Creators, created' = created
  PROVE  PoolIsBounded'
<1>1. /\ IsFiniteSet(Running) /\ IsFiniteSet(Creators)
      /\ Cardinality(Running) \in Nat /\ Cardinality(Creators) \in Nat
  BY PoolIsFinite DEF ClientInv
<1>2. /\ Cardinality(Running') <= Cardinality(Running) /\ IsFiniteSet(Running')
      /\ Cardinality(Creators') <= Cardinality(Creators) /\ IsFiniteSet(Creators')
  BY <1>1, FS_Subset
<1>3. Cardinality(Running') \in Nat /\ Cardinality(Creators') \in Nat
  BY <1>2, FS_CardinalityType
<1> QED
  BY <1>1, <1>2, <1>3, RouteAssumption DEF ClientInv, PoolIsBounded, BatchTyped

\* Where the threads stand once one of them has moved.
LEMMA OneMoves ==
  ASSUME BatchTyped, NEW i \in DOMAIN at, NEW stage \in RouteStages, at' = [at EXCEPT ![i] = stage], UNCHANGED calls
  PROVE  /\ at' \in [DOMAIN calls' -> RouteStages] /\ DOMAIN at' = DOMAIN at
         /\ Running' = IF stage \in {"queued", "absent", "done"} THEN Running \ {i} ELSE Running \cup {i}
         /\ Creators' = IF stage = "create" THEN Creators \cup {i} ELSE Creators \ {i}
         /\ \A j \in DOMAIN at : at'[j] = IF j = i THEN stage ELSE at[j]
  BY DEF BatchTyped, Running, Creators

\* A thread is at work only while the provider is open.
LEMMA OpenWhileAtWork ==
  ASSUME ClientInv, NEW i \in DOMAIN at
  PROVE  providerLife = "open" /\ client = created /\ closedClients = {} /\ at[i] \in RouteStages
         /\ calls \in Seq(Trips) /\ calls[i] \in Trips /\ cache[Slot[calls[i]]] \in Trips \cup {Nothing}
  BY RouteAssumption DEF ClientInv, BatchTyped, ClientIsLast

LEMMA ThreadKeeps ==
  ASSUME ClientInv, NEW i \in DOMAIN at,
         LookupHit(i) \/ LookupMiss(i) \/ UseClient(i) \/ Answered(i) \/ Refused(i) \/ StoreRoute(i)
  PROVE  ClientInv'
<1>a. BatchTyped /\ ClientIsLast
  BY DEF ClientInv
<1>b. /\ providerLife = "open" /\ client = created /\ closedClients = {}
      /\ calls[i] \in Trips /\ cache[Slot[calls[i]]] \in Trips \cup {Nothing}
  BY OpenWhileAtWork
<1>1. /\ UNCHANGED <<calls, client, created, closedClients, providerLife>>
      /\ \E stage \in {"client", "post", "store", "done"} :
           /\ at' = [at EXCEPT ![i] = stage]
           /\ stage = "post" => at[i] = "use" /\ held' = [held EXCEPT ![i] = client]
           /\ stage # "post" => held' = held
  BY DEF LookupHit, LookupMiss, UseClient, Answered, Refused, StoreRoute, Done
<1>2. PICK stage \in {"client", "post", "store", "done"} :
           /\ at' = [at EXCEPT ![i] = stage]
           /\ stage = "post" => at[i] = "use" /\ held' = [held EXCEPT ![i] = client]
           /\ stage # "post" => held' = held
  BY <1>1
<1>3. /\ at' \in [DOMAIN calls' -> RouteStages] /\ DOMAIN at' = DOMAIN at
      /\ Running' = IF stage \in {"queued", "absent", "done"} THEN Running \ {i} ELSE Running \cup {i}
      /\ Creators' = IF stage = "create" THEN Creators \cup {i} ELSE Creators \ {i}
      /\ \A j \in DOMAIN at : at'[j] = IF j = i THEN stage ELSE at[j]
  BY <1>a, <1>1, <1>2, OneMoves DEF RouteStages
<1>4. i \in Running
  BY DEF LookupHit, LookupMiss, UseClient, Answered, Refused, StoreRoute, Running
<1>5. PoolIsBounded'
  BY <1>1, <1>3, <1>4, PoolShrinks
<1>6. outcome' \in [DOMAIN calls' -> Trips \cup {Failed, Nothing}] /\ cache' \in [Trips -> Trips \cup {Nothing}]
  BY <1>a, <1>b DEF BatchTyped, LookupHit, LookupMiss, UseClient, Answered, Refused, StoreRoute, Done
<1>7. BatchTyped'
  <2>1. held' \in [DOMAIN calls -> Nat]
    BY <1>a, <1>b, <1>2 DEF BatchTyped
  <2>2. calls' = calls /\ created' = created /\ providerLife' = providerLife
    BY <1>1
  <2> QED
    BY <1>a, <1>3, <1>6, <2>1, <2>2 DEF BatchTyped
<1>8. ClientIsLast'
  BY <1>a, <1>b, <1>1, <1>2, <1>3 DEF ClientIsLast, BatchTyped
<1> QED
  BY <1>5, <1>7, <1>8 DEF ClientInv

LEMMA CreateKeeps ==
  ASSUME ClientInv, NEW i \in DOMAIN at, Take(i) \/ NeedClient(i) \/ CreateClient(i)
  PROVE  ClientInv'
<1>a. BatchTyped /\ ClientIsLast /\ PoolIsBounded /\ created \in Nat /\ RouteWorkers \in Nat
  BY RouteAssumption DEF ClientInv, BatchTyped
<1>b. /\ IsFiniteSet(Running) /\ IsFiniteSet(Creators) /\ Creators \subseteq Running
      /\ Cardinality(Running) \in Nat /\ Cardinality(Creators) \in Nat
      /\ Cardinality(Creators) <= Cardinality(Running)
  BY <1>a, PoolIsFinite
<1>c. providerLife = "open" /\ client = created /\ closedClients = {}
  BY OpenWhileAtWork
<1>1. PICK stage \in {"lookup", "create", "use"} :
        /\ at' = [at EXCEPT ![i] = stage]
        /\ stage = "lookup" => Take(i)
        /\ stage = "create" => NeedClient(i) /\ client = 0
        /\ stage = "use" => CreateClient(i) \/ (NeedClient(i) /\ client # 0)
  BY DEF Take, NeedClient, CreateClient
<1>2. UNCHANGED <<calls, held, outcome, cache, closedClients, providerLife>>
  BY DEF Take, NeedClient, CreateClient
<1>3. /\ at' \in [DOMAIN calls' -> RouteStages] /\ DOMAIN at' = DOMAIN at
      /\ Running' = IF stage \in {"queued", "absent", "done"} THEN Running \ {i} ELSE Running \cup {i}
      /\ Creators' = IF stage = "create" THEN Creators \cup {i} ELSE Creators \ {i}
      /\ \A j \in DOMAIN at : at'[j] = IF j = i THEN stage ELSE at[j]
  BY <1>a, <1>1, <1>2, OneMoves DEF RouteStages
<1>4. IF CreateClient(i) THEN created' = created + 1 /\ client' = created + 1 ELSE UNCHANGED <<client, created>>
  BY DEF Take, NeedClient, CreateClient
<1>5. BatchTyped'
  BY <1>a, <1>2, <1>3, <1>4 DEF BatchTyped
<1>6. ClientIsLast'
  BY <1>a, <1>c, <1>1, <1>2, <1>3, <1>4 DEF ClientIsLast, CreateClient
<1>7. PoolIsBounded'
  <2>1. CASE stage = "lookup"
    <3>0. at[i] = "queued" /\ Cardinality(Running) < RouteWorkers /\ created' = created
      BY <1>1, <2>1 DEF Take
    <3>1. Running' = Running \cup {i} /\ Creators' = Creators
      BY <1>3, <2>1, <3>0 DEF Creators
    <3>2. /\ Cardinality(Running \cup {i}) \in {Cardinality(Running), Cardinality(Running) + 1}
          /\ IsFiniteSet(Running \cup {i})
      BY <1>b, FS_AddElement
    <3> QED
      BY <1>a, <1>b, <3>0, <3>1, <3>2 DEF PoolIsBounded
  <2>2. CASE stage = "create"
    <3>1. Running' = Running /\ created' = 0
      BY <1>1, <1>3, <1>4, <1>c, <2>2 DEF NeedClient, CreateClient, Running
    <3>2. Cardinality(Creators') <= Cardinality(Running') /\ Cardinality(Creators') \in Nat
      <4>1. Creators' \subseteq Running'
        BY <1>b, <1>3, <2>2
      <4> QED
        BY <1>b, <3>1, <4>1, FS_Subset, FS_CardinalityType
    <3> QED
      BY <1>a, <1>b, <3>1, <3>2 DEF PoolIsBounded
  <2>3. CASE stage = "use" /\ CreateClient(i)
    <3>1. Running' = Running /\ Creators' = Creators \ {i} /\ i \in Creators /\ created' = created + 1
      BY <1>3, <1>4, <2>3 DEF CreateClient, Running, Creators
    <3>2. Cardinality(Creators') = Cardinality(Creators) - 1
      BY <1>b, <3>1, FS_RemoveElement
    <3> QED
      BY <1>a, <1>b, <3>1, <3>2 DEF PoolIsBounded
  <2>4. CASE stage = "use" /\ ~CreateClient(i)
    <3>1. Running' \subseteq Running /\ Creators' \subseteq Creators /\ created' = created
      BY <1>1, <1>3, <1>4, <2>4 DEF NeedClient, Running
    <3> QED
      BY <3>1, PoolShrinks
  <2> QED
    BY <2>1, <2>2, <2>3, <2>4
<1> QED
  BY <1>5, <1>6, <1>7 DEF ClientInv

\* Between batches.
LEMMA BatchKeeps ==
  ASSUME ClientInv, (\E list \in CallLists : StartBatch(list)) \/ Collect \/ CloseProvider
                    \/ \E t \in Trips : ExpireRoute(t)
  PROVE  ClientInv'
<1>a. BatchTyped /\ ClientIsLast /\ PoolIsBounded
  BY DEF ClientInv
<1>1. ASSUME NEW list \in CallLists, StartBatch(list) PROVE ClientInv'
  <2>1. BatchTyped'
    BY <1>a, <1>1, RouteAssumption DEF StartBatch, BatchTyped, RouteStages
  <2>2. ClientIsLast'
    BY <1>a, <1>1 DEF StartBatch, ClientIsLast
  <2>3. Running' = {} /\ Creators' = {} /\ created' = created
    BY <1>1 DEF StartBatch, Running, Creators
  <2>4. PoolIsBounded'
    BY <2>3, PoolShrinks
  <2> QED
    BY <2>1, <2>2, <2>4 DEF ClientInv
<1>2. CASE Collect
  <2>1. BatchTyped'
    BY <1>a, <1>2 DEF Collect, BatchTyped
  <2>2. ClientIsLast'
    BY <1>a, <1>2 DEF Collect, ClientIsLast, BatchOver
  <2>3. Running' = {} /\ Creators' = {} /\ created' = created
    BY <1>2 DEF Collect, Running, Creators
  <2>4. PoolIsBounded'
    BY <2>3, PoolShrinks
  <2> QED
    BY <2>1, <2>2, <2>4 DEF ClientInv
<1>3. CASE CloseProvider
  <2>1. BatchTyped'
    BY <1>a, <1>3 DEF CloseProvider, BatchTyped
  <2>2. ClientIsLast'
    BY <1>a, <1>3 DEF CloseProvider, ClientIsLast
  <2>3. Running' = Running /\ Creators' = Creators /\ created' = created
    BY <1>3 DEF CloseProvider, Running, Creators
  <2>4. PoolIsBounded'
    BY <2>3, PoolShrinks
  <2> QED
    BY <2>1, <2>2, <2>4 DEF ClientInv
<1>4. ASSUME NEW t \in Trips, ExpireRoute(t) PROVE ClientInv'
  <2>1. BatchTyped'
    BY <1>a, <1>4 DEF ExpireRoute, BatchTyped
  <2>2. ClientIsLast'
    BY <1>a, <1>4 DEF ExpireRoute, ClientIsLast
  <2>3. Running' = Running /\ Creators' = Creators /\ created' = created
    BY <1>4 DEF ExpireRoute, Running, Creators
  <2>4. PoolIsBounded'
    BY <2>3, PoolShrinks
  <2> QED
    BY <2>1, <2>2, <2>4 DEF ClientInv
<1> QED
  BY <1>1, <1>2, <1>3, <1>4

LEMMA ClientsKeep == ClientInv /\ [RoutesNext]_routeVars => ClientInv'
<1>1. CASE UNCHANGED routeVars
  BY <1>1 DEF ClientInv, BatchTyped, ClientIsLast, PoolIsBounded, Running, Creators, routeVars
<1> QED
  BY <1>1, ThreadKeeps, CreateKeeps, BatchKeeps DEF RoutesNext

\* However many threads find no client and create one, no thread posts with a
\* closed client, and fewer clients stay open after the provider is closed than
\* the pool has threads (GoogleRoutingProvider._get_client and close).
THEOREM ClientsAreBounded == RoutesSpec => []ClientsAreAccountedFor
<1>1. ClientInv => ClientsAreAccountedFor
  <2> SUFFICES ASSUME ClientInv PROVE ClientsAreAccountedFor
    OBVIOUS
  <2>a. created \in Nat /\ RouteWorkers \in Nat \ {0} /\ BatchTyped /\ ClientIsLast
    BY RouteAssumption DEF ClientInv, BatchTyped
  <2>1. \A i \in DOMAIN at : at[i] = "post" => held[i] # 0 /\ held[i] \notin closedClients
    BY OpenWhileAtWork DEF ClientInv, ClientIsLast
  <2>2. created <= RouteWorkers
    BY <2>a, PoolIsFinite DEF ClientInv, PoolIsBounded
  <2>3. ASSUME providerLife = "closed" PROVE created - Cardinality(closedClients) < RouteWorkers
    <3>1. CASE created = 0
      <4>1. closedClients = {}
        BY <2>a, <2>3, <3>1 DEF ClientIsLast
      <4>2. Cardinality(closedClients) = 0
        BY <4>1, FS_EmptySet
      <4> QED
        BY <2>a, <3>1, <4>2
    <3>2. CASE created # 0
      <4>1. closedClients = {created}
        BY <2>a, <2>3, <3>2 DEF ClientIsLast
      <4>2. Cardinality(closedClients) = 1
        BY <4>1, FS_Singleton
      <4> QED
        BY <2>a, <2>2, <4>2
    <3> QED
      BY <3>1, <3>2
  <2> QED
    BY <2>1, <2>3 DEF ClientsAreAccountedFor
<1> QED
  BY <1>1, ClientsStart, ClientsKeep, PTL DEF RoutesSpec

\* The clients that are held, in use or closed are among those created.
ClientsAreNumbered ==
  /\ \A i \in DOMAIN held : held[i] \in 0..created
  /\ client \in 0..created /\ closedClients \subseteq 1..created

\* RoutesTypeOK: every call of a batch has its thread, its client is one that
\* was created, and its outcome a route or a failure.
THEOREM RoutesTypeCorrect == RoutesSpec => []RoutesTypeOK
<1>1. RoutesInit => ClientsAreNumbered
  BY DEF RoutesInit, ClientsAreNumbered
<1>2. ClientInv /\ ClientsAreNumbered /\ [RoutesNext]_routeVars => ClientsAreNumbered'
  <2> SUFFICES ASSUME ClientInv, ClientsAreNumbered, [RoutesNext]_routeVars PROVE ClientsAreNumbered'
    OBVIOUS
  <2>a. BatchTyped /\ created \in Nat
    BY DEF ClientInv, BatchTyped
  <2>1. CASE UNCHANGED <<held, client, created, closedClients>>
    BY <2>1 DEF ClientsAreNumbered
  <2>2. ASSUME NEW i \in DOMAIN at, CreateClient(i) PROVE ClientsAreNumbered'
    <3>1. created' = created + 1 /\ client' = created + 1 /\ UNCHANGED <<held, closedClients>>
      BY <2>2 DEF CreateClient
    <3> QED
      BY <3>1, <2>a DEF ClientsAreNumbered
  <2>3. ASSUME NEW i \in DOMAIN at, UseClient(i) PROVE ClientsAreNumbered'
    <3>1. held' = [held EXCEPT ![i] = client] /\ UNCHANGED <<client, created, closedClients>>
      BY <2>3 DEF UseClient
    <3> QED
      BY <3>1 DEF ClientsAreNumbered
  <2>4. ASSUME NEW list \in CallLists, StartBatch(list) PROVE ClientsAreNumbered'
    <3>1. held' = [i \in DOMAIN list |-> 0] /\ UNCHANGED <<client, created, closedClients>>
      BY <2>4 DEF StartBatch
    <3> QED
      BY <3>1, <2>a DEF ClientsAreNumbered
  <2>5. CASE Collect
    <3>1. held' = <<>> /\ UNCHANGED <<client, created, closedClients>>
      BY <2>5 DEF Collect
    <3> QED
      BY <3>1 DEF ClientsAreNumbered
  <2>6. CASE CloseProvider
    <3>1. closedClients' = closedClients \cup ({client} \ {0}) /\ client' = 0 /\ UNCHANGED <<held, created>>
      BY <2>6 DEF CloseProvider
    <3> QED
      BY <3>1, <2>a DEF ClientsAreNumbered
  <2> QED
    BY <2>1, <2>2, <2>3, <2>4, <2>5, <2>6
    DEF RoutesNext, routeVars, Take, LookupHit, LookupMiss, NeedClient, Answered, Refused, StoreRoute, ExpireRoute
<1>3. ClientInv /\ ClientsAreNumbered => RoutesTypeOK
  BY DEF ClientInv, BatchTyped, ClientsAreNumbered, RoutesTypeOK, RouteStages
<1> QED
  BY <1>1, <1>2, <1>3, ClientsStart, ClientsKeep, PTL DEF RoutesSpec

-----------------------------------------------------------------------------
(* The outcomes.                                                           *)

\* The first call with a key is there, and there is no earlier one.
LEMMA FirstIsFirst ==
  ASSUME NEW list \in Seq(Trips), NEW i \in DOMAIN list
  PROVE  /\ FirstWithKey(list, i) \in 1..i /\ list[FirstWithKey(list, i)] = list[i]
         /\ \A k \in 1..(FirstWithKey(list, i) - 1) : list[k] # list[i]
<1> DEFINE Same == {k \in DOMAIN list : list[k] = list[i]}
<1>1. DOMAIN list = 1..Len(list) /\ Len(list) \in Nat
  OBVIOUS
<1>2. PICK m \in Same : \A k \in Same : ~(k < m)
  <2> DEFINE Less == OpToRel(<, Nat)
  <2>1. Same \subseteq Nat /\ Same # {}
    BY <1>1
  <2>2. IsWellFoundedOn(Less, Nat)
    BY NatLessThanWellFounded, Zenon
  <2>3. \A k, m \in Nat : k < m => <<k, m>> \in Less
    BY DEF OpToRel
  <2> HIDE DEF Less
  <2>4. \E m \in Same : \A k \in Same : ~(<<k, m>> \in Less)
    BY <2>1, <2>2, WFMin
  <2> QED
    BY <2>1, <2>3, <2>4
<1>3. m \in 1..i /\ list[m] = list[i] /\ \A k \in 1..(m-1) : list[k] # list[m]
  BY <1>1, <1>2
<1> QED
  BY <1>3 DEF FirstWithKey

LEMMA FirstIsShared ==
  ASSUME NEW list \in Seq(Trips), NEW i \in DOMAIN list, NEW j \in DOMAIN list, list[i] = list[j]
  PROVE  FirstWithKey(list, i) = FirstWithKey(list, j)
<1>1. DOMAIN list = 1..Len(list) /\ Len(list) \in Nat
  OBVIOUS
<1>2. PICK f \in 1..i : f = FirstWithKey(list, i) /\ list[f] = list[i] /\ \A k \in 1..(f-1) : list[k] # list[i]
  BY FirstIsFirst
<1>3. PICK g \in 1..j : g = FirstWithKey(list, j) /\ list[g] = list[j] /\ \A k \in 1..(g-1) : list[k] # list[j]
  BY FirstIsFirst
<1>4. ~(f < g) /\ ~(g < f) /\ f \in Nat /\ g \in Nat
  BY <1>1, <1>2, <1>3
<1> QED
  BY <1>2, <1>3, <1>4

\* The first call with a key is one that the pool gets.
LEMMA FirstIsUnique ==
  ASSUME NEW list \in Seq(Trips), NEW i \in DOMAIN list
  PROVE  FirstWithKey(list, i) \in UniqueCalls(list)
<1>1. DOMAIN list = 1..Len(list) /\ Len(list) \in Nat
  OBVIOUS
<1>2. FirstWithKey(list, i) \in DOMAIN list /\ list[FirstWithKey(list, i)] = list[i]
  BY <1>1, FirstIsFirst
<1>3. FirstWithKey(list, FirstWithKey(list, i)) = FirstWithKey(list, i)
  BY <1>2, FirstIsShared
<1> QED
  BY <1>2, <1>3 DEF UniqueCalls
\* A slot of the cache holds a route of a trip of that slot, a thread that is
\* done has a route of its call's slot or was refused, and only repeated calls
\* have no thread.
CacheMatches == \A t \in Trips : cache[t] # Nothing => cache[t] \in Trips /\ Slot[cache[t]] = t

GoodOutcome(trip, got) ==
  \/ got = Failed /\ trip \in refused
  \/ got \in Trips /\ Slot[got] = Slot[trip]

ThreadsAnswer ==
  /\ \A i \in DOMAIN at : at[i] \in {"store", "done"} => GoodOutcome(calls[i], outcome[i])
  /\ \A i \in DOMAIN at : at[i] = "store" => outcome[i] = calls[i]
  /\ \A i \in DOMAIN at : at[i] = "absent" => i \notin UniqueCalls(calls)

AnswerInv == BatchTyped /\ CacheMatches /\ ThreadsAnswer /\ OutcomesAnswerTheirCalls

LEMMA AnswersStart == RoutesInit => AnswerInv
  BY DEF RoutesInit, AnswerInv, BatchTyped, CacheMatches, ThreadsAnswer, OutcomesAnswerTheirCalls, NoAnswers, RouteStages

\* A batch in progress never fails what it has answered before.
LEMMA AnswersStay ==
  ASSUME AnswerInv, UNCHANGED <<calls, answers>>, refused \subseteq refused'
  PROVE  OutcomesAnswerTheirCalls'
  BY DEF AnswerInv, OutcomesAnswerTheirCalls

LEMMA ThreadAnswers ==
  ASSUME ClientInv, AnswerInv, ClientInv', NEW i \in DOMAIN at,
         Take(i) \/ LookupHit(i) \/ LookupMiss(i) \/ NeedClient(i) \/ CreateClient(i) \/ UseClient(i)
         \/ Answered(i) \/ Refused(i) \/ StoreRoute(i)
  PROVE  AnswerInv'
<1>a. BatchTyped /\ CacheMatches /\ ThreadsAnswer
  BY DEF AnswerInv
<1>b. calls[i] \in Trips /\ Slot[calls[i]] \in Trips /\ DOMAIN at = DOMAIN calls /\ Failed \notin Trips
      /\ Nothing \notin Trips
  BY <1>a, OpenWhileAtWork, RouteAssumption DEF BatchTyped
<1>1. BatchTyped' /\ UNCHANGED <<calls, answers>> /\ refused \subseteq refused'
  BY DEF ClientInv, Take, LookupHit, LookupMiss, NeedClient, CreateClient, UseClient, Answered, Refused, StoreRoute
<1>2. CacheMatches'
  BY <1>a, <1>b DEF BatchTyped, CacheMatches, Take, LookupHit, LookupMiss, NeedClient, CreateClient, UseClient, Answered,
     Refused, StoreRoute, ThreadsAnswer
<1>3. PICK stage \in RouteStages \ {"absent"} : at' = [at EXCEPT ![i] = stage]
  BY DEF Take, LookupHit, LookupMiss, NeedClient, CreateClient, UseClient, Answered, Refused, StoreRoute, Done, RouteStages
<1>4. \A j \in DOMAIN at : j # i => at'[j] = at[j] /\ outcome'[j] = outcome[j]
  BY <1>a, <1>3 DEF BatchTyped, Take, LookupHit, LookupMiss, NeedClient, CreateClient, UseClient, Answered, Refused,
     StoreRoute, Done
<1>5. at'[i] = stage /\ DOMAIN at' = DOMAIN at
  BY <1>a, <1>3 DEF BatchTyped
<1>6. /\ stage \in {"store", "done"} => GoodOutcome(calls[i], outcome[i])'
      /\ stage = "store" => outcome'[i] = calls[i]
  <2>1. CASE LookupHit(i)
    BY <1>a, <1>b, <1>5, <2>1 DEF LookupHit, Done, BatchTyped, CacheMatches, GoodOutcome
  <2>2. CASE Answered(i)
    BY <1>a, <1>b, <2>2 DEF Answered, BatchTyped, GoodOutcome
  <2>3. CASE Refused(i)
    BY <1>a, <1>b, <1>3, <1>5, <2>3 DEF Refused, Done, BatchTyped, GoodOutcome
  <2>4. CASE StoreRoute(i)
    BY <1>a, <1>b, <1>1, <1>5, <2>4 DEF StoreRoute, BatchTyped, ThreadsAnswer, GoodOutcome
  <2>5. CASE Take(i) \/ LookupMiss(i) \/ NeedClient(i) \/ CreateClient(i) \/ UseClient(i)
    BY <1>a, <1>5, <2>5 DEF Take, LookupMiss, NeedClient, CreateClient, UseClient, BatchTyped
  <2> QED
    BY <2>1, <2>2, <2>3, <2>4, <2>5
<1>7. ThreadsAnswer'
  BY <1>a, <1>1, <1>4, <1>5, <1>6 DEF ThreadsAnswer, GoodOutcome
<1> QED
  BY <1>1, <1>2, <1>7, AnswersStay DEF AnswerInv

\* A batch that is over answers every call through the first one with its key.
LEMMA CollectAnswers ==
  ASSUME ClientInv, AnswerInv, ClientInv', Collect
  PROVE  AnswerInv'
<1>a. BatchTyped /\ CacheMatches /\ ThreadsAnswer /\ DOMAIN at = DOMAIN calls /\ calls \in Seq(Trips)
      /\ DOMAIN calls = 1..Len(calls) /\ Len(calls) \in Nat
  BY DEF AnswerInv, BatchTyped
<1>1. BatchTyped' /\ CacheMatches' /\ ThreadsAnswer'
  BY <1>a DEF ClientInv, Collect, CacheMatches, ThreadsAnswer
<1>2. answers'.calls = calls /\ answers'.outcomes = [i \in DOMAIN calls |-> outcome[FirstWithKey(calls, i)]]
      /\ refused' = refused
  BY DEF Collect
<1>3. ASSUME NEW i \in DOMAIN calls PROVE GoodOutcome(calls[i], outcome[FirstWithKey(calls, i)])
  <2>1. FirstWithKey(calls, i) \in DOMAIN at /\ calls[FirstWithKey(calls, i)] = calls[i]
    BY <1>a, FirstIsFirst
  <2>2. at[FirstWithKey(calls, i)] = "done"
    BY <1>a, <2>1, FirstIsUnique DEF Collect, BatchOver, ThreadsAnswer
  <2> QED
    BY <1>a, <2>1, <2>2 DEF ThreadsAnswer
<1>4. \A i, j \in DOMAIN calls : calls[i] = calls[j] => FirstWithKey(calls, i) = FirstWithKey(calls, j)
  BY <1>a, FirstIsShared
<1>5. Failed \notin Trips
  BY RouteAssumption
<1>6. OutcomesAnswerTheirCalls'
  BY <1>2, <1>3, <1>4, <1>5 DEF OutcomesAnswerTheirCalls, GoodOutcome
<1> QED
  BY <1>1, <1>6 DEF AnswerInv

LEMMA AnswersKeep == ClientInv /\ AnswerInv /\ ClientInv' /\ [RoutesNext]_routeVars => AnswerInv'
<1> SUFFICES ASSUME ClientInv, AnswerInv, ClientInv', [RoutesNext]_routeVars PROVE AnswerInv'
  OBVIOUS
<1>a. BatchTyped /\ BatchTyped' /\ CacheMatches /\ ThreadsAnswer
  BY DEF AnswerInv, ClientInv
<1>1. CASE UNCHANGED routeVars
  BY <1>1 DEF AnswerInv, BatchTyped, CacheMatches, ThreadsAnswer, GoodOutcome, OutcomesAnswerTheirCalls, routeVars
<1>2. ASSUME NEW list \in CallLists, StartBatch(list) PROVE AnswerInv'
  <2>1. CacheMatches'
    BY <1>2, <1>a DEF StartBatch, CacheMatches
  <2>2. ThreadsAnswer'
    BY <1>2 DEF StartBatch, ThreadsAnswer
  <2>3. OutcomesAnswerTheirCalls'
    BY <1>2, RouteAssumption DEF StartBatch, OutcomesAnswerTheirCalls, AnswerInv
  <2> QED
    BY <1>a, <2>1, <2>2, <2>3 DEF AnswerInv
<1>3. ASSUME NEW t \in Trips, ExpireRoute(t) PROVE AnswerInv'
  <2>1. CacheMatches'
    BY <1>3, <1>a DEF ExpireRoute, CacheMatches, BatchTyped
  <2>2. ThreadsAnswer'
    BY <1>3, <1>a DEF ExpireRoute, ThreadsAnswer, GoodOutcome
  <2> QED
    BY <1>3, <1>a, <2>1, <2>2, AnswersStay DEF ExpireRoute, AnswerInv
<1>4. CASE CloseProvider
  <2>1. CacheMatches' /\ ThreadsAnswer'
    BY <1>4, <1>a DEF CloseProvider, CacheMatches, ThreadsAnswer, GoodOutcome
  <2> QED
    BY <1>4, <1>a, <2>1, AnswersStay DEF CloseProvider, AnswerInv
<1> QED
  BY <1>1, <1>2, <1>3, <1>4, ThreadAnswers, CollectAnswers DEF RoutesNext

\* Every caller of a batch gets the outcome of its own call: a route of its own
\* cache slot, or a failure when the provider refused that very call, in
\* whatever order the threads answer (run_bounded_route_calls).
THEOREM CallersGetTheirOwn == RoutesSpec => []OutcomesAnswerTheirCalls
<1>1. AnswerInv => OutcomesAnswerTheirCalls
  BY DEF AnswerInv
<1> QED
  BY <1>1, ClientsStart, ClientsKeep, AnswersStart, AnswersKeep, PTL DEF RoutesSpec

-----------------------------------------------------------------------------
(***************************************************************************)
(* The services together.  A behaviour of Services is one of each service: *)
(* a step of one part leaves the others alone.  So whatever is proved of a *)
(* service holds of the behaviours in which they are explored together.    *)
(***************************************************************************)

\* What the part that is explored may do, and that the others rest.
LEMMA PartsMoveApart ==
  ASSUME [Next]_vars
  PROVE  /\ [RoutesNext]_routeVars /\ [AvailabilityNext]_availabilityVars /\ [ProfileNext]_profileVars
         /\ [RateNext]_rateVars /\ [PasteNext]_pasteVars /\ [ArtifactNext]_artifactVars
         /\ [LeaseNext]_leaseVars /\ [FairPriceNext]_fairPriceVars /\ [ComparisonNext]_comparisonMade
         /\ [CoverageNext]_coverage /\ [ReachNext]_reach /\ [TransitNext]_transit
         /\ [DriveNext]_drive /\ [CatalogueNext]_catalogue /\ [JudgeNext]_judgement
         /\ UNCHANGED component
<1>1. CASE UNCHANGED vars
  BY <1>1 DEF vars, fairPriceVars
<1>2. CASE Next
  BY <1>2 DEF Next, fairPriceVars
<1> QED
  BY <1>1, <1>2

\* A behaviour of Services is a behaviour of every service, for they share no
\* state: what one does changes nothing that another reads.
THEOREM PartsAreThemselves ==
  Spec => /\ RoutesSpec /\ AvailabilitySpec /\ ProfileSpec /\ RateSpec /\ PasteSpec /\ ArtifactSpec
          /\ LeaseSpec /\ FairPriceSpec /\ ComparisonSpec /\ CoverageSpec /\ ReachSpec /\ TransitSpec
          /\ DriveSpec /\ CatalogueSpec /\ JudgeSpec
<1>1. Init => /\ RoutesInit /\ AvailabilityInit /\ ProfileInit /\ RateInit /\ PasteInit /\ ArtifactInit
              /\ LeaseInit /\ FairPriceInit /\ ComparisonInit /\ CoverageInit /\ ReachInit /\ TransitInit
              /\ DriveInit /\ CatalogueInit /\ JudgeInit
  BY DEF Init
<1>2. [Next]_vars =>
         /\ [RoutesNext]_routeVars /\ [AvailabilityNext]_availabilityVars /\ [ProfileNext]_profileVars
         /\ [RateNext]_rateVars /\ [PasteNext]_pasteVars /\ [ArtifactNext]_artifactVars
         /\ [LeaseNext]_leaseVars /\ [FairPriceNext]_fairPriceVars /\ [ComparisonNext]_comparisonMade
         /\ [CoverageNext]_coverage /\ [ReachNext]_reach /\ [TransitNext]_transit
         /\ [DriveNext]_drive /\ [CatalogueNext]_catalogue /\ [JudgeNext]_judgement
  BY PartsMoveApart
<1> QED
  BY <1>1, <1>2, PTL DEF Spec, RoutesSpec, AvailabilitySpec, ProfileSpec, RateSpec, PasteSpec, ArtifactSpec,
     LeaseSpec, FairPriceSpec, ComparisonSpec, CoverageSpec, ReachSpec, TransitSpec, DriveSpec,
     CatalogueSpec, JudgeSpec

\* ServicesTypeOK: whichever part is explored, the variables of each keep their
\* types: the type theorems of the services, carried over.
THEOREM ServicesTypeCorrect == Spec => []ServicesTypeOK
<1>1. Init => component \in Components
  BY DEF Init
<1>2. component \in Components /\ [Next]_vars => (component \in Components)'
  BY PartsMoveApart
<1>3. /\ component \in Components
      /\ RoutesTypeOK /\ AvailabilityTypeOK /\ ProfileTypeOK /\ RateTypeOK /\ PasteTypeOK
      /\ ArtifactTypeOK /\ LeaseTypeOK /\ FairPriceTypeOK
      => ServicesTypeOK
  BY DEF ServicesTypeOK
<1> QED
  BY <1>1, <1>2, <1>3, PartsAreThemselves, RoutesTypeCorrect, AvailabilityTypeCorrect, ProfileTypeCorrect,
     RateTypeCorrect, PasteTypeCorrect, ArtifactTypeCorrect, LeaseTypeCorrect, ValuationsTyped, PTL DEF Spec

=============================================================================
