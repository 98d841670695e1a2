------------------------------ MODULE Driving ------------------------------
(***************************************************************************)
(* engines/driving: the driving model of one flat.  The entries onto major *)
(* roads near it are routed in a summary, the quickest few in detail, and  *)
(* of those that show sustained travel on the road the quickest is chosen; *)
(* the alternatives to each road, the same drive off-peak and the walks to *)
(* car parks follow.  Any routed call may fail on its own.  Minutes are    *)
(* whole, scores in tenths; ids number entries and car parks in the order  *)
(* that decides between equal durations.                                   *)
(***************************************************************************)
EXTENDS TransportRollup, FiniteSets, Functions

CONSTANTS
  Entrances,         \* sets of [id, road]: the catalogue's entries near a flat
  SummaryMinutes,    \* durations of a routed summary
  DetailAnswers,     \* [minutes, sustained] of a detailed route, metres on the road
  Alternatives,      \* sets of [id, overlap, penalty]: percent, minutes
  OffPeakMinutes,    \* durations of the drive at night
  Parkings,          \* sets of [id, shelter, restrictions, lots, typical]
  ParkingWalks,      \* minutes of a walk to a car park
  MaxSummaries,      \* max_major_road_route_candidates
  MaxDetails,        \* major_road_full_polyline_candidate_limit
  DriveCallFailed,   \* the outcome of a routed call that failed
  Unrecorded         \* what a car park's record or the live feed does not say

\* The ids decide between equal durations; the scores of a car park are the
\* functions of its record in parking_convenience.py.
Numbered(things) ==
  /\ IsFiniteSet(things)
  /\ \A t \in things : t.id \in Int
  /\ \A t, u \in things : t.id = u.id => t = u

ASSUME DrivingAssumption ==
  /\ \A entries \in Entrances : Numbered(entries)
  /\ SummaryMinutes \subseteq Int
  /\ DetailAnswers \subseteq [minutes : Int, sustained : Int]
  /\ \A answer \in Alternatives : IsFiniteSet(answer.others)
  /\ OffPeakMinutes \subseteq Int
  /\ \A carparks \in Parkings :
       /\ Numbered(carparks)
       /\ \A c \in carparks :
            /\ c.shelter \in 0..1000
            /\ c.restrictions = Unrecorded \/ c.restrictions \in 0..1000
            /\ c.lots = Unrecorded \/ c.lots \in Nat
            /\ c.typical = Unrecorded \/ c.typical \in 0..1000
  /\ ParkingWalks \subseteq Int
  /\ MaxSummaries \in Nat /\ MaxDetails \in Nat

VARIABLE drive   \* the model being computed

NotDriven == [stage |-> "none"]
MaxDestinations == 3
SustainedMetres == 60
NotPracticalPenalty == 15
PracticalWalk == 12

Before(minutes, e, f) ==
  minutes[e] < minutes[f] \/ (minutes[e] = minutes[f] /\ e.id <= f.id)

\* The n first of a set of entries ordered by their durations.
Quickest(entries, minutes, n) ==
  {e \in entries : Cardinality({f \in entries : Before(minutes, f, e)}) <= n}

Routed(outcomes) == {e \in DOMAIN outcomes : outcomes[e] # DriveCallFailed}

\* The entries that are routed in detail.
Detailed(summaries) ==
  Quickest(Routed(summaries), [e \in Routed(summaries) |-> summaries[e]], MaxDetails)

\* validate_sustained_major_road_entry: more than a crossing of the road.
Validated(details) ==
  {e \in Routed(details) : details[e].sustained >= SustainedMetres}

\* The order of the summaries kept, although the detailed durations differ.
SelectedBySummary(summaries, details) ==
  CHOOSE e \in Validated(details) : \A f \in Validated(details) : Before(summaries, e, f)

\* validated.sort: the quickest by its detailed duration.
Selected(summaries, details) ==
  LET minutes == [e \in Validated(details) |-> details[e].minutes]
  IN CHOOSE e \in Validated(details) : \A f \in Validated(details) : Before(minutes, e, f)

AccessMinuteBands == {<<4, 950>>, <<7, 850>>, <<10, 720>>, <<15, 580>>, <<22, 420>>}
PenaltyBands == {<<2, 950>>, <<5, 850>>, <<10, 700>>, <<15, 550>>, <<25, 400>>}
WalkBands == {<<2, 1000>>, <<4, 850>>, <<6, 700>>, <<8, 500>>}

\* compute_major_road_access: calls that failed are dropped, so an outage
\* leaves the component not assessed and says no provider failed.
RoadAccess(summaries, details) ==
  IF Validated(details) = {} THEN NotAssessed("major_road_access", 30)
  ELSE Calculated("major_road_access", 30,
         BandScore(AccessMinuteBands, 250, details[Selected(summaries, details)].minutes))

\* The first validated entry of each road, three roads at most.
Destinations(details) ==
  LET minutes == [e \in Validated(details) |-> details[e].minutes]
      firsts == {e \in Validated(details) :
                   \A f \in Validated(details) : f.road = e.road => Before(minutes, e, f)}
  IN Quickest(firsts, minutes, MaxDestinations)

\* classify_alternative
Independent(alternatives) ==
  {a \in alternatives : a.penalty <= NotPracticalPenalty /\ a.overlap <= 30}
PartlyIndependent(alternatives) ==
  {a \in alternatives : a.penalty <= NotPracticalPenalty /\ a.overlap > 30 /\ a.overlap <= 70}

\* compute_route_connectivity; an answer without a route reaches nothing.
Connectivity(details, answers) ==
  LET reached == {e \in Routed(answers) : answers[e].routes}
      Count(Kind(_)) == Cardinality(UNION {{e} \X Kind(answers[e].others) : e \in reached})
  IN IF Destinations(details) = {} THEN NotAssessed("route_connectivity", 25)
     ELSE IF reached # {}
     THEN Calculated("route_connectivity", 25,
            Min({950, 500 + 120 * Min({3, Cardinality(reached)})
                      + 60 * Min({4, Count(Independent)}) + 30 * Min({4, Count(PartlyIndependent)})}))
     ELSE IF Routed(answers) = DOMAIN answers THEN NotAssessed("route_connectivity", 25)
     ELSE ProviderError("route_connectivity", 25)

\* compute_peak_access_penalty: the selected entry again, at night.
PeakPenalty(summaries, details, night) ==
  IF Validated(details) = {} THEN NotAssessed("peak_access_penalty", 25)
  ELSE IF night = DriveCallFailed THEN ProviderError("peak_access_penalty", 25)
  ELSE Calculated("peak_access_penalty", 25,
         BandScore(PenaltyBands, 250,
                   Max({0, details[Selected(summaries, details)].minutes - night})))

CapacityScore(lots) == 400 + Nearest(6 * Min({lots, 500}), 5)

\* The parts of the parking score, the walk first, each with its weight; one
\* that is not known weighs nothing.  Every further car park in walking
\* distance adds to the walk's own part.
ParkingParts(carpark, minutes, practical, live) ==
  LET Recorded(weight, score) ==
        IF score = Unrecorded THEN [weight |-> 0, score |-> 0]
        ELSE [weight |-> weight, score |-> score]
      capacity == IF live /\ carpark.lots \notin {Unrecorded, 0} THEN CapacityScore(carpark.lots)
                  ELSE Unrecorded
  IN <<[weight |-> 35,
        score |-> BandScore(WalkBands, 250, minutes) + Min({100, 20 * (practical - 1)})],
       Recorded(20, carpark.shelter), Recorded(10, carpark.restrictions),
       Recorded(15, capacity), Recorded(20, carpark.typical)>>

Sum5(f) == f[1] + f[2] + f[3] + f[4] + f[5]

\* compute_parking_convenience; live says whether the availability feed
\* answered.
Parking(walks, live) ==
  LET practical == {c \in Routed(walks) : walks[c] <= PracticalWalk}
      primary == CHOOSE c \in practical : \A d \in practical : Before(walks, c, d)
      parts == ParkingParts(primary, walks[primary], Cardinality(practical), live)
  IN IF DOMAIN walks = {} \/ (practical = {} /\ Routed(walks) # {})
     THEN NotAssessed("parking_convenience", 20)
     ELSE IF practical = {} THEN ProviderError("parking_convenience", 20)
     ELSE Calculated("parking_convenience", 20,
            Nearest(Sum5([i \in 1..5 |-> parts[i].weight * parts[i].score]),
                    Sum5([i \in 1..5 |-> parts[i].weight])))

DriveInit == drive = NotDriven

RouteSummaries(summaries) ==
  /\ drive.stage = "none"
  /\ drive' = [stage |-> "summarised", summaries |-> summaries]

RouteDetails(details) ==
  /\ drive.stage = "summarised"
  /\ drive' = [stage |-> "detailed", summaries |-> drive.summaries, details |-> details]

\* Nothing more is asked when no entry was validated.
RouteAlternatives(answers, night) ==
  /\ drive.stage = "detailed"
  /\ Validated(drive.details) = {} => night = DriveCallFailed
  /\ drive' = [stage |-> "connected", summaries |-> drive.summaries, details |-> drive.details,
               parts |-> <<RoadAccess(drive.summaries, drive.details),
                           Connectivity(drive.details, answers),
                           PeakPenalty(drive.summaries, drive.details, night)>>]

\* compute_driving_model: parking last, then the rollup.
RouteParking(walks, live) ==
  /\ drive.stage = "connected"
  /\ drive' = [stage |-> "scored", summaries |-> drive.summaries, details |-> drive.details,
               model |-> Rollup(<<drive.parts[1], drive.parts[2], drive.parts[3],
                                  Parking(walks, live)>>)]

DriveNext ==
  \/ \E entries \in Entrances :
       \E summaries \in [Quickest(entries, [e \in entries |-> 0], MaxSummaries)
                         -> SummaryMinutes \cup {DriveCallFailed}] : RouteSummaries(summaries)
  \/ /\ drive.stage = "summarised"
     /\ \E details \in [Detailed(drive.summaries) -> DetailAnswers \cup {DriveCallFailed}] :
          RouteDetails(details)
  \/ /\ drive.stage = "detailed"
     /\ \E answers \in [Destinations(drive.details) -> Alternatives \cup {DriveCallFailed}],
           night \in OffPeakMinutes \cup {DriveCallFailed} : RouteAlternatives(answers, night)
  \/ /\ drive.stage = "connected"
     /\ \E carparks \in Parkings : \E walks \in [carparks -> ParkingWalks \cup {DriveCallFailed}],
           live \in BOOLEAN : RouteParking(walks, live)

DriveSpec == DriveInit /\ [][DriveNext]_drive

-----------------------------------------------------------------------------

\* The parking component alone may exceed 100 and a rollup renormalises what
\* is missing; yet a driving score that the recommendation may read lies in
\* 0..100 and rests on an entry whose detailed route stays on the major road,
\* no slower than any other that does, at most MaxDetails routes having been
\* asked for; and a routing outage alone never makes one.
DrivingScoreHasEvidence ==
  drive.stage = "scored" =>
    LET details == drive.details
        overall == drive.model.overall
        road == drive.model.components[1]
    IN /\ Cardinality(DOMAIN details) <= MaxDetails
       /\ overall # NoScore =>
            /\ overall \in 0..1000
            /\ \E e \in DOMAIN details :
                 /\ details[e] # DriveCallFailed /\ details[e].sustained >= SustainedMetres
                 /\ road.score = BandScore(AccessMinuteBands, 250, details[e].minutes)
                 /\ \A f \in DOMAIN details :
                      details[f] # DriveCallFailed /\ details[f].sustained >= SustainedMetres
                        => details[e].minutes <= details[f].minutes

=============================================================================
