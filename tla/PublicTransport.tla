-------------------------- MODULE PublicTransport --------------------------
(***************************************************************************)
(* engines/public_transport: the public-transport model of one flat.       *)
(* Access routes a walk to every stop and station near the flat, then a    *)
(* feeder journey from each usable stop to each station; bus coverage,     *)
(* MRT reach and resilience are computed from what Access confirmed, and   *)
(* the rollup decides whether the score may be used.  Any routed call may  *)
(* fail on its own.  Minutes and costs are in tenths of a minute.          *)
(***************************************************************************)
EXTENDS BusCorridors, RailReach, TransportRollup, Functions

CONSTANTS
  Places,          \* [stops, stations, network, graph, lines]: the surroundings
  WalkAnswers,     \* [minutes, metres] a walking route may have
  FeederAnswers,   \* [services, transfers, ride, walk] a transit route may have
  MaxFeederPairs,  \* max_feeder_route_pairs
  CallFailed       \* the outcome of a routed call that failed

ASSUME TransitAssumption ==
  /\ \A place \in Places :
       /\ place.stops \in Seq(Int) /\ place.stations \in Seq(Int)
       /\ IsNetwork(place.network)
       \* only active stations are looked for (nearby_station_codes)
       /\ Range(place.stations) \subseteq place.graph.active
       /\ IsFiniteSet(place.graph.active)
  /\ WalkAnswers \subseteq [minutes : Nat, metres : Nat]
  /\ \A a \in FeederAnswers : a.transfers \in Nat /\ a.ride \in Nat /\ a.walk \in Nat
  /\ MaxFeederPairs \in Nat

VARIABLE transit   \* the model being computed

NotStarted == [stage |-> "none"]

StopWalk == 100      \* max_bus_stop_access_walk_minutes
StationWalk == 200   \* max_practical_walk_minutes
Entry == 20          \* station_entry_minutes
ChangePenalty == 60  \* pre_rail_transfer_penalty_minutes
TieMargin == 20      \* access_station_tie_margin_generalised_minutes

\* _frequency_for_corridors: the corridors of one stop alone that come often
\* enough, each with half of its scheduled interval as the wait.
WaitFor(network, corridor) ==
  LET inFiveHours == Cardinality(Departures(network, {o.service : o \in corridor}))
  IN Min({100, Nearest(1500, inFiveHours)})

UsableAt(place, stop) ==
  IF ~place.network.sound THEN {}
  ELSE {[services |-> {o.service : o \in c}, wait |-> WaitFor(place.network, c)] :
          c \in {c \in Corridors(DirectOptions(place.network, {stop})) :
                   Frequent(place.network, c)}}

Targets(place) == Range(place.stops) \cup Range(place.stations)

WalkedStops(place, walks) ==
  {s \in Range(place.stops) : walks[s] # CallFailed /\ walks[s].minutes <= StopWalk}

BusEntries(place, walks) ==
  UNION {{[kind |-> "bus", total |-> walks[s].minutes + c.wait,
           cost |-> Nearest(125 * walks[s].minutes + 150 * c.wait, 100)] :
            c \in UsableAt(place, s)} : s \in WalkedStops(place, walks)}

WalkedRail(place, walks) ==
  {[kind |-> "walk", station |-> s, total |-> walks[s].minutes + Entry,
    cost |-> Nearest(125 * walks[s].minutes + 100 * Entry, 100)] :
     s \in {t \in Range(place.stations) : walks[t] # CallFailed /\ walks[t].minutes <= StationWalk}}

\* The feeder journeys that are asked for: stop by stop, nearest first.
FeederPairs(place, walks) ==
  LET usable == {i \in DOMAIN place.stops : /\ place.stops[i] \in WalkedStops(place, walks)
                                           /\ UsableAt(place, place.stops[i]) # {}}
      Usable(m) == CHOOSE i \in usable : Cardinality({j \in usable : j <= i}) = m
      n == Len(place.stations)
  IN [k \in 1..Min({MaxFeederPairs, Cardinality(usable) * n}) |->
        <<place.stops[Usable((k - 1) \div n + 1)], place.stations[1 + ((k - 1) % n)]>>]

\* _feeder_entry: at most one change, on a corridor that was confirmed at the
\* boarding stop; a route without a ride is no feeder journey.
FeederEntry(place, walks, pair, answer) ==
  LET matching == {c \in UsableAt(place, pair[1]) : c.services \cap answer.services # {}}
      corridor == CHOOSE c \in matching : \A d \in matching : c.wait <= d.wait
      total == walks[pair[1]].minutes + corridor.wait + answer.ride + answer.walk + Entry
  IN IF answer.services = {} \/ matching = {} \/ answer.transfers > 1 THEN {}
     ELSE {[kind |-> "feeder", station |-> pair[2], total |-> total,
            cost |-> Nearest(125 * walks[pair[1]].minutes + 150 * corridor.wait, 100)
                       + answer.ride + answer.walk + Entry + answer.transfers * ChangePenalty]}

FeederEntries(place, walks, feeders) ==
  UNION {IF feeders[k] = CallFailed THEN {}
         ELSE FeederEntry(place, walks, FeederPairs(place, walks)[k], feeders[k]) :
           k \in DOMAIN feeders}

\* The rail entry that starts MRT reach: the quickest of those whose cost is
\* within the margin of the least.
PrimaryRail(rail) ==
  LET least == Min({e.cost : e \in rail})
      close == {e \in rail : e.cost <= least + TieMargin}
  IN CHOOSE e \in close : \A f \in close :
       e.total < f.total \/ (e.total = f.total /\ e.cost <= f.cost)

AccessBands == {<<40, 950>>, <<70, 880>>, <<100, 800>>, <<150, 680>>, <<200, 550>>, <<300, 380>>}

AllFailed(outcomes) == outcomes # {} /\ outcomes = {CallFailed}

AccessResult(bus, rail, walked, result) ==
  [bus |-> bus, rail |-> rail, walked |-> walked, result |-> result]

\* compute_access, after its calls.  With no path the stops that were walked
\* to are left out of the value, so bus coverage has none either.
AccessBy(outcomes, bus, rail, walked) ==
  IF AllFailed(outcomes) THEN AccessResult({}, {}, {}, ProviderError("access", 30))
  ELSE IF bus \cup rail = {}
  THEN AccessResult({}, {}, {}, Calculated("access", 30, 200))
  ELSE AccessResult(bus, rail, walked,
                    Calculated("access", 30,
                               BandScore(AccessBands, 200, Min({e.cost : e \in bus \cup rail}))))

AccessFrom(place, walks, feeders) ==
  AccessBy(Range(walks) \cup Range(feeders), BusEntries(place, walks),
           WalkedRail(place, walks) \cup FeederEntries(place, walks, feeders),
           WalkedStops(place, walks))

CoverageOf(place, walks, access) ==
  Covered(place.network, {[stop |-> s, metres |-> walks[s].metres] : s \in access.walked})

ReachOf(place, access) ==
  ReachFrom(place.graph,
            {[station |-> e.station, primary |-> e = PrimaryRail(access.rail),
              cost |-> e.cost, minutes |-> e.total] : e \in access.rail})

\* compute_route_resilience: another mode, another station, another line, and
\* up to two bus corridors; it is scored whatever became of Access.
FallbackUnits(place, access, covered) ==
  LET primary == PrimaryRail(access.rail).station
      others == {e.station : e \in access.rail} \ {primary}
      lines == (UNION {place.lines[s] : s \in others}) \ place.lines[primary]
      rail == IF access.rail = {} THEN 0
              ELSE Cardinality({k \in 1..3 : <<access.bus # {}, others # {}, lines # {}>>[k]})
  IN rail + (IF covered.status = "calculated" THEN Min({2, Cardinality(covered.direct)}) ELSE 0)

ResilienceScore(units) == IF units = 0 THEN 150 ELSE Min({1000, 200 + 160 * units})

Part(name, weight, found) ==
  IF found.status = "calculated" THEN Calculated(name, weight, found.score)
  ELSE NotAssessed(name, weight)

\* compute_public_transport_model
ModelWith(place, access, covered) ==
  Rollup(<<access.result,
           Part("bus_coverage", 25, covered),
           Part("mrt_reach", 30, ReachOf(place, access)),
           Calculated("route_resilience", 15,
                      ResilienceScore(FallbackUnits(place, access, covered)))>>)

ModelFrom(place, walks, access) == ModelWith(place, access, CoverageOf(place, walks, access))

TransitModel(place, walks, feeders) ==
  ModelFrom(place, walks, AccessFrom(place, walks, feeders))

TransitInit == transit = NotStarted

RouteWalks(place, walks) ==
  /\ transit = NotStarted
  /\ transit' = [stage |-> "walked", place |-> place, walks |-> walks]

RouteFeeders(feeders) ==
  /\ transit.stage = "walked"
  /\ transit' = [stage |-> "scored", place |-> transit.place, walks |-> transit.walks,
                 feeders |-> feeders,
                 model |-> TransitModel(transit.place, transit.walks, feeders)]

TransitNext ==
  \/ \E place \in Places : \E walks \in [Targets(place) -> WalkAnswers \cup {CallFailed}] :
       RouteWalks(place, walks)
  \/ /\ transit.stage = "walked"
     /\ \E feeders \in [DOMAIN FeederPairs(transit.place, transit.walks)
                           -> FeederAnswers \cup {CallFailed}] : RouteFeeders(feeders)

TransitSpec == TransitInit /\ [][TransitNext]_transit

-----------------------------------------------------------------------------

\* Reach starts at a station that Access confirmed, at most the margin dearer
\* than the cheapest, and no slower than those it was preferred to.
StartsNear(access, found) ==
  found.status = "calculated" =>
    \E e \in access.rail :
      /\ e.station = found.station
      /\ \A f \in access.rail : e.cost <= f.cost + TieMargin /\ (f.cost <= e.cost => e.total <= f.total)

EntersTheNetwork(place, access) ==
  /\ transit.model.overall # NoScore => access.rail # {} \/ access.bus # {}
  /\ StartsNear(access, ReachOf(place, access))

\* Resilience always has a score, a flat with no access has one too, and a
\* rollup renormalises what is missing; yet a score that the recommendation
\* may read rests on a stop or a station that an answered call reached on
\* foot in time, so that an outage of the routing service never makes one.
\* Access, the coverage it feeds and MRT reach agree on where the flat
\* enters the network: reach starts at a station that Access confirmed and
\* that costs at most the margin more than the cheapest one.
TransitScoreHasEvidence ==
  transit.stage = "scored" =>
    LET place == transit.place
        walks == transit.walks
        InTime(t) ==
          /\ walks[t] # CallFailed
          /\ walks[t].minutes <= IF t \in Range(place.stations) THEN StationWalk ELSE StopWalk
    IN /\ transit.model.overall # NoScore =>
            /\ transit.model.overall \in 0..1000
            /\ \E t \in Targets(place) : InTime(t)
       /\ EntersTheNetwork(place, AccessFrom(place, walks, transit.feeders))

=============================================================================
