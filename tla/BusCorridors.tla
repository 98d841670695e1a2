---------------------------- MODULE BusCorridors ----------------------------
(***************************************************************************)
(* networks/bus_network.py and public_transport/bus_coverage.py: the bus   *)
(* services that can be boarded at the stops near a flat, grouped into     *)
(* corridors by how much of the road ahead they share, the corridors that  *)
(* one change at a later stop adds, and the coverage score of both.        *)
(* A bus network is [sound, route, interval]: whether its data is usable,  *)
(* the stop sequence of every service direction, and its scheduled         *)
(* interval (minutes, a divisor of 300).                                   *)
(***************************************************************************)
EXTENDS Integers, Sequences, FiniteSets, FiniteSetsExt

CONSTANTS
  BusNetworks,   \* networks a flat may be assessed against
  Surroundings,  \* sets of [stop, metres]: the stops Access routed a walk to
  NoTimetable    \* no frequency of the assessed period

\* A route is a sequence of stops, and an interval goes into 300.
IsNetwork(network) ==
  /\ IsFiniteSet(DOMAIN network.route)
  /\ \A s \in DOMAIN network.route :
       /\ network.route[s] \in Seq(Int)
       /\ network.interval[s] = NoTimetable \/ network.interval[s] \in 1..300

ASSUME NetworksAssumption == \A network \in BusNetworks : IsNetwork(network)

VARIABLE coverage   \* the last assessment

NotCovered == [status |-> "not_assessed"]
NothingAssessed == [at |-> <<>>, found |-> NotCovered]

\* A boarding choice: the service, the stop and the stops from there on.  A
\* stop served twice is boarded at its first visit (downstream_option).
BoardAt(network, service, stop) ==
  LET stops == network.route[service]
      first == Min({i \in DOMAIN stops : stops[i] = stop})
  IN [service |-> service, stop |-> stop, ahead |-> SubSeq(stops, first, Len(stops))]

ServicesAt(network, stop) ==
  {s \in DOMAIN network.route : \E i \in DOMAIN network.route[s] : network.route[s][i] = stop}

DirectOptions(network, stops) ==
  UNION {{BoardAt(network, s, stop) : s \in ServicesAt(network, stop)} : stop \in stops}

\* _same_stop_transfer_options: never at the stop where the bus was boarded.
TransferOptions(network, direct) ==
  UNION {UNION {{BoardAt(network, s, option.ahead[i]) : s \in ServicesAt(network, option.ahead[i])}
                  : i \in 2..Len(option.ahead)} : option \in direct}

\* Hunt-Szymanski with the positions of one stop taken in ascending order.
AscendingIndex(k, n) == 1 + ((k - 1) % n)

\* The position in the right sequence that step k looks at, and its stop in
\* the left one: positions descend, so that a stop never extends its own match.
RightIndex(k, n) == n - ((k - 1) % n)
LeftIndex(k, n) == (k - 1) \div n + 1

\* bisect_left and the assignment to its slot, or the append after the last.
PlaceTail(tails, index) ==
  LET slot == 1 + Cardinality({t \in DOMAIN tails : tails[t] < index})
  IN [t \in 1..Max({slot, Len(tails)}) |-> IF t = slot THEN index ELSE tails[t]]

SharedStops(left, right) ==
  LET n == Len(right)
      tails[k \in 0..(Len(left) * n)] ==
        IF k = 0 THEN <<>>
        ELSE LET before == tails[k - 1]
             IN IF left[LeftIndex(k, n)] = right[RightIndex(k, n)]
                THEN PlaceTail(before, RightIndex(k, n))
                ELSE before
  IN Len(tails[Len(left) * n])

StopsOf(option) == {option.ahead[i] : i \in DOMAIN option.ahead}
VisitsOnce(option) == Cardinality(StopsOf(option)) = Len(option.ahead)
ShorterRide(a, b) == Min({Len(a.ahead), Len(b.ahead)})

\* _OverlapChecker.meets, with its prefilter on the stops in common.
Overlaps(a, b) ==
  /\ VisitsOnce(a) \/ VisitsOnce(b) =>
       10 * Cardinality(StopsOf(a) \cap StopsOf(b)) >= 7 * ShorterRide(a, b)
  /\ 10 * SharedStops(a.ahead, b.ahead) >= 7 * ShorterRide(a, b)

\* _group_options: only options with a stop in common are compared, and a
\* pair that overlaps joins the groups it is in: the groups of the union-find
\* are what no set that keeps such pairs together can separate.
Corridors(options) ==
  LET joined == {p \in options \X options :
                   /\ p[1] # p[2] /\ StopsOf(p[1]) \cap StopsOf(p[2]) # {}
                   /\ Overlaps(p[1], p[2])}
      whole == {g \in SUBSET options : \A p \in joined : p[1] \in g <=> p[2] \in g}
  IN {{b \in options : \A g \in whole : a \in g => b \in g} : a \in options}

\* What a change adds: options that repeat a direct one go before grouping.
NovelTransfers(network, direct) ==
  {t \in TransferOptions(network, direct) : \A d \in direct : ~Overlaps(t, d)}

\* The departures that the services offer in five hours.
Departures(network, services) ==
  UNION {{s} \X (1..(300 \div network.interval[s])) :
           s \in {t \in services : network.interval[t] # NoTimetable}}

\* _corridor_usable: at one boarding stop the services of the corridor, taken
\* together, come at least every 15 minutes.
Frequent(network, corridor) ==
  \E stop \in {o.stop : o \in corridor} :
    Cardinality(Departures(network, {o.service : o \in {c \in corridor : c.stop = stop}})) >= 20

DirectBand(count) ==
  CASE count = 0 -> 0 [] count = 1 -> 45 [] count = 2 -> 60
    [] count \in 3..4 -> 72 [] count \in 5..7 -> 85 [] OTHER -> 95

TransferBand(count) ==
  CASE count = 0 -> 30 [] count \in 1..2 -> 45 [] count \in 3..5 -> 62
    [] count \in 6..11 -> 78 [] OTHER -> 90

\* compute_bus_coverage; the score in tenths.
Covered(network, surroundings) ==
  LET stops == {near.stop : near \in {w \in surroundings : w.metres <= 400}}
      boarded == DirectOptions(network, stops)
      changes == NovelTransfers(network, boarded)
      direct == {c \in Corridors(boarded) : Frequent(network, c)}
      transfer == {c \in Corridors(changes) : Frequent(network, c)}
  IN IF ~network.sound \/ stops = {} \/ direct = {} THEN NotCovered
     ELSE [status |-> "calculated", direct |-> direct, transfer |-> transfer,
           score |-> 7 * DirectBand(Cardinality(direct)) + 3 * TransferBand(Cardinality(transfer))]

CoverageInit == coverage = NothingAssessed

AssessCoverage(network, surroundings) ==
  coverage' = [at |-> <<network, surroundings>>, found |-> Covered(network, surroundings)]

CoverageNext ==
  /\ coverage = NothingAssessed
  /\ \E network \in BusNetworks, surroundings \in Surroundings :
       AssessCoverage(network, surroundings)

CoverageSpec == CoverageInit /\ [][CoverageNext]_coverage

-----------------------------------------------------------------------------

\* A common subsequence is a set of matching positions that advance together.
CommonLength(left, right) ==
  LET matches == {p \in (1..Len(left)) \X (1..Len(right)) : left[p[1]] = right[p[2]]}
      Advancing(chain) ==
        \A p, q \in chain : p = q \/ (p[1] < q[1] /\ p[2] < q[2]) \/ (q[1] < p[1] /\ q[2] < p[2])
  IN Max({Cardinality(chain) : chain \in {c \in SUBSET matches : Advancing(c)}})

SameRoad(a, b) == 10 * CommonLength(a.ahead, b.ahead) >= 7 * ShorterRide(a, b)

\* Loop services visit a stop twice, the comparison skips pairs by their stop
\* sets and keeps only the ends of partial matches: even so the corridors that
\* are counted are those of the plain comparison.  No two of them share most
\* of the road, no corridor falls into unrelated halves, and no corridor that
\* a change adds repeats a service that can be boarded at once.
CorridorsAreDistinctRoads ==
  coverage.found.status = "calculated" =>
    LET boarded == UNION coverage.found.direct
        added == UNION coverage.found.transfer
        Apart(corridors) ==
          \A c, d \in corridors : c # d => \A a \in c, b \in d : ~SameRoad(a, b)
        InOnePiece(c) ==
          \A half \in (SUBSET c) \ {{}, c} : \E a \in half, b \in c \ half : SameRoad(a, b)
    IN /\ Apart(coverage.found.direct) /\ Apart(coverage.found.transfer)
       /\ \A c \in coverage.found.direct \cup coverage.found.transfer : InOnePiece(c)
       /\ \A t \in added, d \in boarded : ~SameRoad(t, d)

=============================================================================
