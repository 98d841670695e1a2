----------------------------- MODULE RailReach -----------------------------
(***************************************************************************)
(* networks/rail_graph.py and public_transport/mrt_reach.py: the stations  *)
(* that can be reached from the station at which a resident enters the     *)
(* rail network, each counted once, in bands of changes and minutes.  A    *)
(* node of the graph is one code of a station on one line; a graph is      *)
(* [edges, codes, active]: edges as [a, b, minutes, change], a sequence.   *)
(***************************************************************************)
EXTENDS Integers, Sequences, FiniteSets, FiniteSetsExt

CONSTANTS
  RailGraphs,   \* rail networks
  EntryLists,   \* sets of [station, primary, cost, minutes]: Access's rail entries
  NoRoute       \* shortest_path found nothing

\* Riding takes no negative time.
IsRailNetwork(graph) ==
  graph.edges \in Seq([a : Int, b : Int, minutes : Nat, change : BOOLEAN])

Ways == [minutes : Nat, changes : Nat]

ASSUME RailAssumption == (\A graph \in RailGraphs : IsRailNetwork(graph)) /\ NoRoute \notin Ways

VARIABLE reach  \* the last assessment

NoReach == [status |-> "not_assessed"]
NoReachYet == [of |-> <<>>, found |-> NoReach]

Short == 30
Long == 45
Infinite == 10000

NodesOf(graph) == UNION {{graph.edges[i].a, graph.edges[i].b} : i \in DOMAIN graph.edges}

\* The adjacency rows between two nodes, in the order they were appended.
Between(graph, x, y) ==
  {i \in DOMAIN graph.edges : {graph.edges[i].a, graph.edges[i].b} = {x, y}}

Cheapest(graph, rows) ==
  LET least == Min({graph.edges[i].minutes : i \in rows})
  IN Min({i \in rows : graph.edges[i].minutes = least})

\* heappop: the least (minutes, code); an entry that is no longer the best of
\* its node is met after the node was visited, and skipped.
NextNode(search) ==
  LET open == {n \in DOMAIN search.minutes : search.minutes[n] < Infinite} \ search.visited
      least == Min({search.minutes[n] : n \in open})
  IN Min({n \in open : search.minutes[n] = least})

\* The relaxation without the comparison: the first way to a node stays.
RelaxFirst(graph, search, node, n) == search.minutes[n] = Infinite

\* new_dist < distances.get(neighbor, inf)
Relax(graph, search, node, n) ==
  search.minutes[node] + graph.edges[Cheapest(graph, Between(graph, node, n))].minutes
    < search.minutes[n]

\* One turn of the loop: visit the nearest node, improve its neighbours.
Visit(graph, search) ==
  LET node == NextNode(search)
      better == {n \in DOMAIN search.minutes :
                   Between(graph, node, n) # {} /\ Relax(graph, search, node, n)}
      Row(n) == Cheapest(graph, Between(graph, node, n))
  IN [visited |-> search.visited \cup {node},
      minutes |-> [n \in DOMAIN search.minutes |->
                     IF n \in better THEN search.minutes[node] + graph.edges[Row(n)].minutes
                     ELSE search.minutes[n]],
      changes |-> [n \in DOMAIN search.minutes |->
                     IF n \in better
                     THEN search.changes[node] + (IF graph.edges[Row(n)].change THEN 1 ELSE 0)
                     ELSE search.changes[n]]]

Settled(search, target) ==
  \/ target \in search.visited
  \/ \A n \in DOMAIN search.minutes \ search.visited : search.minutes[n] = Infinite

\* shortest_path; the changes along the predecessors are summed on the way.
ShortestPath(graph, origin, target) ==
  LET nodes == NodesOf(graph)
      search[k \in 0..Cardinality(nodes)] ==
        IF k = 0
        THEN [visited |-> {}, changes |-> [n \in nodes |-> 0],
              minutes |-> [n \in nodes |-> IF n = origin THEN 0 ELSE Infinite]]
        ELSE LET before == search[k - 1]
             IN IF Settled(before, target) THEN before ELSE Visit(graph, before)
      last == search[Cardinality(nodes)]
  IN IF origin = target THEN [minutes |-> 0, changes |-> 0]
     ELSE IF {origin, target} \subseteq nodes /\ last.minutes[target] < Infinite
     THEN [minutes |-> last.minutes[target], changes |-> last.changes[target]]
     ELSE NoRoute

\* reachable_physical_stations: of all pairs of codes the path with the least
\* (minutes, changes), if it is within the limit.
PathsTo(graph, origins, station) ==
  {ShortestPath(graph, o, d) : o \in origins, d \in graph.codes[station]} \ {NoRoute}

BestPath(paths) ==
  CHOOSE p \in paths : \A q \in paths :
    p.minutes < q.minutes \/ (p.minutes = q.minutes /\ p.changes <= q.changes)

\* _access_entry_sort_key and the first entry that names an active station.
EntryBefore(e, f) ==
  \/ e.primary /\ ~f.primary
  \/ e.primary = f.primary /\ e.cost < f.cost
  \/ e.primary = f.primary /\ e.cost = f.cost /\ e.minutes < f.minutes
  \/ /\ e.primary = f.primary /\ e.cost = f.cost /\ e.minutes = f.minutes
     /\ e.station < f.station

Mapped(graph, entries) == {e \in entries : e.station \in graph.active}

EntryStation(graph, entries) ==
  (CHOOSE e \in Mapped(graph, entries) :
     \A f \in Mapped(graph, entries) \ {e} : ~EntryBefore(f, e)).station

\* The shares of 20, 45, 20 and 60 stations, weighted 35, 35, 10 and 20; tenths.
ReachScore(zero, one, multi, extended) ==
  (2 * (315 * Min({zero, 20}) + 140 * Min({one, 45}) + 90 * Min({multi, 20})
          + 60 * Min({extended, 60})) + 18) \div 36

\* The bands of the stations that have a best path, one station in one band.
Banded(station, best) ==
  LET short == {s \in DOMAIN best : best[s].minutes <= Short}
      zero == {s \in short : best[s].changes = 0}
      one == {s \in short : best[s].changes = 1}
  IN [status |-> "calculated", station |-> station, zero |-> zero, one |-> one,
      multi |-> short \ (zero \cup one), extended |-> DOMAIN best \ short,
      score |-> ReachScore(Cardinality(zero), Cardinality(one),
                           Cardinality(short \ (zero \cup one)),
                           Cardinality(DOMAIN best \ short))]

\* The best path to each station that some path reaches in time.
BestPaths(paths) ==
  [s \in {t \in DOMAIN paths : \E p \in paths[t] : p.minutes <= Long} |-> BestPath(paths[s])]

PathsFrom(graph, station) ==
  [s \in graph.active |-> PathsTo(graph, graph.codes[station], s)]

\* compute_mrt_reach: every active station once, by its best path.
ReachFrom(graph, entries) ==
  IF graph.edges = <<>> \/ Mapped(graph, entries) = {} THEN NoReach
  ELSE LET station == EntryStation(graph, entries)
       IN Banded(station, BestPaths(PathsFrom(graph, station)))

ReachInit == reach = NoReachYet

AssessReach(graph, entries) ==
  reach' = [of |-> <<graph, entries>>, found |-> ReachFrom(graph, entries)]

ReachNext ==
  /\ reach = NoReachYet
  /\ \E graph \in RailGraphs, entries \in EntryLists : AssessReach(graph, entries)

ReachSpec == ReachInit /\ [][ReachNext]_reach

-----------------------------------------------------------------------------

\* Minutes of the rides from a code that use each node at most once, with at
\* most the given number of edges: what a passenger could do.
RideTimes(graph, origin) ==
  LET Extend(rides) ==
        rides \cup
        {[end |-> x[2], minutes |-> x[1].minutes + graph.edges[x[3]].minutes,
          changes |-> x[1].changes + (IF graph.edges[x[3]].change THEN 1 ELSE 0)] :
           x \in {y \in rides \X NodesOf(graph) \X DOMAIN graph.edges :
                   /\ {graph.edges[y[3]].a, graph.edges[y[3]].b} = {y[1].end, y[2]}
                   /\ y[1].minutes + graph.edges[y[3]].minutes <= Long}}
      rides[k \in 0..Cardinality(NodesOf(graph))] ==
        IF k = 0 THEN {[end |-> origin, minutes |-> 0, changes |-> 0]}
        ELSE LET before == rides[k - 1] IN Extend(before)
  IN rides[Cardinality(NodesOf(graph))]

\* Whatever order the search meets the nodes in, and however many codes a
\* station has: each active station is in exactly one band, it is in a band
\* exactly when some ride takes that long, the extended band holds only those
\* that no ride of half an hour reaches, and a station is said to need no
\* change only when some ride within the half hour needs none.
EveryStationOnce ==
  reach.found.status = "calculated" =>
    LET graph == reach.of[1]
        found == reach.found
        rides == UNION {RideTimes(graph, o) : o \in graph.codes[found.station]}
        To(s) == {r \in rides : r.end \in graph.codes[s]}
        near == found.zero \cup found.one \cup found.multi
    IN \A s \in graph.active :
         /\ s \in near <=> \E r \in To(s) : r.minutes <= Short
         /\ s \in found.extended <=> s \notin near /\ To(s) # {}
         /\ Cardinality({b \in {"zero", "one", "multi", "extended"} : s \in found[b]}) <= 1
         /\ s \in found.zero => \E r \in To(s) : r.minutes <= Short /\ r.changes = 0

=============================================================================
