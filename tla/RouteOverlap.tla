---------------------------- MODULE RouteOverlap ----------------------------
(***************************************************************************)
(* networks/route_overlap.py: how much of the road two drives share.  A    *)
(* drive's polyline is matched onto the directed edges of the drive graph  *)
(* as a whole, by dynamic programming; the shares of two matches give the  *)
(* overlap, and the polylines alone, road names or distances when a match  *)
(* is missing or poor.  Costs are in 36ths of a metre, shares in           *)
(* thousandths.                                                            *)
(***************************************************************************)
EXTENDS Integers, FiniteSets, FiniteSetsExt, SequencesExt, Functions

CONSTANTS
  DriveGraph,     \* edges [id, from, to, metres] of the persisted graph
  DrivePairs,     \* [primary, alternative]: two drives to one destination
  FollowHops,     \* max_hops of can_follow
  MaxCandidates   \* OSM_MATCH_MAX_CANDIDATES_PER_SEGMENT

\* No two edges of the graph have the same identifier.
IsDriveGraph(edges) ==
  /\ \A e \in edges : e.id \in Nat \ {0} /\ e.metres \in Nat
  /\ \A e, f \in edges : e.id = f.id => e = f

\* A segment has a length, the shorter ones are left out, and some edges near.
IsSegment(segment) ==
  /\ segment.metres \in Nat \ {0} /\ IsFiniteSet(segment.near)
  /\ \A n \in segment.near : n.edge \in DriveGraph /\ n.metres \in Nat /\ n.turn \in Nat

IsDrive(drive) ==
  /\ drive.segments \in Seq(Range(drive.segments))
  /\ \A segment \in Range(drive.segments) : IsSegment(segment)
  /\ IsFiniteSet(drive.names) /\ drive.metres \in Nat

ASSUME MatchIsBounded == MaxCandidates \in Nat
ASSUME GraphOfEdges == IsDriveGraph(DriveGraph)
ASSUME PairsOfDrives == \A pair \in DrivePairs : IsDrive(pair.primary) /\ IsDrive(pair.alternative)

VARIABLE judgement   \* what is known of the pair that is compared

NotJudged == [stage |-> "none"]
OffRoad == [id |-> 0]     \* the option to leave a segment unmatched
MatchRadius == 35
MaxTurn == 70
UnmatchedCost == 36 * 100
DisconnectedCost == 36 * 110
ConnectedGapCost == 36 * 12
AmbiguityCost == 36 * 6

(* LocalDriveGraph                                                         *)

NodesWithin(node, hops) ==
  LET within[h \in 0..hops] ==
        IF h = 0 THEN {node}
        ELSE within[h - 1] \cup {e.to : e \in {f \in DriveGraph : f.from \in within[h - 1]}}
  IN within[hops]

\* can_follow: one edge after another, or after at most FollowHops more.
CanFollow(e, f) ==
  \/ e = f \/ e.to = f.from
  \/ \E g \in DriveGraph : g.to = f.from /\ g.from \in NodesWithin(e.to, FollowHops - 1)

(* map_match_route                                                         *)

\* _edge_candidates: the cheapest edges that are near and lead the same way.
EdgeCandidates(segment) ==
  LET Cheaper(n, o) == n.cost < o.cost \/ (n.cost = o.cost /\ n.edge.id < o.edge.id)
      usable == {n \in segment.near : n.metres <= MatchRadius /\ n.turn <= MaxTurn}
      costed == {[edge |-> n.edge, cost |-> 36 * n.metres + 7 * n.turn] : n \in usable}
      before == {b \in costed \X costed : Cheaper(b[1], b[2])}
      Place(n) == Cardinality({m \in costed : <<m, n>> \in before}) + 1
  IN [k \in 1..Min({Cardinality(costed), MaxCandidates}) |-> CHOOSE n \in costed : Place(n) = k]

Options(segment) == Append(EdgeCandidates(segment), [edge |-> OffRoad, cost |-> UnmatchedCost])

TransitionCost(e, f) ==
  IF e = OffRoad \/ f = OffRoad \/ e = f THEN 0
  ELSE IF e.to = f.from THEN 0
  ELSE IF CanFollow(e, f) THEN ConnectedGapCost ELSE DisconnectedCost

Least(costs) ==
  CHOOSE i \in DOMAIN costs :
    \A j \in DOMAIN costs : costs[i] < costs[j] \/ (costs[i] = costs[j] /\ i <= j)

CheapestOf(states) == states[Least([s \in DOMAIN states |-> states[s].cost])]

Step(prior, option) ==
  [cost |-> prior.cost + option.cost + TransitionCost(Last(prior.path), option.edge),
   path |-> Append(prior.path, option.edge)]

\* Each segment on the edge that is cheapest by itself, after the cheapest so
\* far: no option but the best prior one is carried on.
ExtendGreedily(states, options) ==
  [o \in DOMAIN options |-> Step(CheapestOf(states), options[o])]

\* The cheapest path to every option of the next segment.
Extend(states, options) ==
  [o \in DOMAIN options |-> CheapestOf([s \in DOMAIN states |-> Step(states[s], options[o])])]

Start(options) == [o \in DOMAIN options |-> [cost |-> options[o].cost, path |-> <<options[o].edge>>]]

CheapestPath(options) ==
  LET states[k \in 1..Len(options)] ==
        IF k = 1 THEN Start(options[1]) ELSE Extend(states[k - 1], options[k])
  IN CheapestOf(states[Len(options)])

LengthOf(segments, indices) == SumFunctionOnSet([i \in indices |-> segments[i].metres], indices)

\* The length that falls to each edge, never more than the edge is long.
Shares(segments, path) ==
  [e \in Range(path) \ {OffRoad} |->
     Min({e.metres, LengthOf(segments, {i \in DOMAIN path : path[i] = e})})]

\* What becomes of the segments of a drive that is matched along this path.
MatchAlong(segments, options, path, cost, shares) ==
  LET on == {i \in DOMAIN path : path[i] # OffRoad}
      rivals(i) == {k \in 1..(Len(options[i]) - 1) :
                      \A l \in DOMAIN options[i] : options[i][l].edge = path[i] =>
                        options[i][k].cost - options[i][l].cost <= AmbiguityCost}
      broken == {i \in on : i > 1 /\ path[i - 1] # OffRoad /\ ~CanFollow(path[i - 1], path[i])}
  IN [shares |-> shares, cost |-> cost,
      matched |-> SumFunctionOnSet(shares, DOMAIN shares),
      total |-> LengthOf(segments, DOMAIN segments),
      unclear |-> LengthOf(segments, {i \in on : Cardinality(rivals(i)) > 1}),
      off |-> LengthOf(segments, DOMAIN path \ on),
      broken |-> LengthOf(segments, broken)]

MatchWith(segments, options, best) ==
  MatchAlong(segments, options, best.path, best.cost, Shares(segments, best.path))

OptionsOf(segments) == [i \in DOMAIN segments |-> Options(segments[i])]

MapMatch(segments) ==
  MatchWith(segments, OptionsOf(segments), CheapestPath(OptionsOf(segments)))

Confidence(m) ==
  IF 100 * m.matched >= 85 * m.total /\ 100 * m.unclear <= 15 * m.total /\ 10 * m.broken <= m.total
  THEN "HIGH"
  ELSE IF 10 * m.matched >= 6 * m.total /\ 10 * m.off <= 4 * m.total /\ 10 * m.broken <= 3 * m.total
  THEN "MEDIUM" ELSE "LOW"

(* classify_alternative                                                    *)

SharedMetres(m, n) ==
  LET both == DOMAIN m.shares \cap DOMAIN n.shares
  IN SumFunctionOnSet([e \in both |-> Min({m.shares[e], n.shares[e]})], both)

\* The share of the first drive alone.
EdgeOverlapOfFirst(m, n) ==
  IF m.matched = 0 THEN 0 ELSE (1000 * SharedMetres(m, n)) \div m.matched

EdgeOverlap(m, n) ==
  LET Part(k) == IF k.matched = 0 THEN 0 ELSE (1000 * SharedMetres(m, n)) \div k.matched
  IN (Part(m) + Part(n)) \div 2

\* Half of each polyline's share beside the other.
GeometricOverlap(pair) ==
  LET Within(drive) == (1000 * LengthOf(drive.segments, {i \in DOMAIN drive.segments : drive.segments[i].beside}))
                         \div LengthOf(drive.segments, DOMAIN drive.segments)
  IN (Within(pair.primary) + Within(pair.alternative)) \div 2

\* Without polylines: the names of the roads, or else the distances.
FallbackOverlap(p, a) ==
  IF p.names # {} /\ a.names # {}
  THEN (1000 * Cardinality(p.names \cap a.names)) \div Cardinality(p.names \cup a.names)
  ELSE IF Max({p.metres, a.metres}) = 0 THEN 0
  ELSE (1000 * Min({p.metres, a.metres})) \div Max({p.metres, a.metres})

\* A poor match counts with the polylines, a bad one not at all.
MatchedOverlap(pair, m, n) ==
  IF {Confidence(m), Confidence(n)} = {"HIGH"} THEN EdgeOverlap(m, n)
  ELSE IF "LOW" \notin {Confidence(m), Confidence(n)}
  THEN (3 * EdgeOverlap(m, n) + GeometricOverlap(pair)) \div 4
  ELSE GeometricOverlap(pair)

\* graph says whether the persisted drive graph could be loaded.
Overlap(pair, graph) ==
  LET p == pair.primary
      a == pair.alternative
  IN IF p.segments = <<>> \/ a.segments = <<>> THEN FallbackOverlap(p, a)
     ELSE IF graph THEN MatchedOverlap(pair, MapMatch(p.segments), MapMatch(a.segments))
     ELSE GeometricOverlap(pair)

Classification(pair, overlap) ==
  IF pair.alternative.minutes - pair.primary.minutes > 15 THEN "not_practical"
  ELSE IF overlap <= 300 THEN "independent"
  ELSE IF overlap <= 700 THEN "partially_independent"
  ELSE "substantially_overlapping"

Judged(pair, graph, overlap) ==
  [stage |-> "judged", pair |-> pair, graph |-> graph,
   overlap |-> overlap, verdict |-> Classification(pair, overlap)]

JudgeInit == judgement = NotJudged

\* Each alternative of a destination is compared with the primary drive.
Judge(pair, graph) == judgement' = Judged(pair, graph, Overlap(pair, graph))

JudgeNext ==
  /\ judgement.stage = "none"
  /\ \E pair \in DrivePairs, graph \in BOOLEAN : Judge(pair, graph)

JudgeSpec == JudgeInit /\ [][JudgeNext]_judgement

-----------------------------------------------------------------------------

\* One option for every segment, what each adds to the cost, and the sum.
WaysThrough(options) ==
  {c \in [DOMAIN options -> 1..(MaxCandidates + 1)] : \A i \in DOMAIN options : c[i] \in DOMAIN options[i]}

Terms(options, choice) ==
  LET Chosen(i) == options[i][choice[i]]
  IN [i \in DOMAIN options |->
        Chosen(i).cost + (IF i = 1 THEN 0 ELSE TransitionCost(Chosen(i - 1).edge, Chosen(i).edge))]

PathCost(options, choice) == SumFunctionOnSet(Terms(options, choice), DOMAIN options)

\* The match of a drive costs what the cheapest of all its paths costs, and
\* no edge is shared for more than its length nor the drive for more than its
\* own.  A jump costs more than to leave a segment out, so no match has one.
CheapestIs(options, m) ==
  /\ m.cost = Min({PathCost(options, c) : c \in WaysThrough(options)})
  /\ m.matched + m.off <= m.total /\ m.broken = 0
  /\ \A e \in DOMAIN m.shares : m.shares[e] <= e.metres

MatchIsCheapest(segments) == CheapestIs(OptionsOf(segments), MapMatch(segments))

\* The roads two drives share are the same share of them whichever is called
\* the primary one, and however the match was found: both drives are matched
\* at the least cost there is, and the share lies between none and all.  What
\* is made of the times (not_practical) does depend on the order of the pair.
OverlapIsMutual ==
  judgement.stage = "judged" =>
    LET p == judgement.pair.primary
        a == judgement.pair.alternative
    IN /\ \A drive \in {p, a} : drive.segments # <<>> => MatchIsCheapest(drive.segments)
       /\ judgement.overlap \in 0..1000
       /\ judgement.overlap = Overlap([primary |-> a, alternative |-> p], judgement.graph)

=============================================================================
