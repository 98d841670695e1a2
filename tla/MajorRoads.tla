----------------------------- MODULE MajorRoads -----------------------------
(***************************************************************************)
(* adapters/transport_data/major_road_network.py: the catalogue of legal   *)
(* entries onto major roads.  An offline build matches the edges of the    *)
(* drive network with each official road and keeps the junctions at which  *)
(* a driver can enter it; the API serves the catalogue only beside the two *)
(* files it was built from, and looks up the entries of the roads near a   *)
(* flat.  Distances are in metres; nodes are numbered in the order of      *)
(* their identifiers, and lie on one line.                                 *)
(***************************************************************************)
EXTENDS Integers, FiniteSets, FiniteSetsExt, Functions

CONSTANTS
  Surveys,      \* [features, edges, at]: what the build reads, and a flat
  SearchRadius, \* search_radius_metres
  MaxEntries,   \* max_major_road_entry_nodes_per_road
  RoadLimit,    \* major_road_candidate_limit
  SafetyRadius  \* major_road_search_safety_radius_m

\* The spatial index must not hide what the strict rules accept.
ASSUME SearchRadiusAssumption == SearchRadius \in Nat /\ SearchRadius >= 35

\* planar is the distance from line to line, which the plane (SVY21) gives to
\* less than a millimetre like the strict rules: no point of an edge is nearer.
ASSUME SurveyAssumption ==
  /\ MaxEntries \in Nat
  /\ \A survey \in Surveys :
       /\ IsFiniteSet(survey.edges)
       /\ \A e \in survey.edges :
            /\ e.from \in Int /\ survey.at[e.from] \in Int
            /\ \A r \in DOMAIN e.fits :
                 LET fit == e.fits[r]
                 IN fit.planar \in Int
                    /\ \A i \in DOMAIN fit.offsets : fit.offsets[i] \in Int /\ fit.planar <= fit.offsets[i]

VARIABLE catalogue   \* the catalogue, from its build to an answer

NotBuilt == [stage |-> "none"]
MatchTolerance == 35
SpatialOnlyTolerance == 12
EntryDedup == 40

(* The official roads: the features of the Major_Road layer, by name.      *)

MajorFeatures(survey) == {f \in Range(survey.features) : f.major /\ f.points >= 2}
Roads(survey) == {f.name : f \in MajorFeatures(survey)}
Metres(survey, road) == Min({f.metres : f \in {g \in MajorFeatures(survey) : g.name = road}})

\* The nearest roads; the names' order decides between equal distances.
NearbyRoads(survey) ==
  LET Closer(q, r) == \/ Metres(survey, q) < Metres(survey, r)
                      \/ Metres(survey, q) = Metres(survey, r) /\ q < r
  IN {r \in Roads(survey) :
        /\ Metres(survey, r) <= SafetyRadius
        /\ Cardinality({q \in Roads(survey) : Closer(q, r)}) < RoadLimit}

\* evaluate_sla_osm_edge_match: fit says how an edge lies to a road.  Without
\* a shared name the edge must lie closer, and two of its points must be close.
StrictlyMatches(fit) ==
  LET tolerance == IF fit.named THEN MatchTolerance ELSE SpatialOnlyTolerance
  IN /\ Min(Range(fit.offsets) \cup {fit.reach}) <= tolerance
     /\ Cardinality({i \in DOMAIN fit.offsets : fit.offsets[i] <= tolerance}) >= 2

\* The broad search already asks for the distance of a match without a name.
MatchedEdgesNarrowly(survey, road) ==
  {e \in survey.edges : /\ road \in DOMAIN e.fits
                        /\ e.fits[road].planar <= SpatialOnlyTolerance
                        /\ StrictlyMatches(e.fits[road])}

\* The edges of the index near the road, those that cannot match dropped by
\* their distance on the plane, and the strict rules applied to the rest.
MatchedEdges(survey, road) ==
  {e \in survey.edges : /\ road \in DOMAIN e.fits
                        /\ e.fits[road].planar <= SearchRadius
                        /\ e.fits[road].planar <= MatchTolerance
                        /\ StrictlyMatches(e.fits[road])}

\* What leads to a junction without being the road itself.
Approaches(survey, matched, node) == {e \in survey.edges : e.to = node} \ matched

Together(survey, m, n) ==
  survey.at[m] - survey.at[n] \in -EntryDedup..EntryDedup

\* Junctions that were passed over keep the later ones away too.
EntryNodesChained(survey, matched) ==
  LET junctions == {e.from : e \in matched}
      Enterable == {n \in junctions : Approaches(survey, matched, n) # {}}
      Stays(kept, node) ==
        /\ node \in Enterable
        /\ \A m \in {n \in Enterable : n < node} : ~Together(survey, m, node)
        /\ Cardinality({m \in kept : m < node}) < MaxEntries
  IN CHOOSE kept \in SUBSET junctions : \A node \in junctions : node \in kept <=> Stays(kept, node)

\* One turn of the loop, given what it kept before: a junction that cannot be
\* entered from another road, that is close to one kept, or that exceeds the
\* limit is passed over.
Keeps(survey, matched, before, node) ==
  /\ Approaches(survey, matched, node) # {}
  /\ \A m \in before : ~Together(survey, m, node)
  /\ Cardinality(before) < MaxEntries

\* find_major_road_entry_nodes: the junctions where a matched edge begins, in
\* their order; each turn sees the earlier ones that were kept.
EntryNodes(survey, matched) ==
  LET junctions == {e.from : e \in matched}
  IN CHOOSE kept \in SUBSET junctions :
       \A node \in junctions :
         node \in kept <=> Keeps(survey, matched, {m \in kept : m < node}, node)

\* build_major_road_mapping: roads without a matched edge are left out.
Mapping(survey) ==
  [r \in {road \in Roads(survey) : MatchedEdges(survey, road) # {}} |->
     EntryNodes(survey, MatchedEdges(survey, r))]

CatalogueInit == catalogue = NotBuilt

\* The build writes the catalogue with the hashes of the files it read.
BuildCatalogue(survey) ==
  /\ catalogue.stage = "none"
  /\ catalogue' = [stage |-> "built", survey |-> survey, mapping |-> Mapping(survey)]

\* validate_major_road_mapping_artifacts: at startup, every hash and version
\* must be the installed one, or the process does not start.
LoadCatalogue(sameGraph, sameRoads, sameVersion) ==
  /\ catalogue.stage = "built"
  /\ catalogue' = [catalogue EXCEPT !.stage =
                     IF sameGraph /\ sameRoads /\ sameVersion THEN "serving" ELSE "refused"]

\* compute_major_road_access: the entries of the nearby roads that are mapped.
FindEntries ==
  /\ catalogue.stage = "serving"
  /\ LET nearby == NearbyRoads(catalogue.survey) \cap DOMAIN catalogue.mapping
     IN catalogue' = [stage |-> "found", survey |-> catalogue.survey,
                      entries |-> UNION {{[road |-> r, node |-> n] : n \in catalogue.mapping[r]} :
                                           r \in nearby}]

CatalogueNext ==
  \/ \E survey \in Surveys : BuildCatalogue(survey)
  \/ \E g, s, v \in BOOLEAN : LoadCatalogue(g, s, v)
  \/ FindEntries

CatalogueSpec == CatalogueInit /\ [][CatalogueNext]_catalogue

-----------------------------------------------------------------------------

\* The index, the filter on the plane, the deduplication and the limits lose
\* no access: at a road that the lookup considers, every junction where the
\* strict rules, applied to the whole network, let a driver in is an entry or
\* close to one, unless the road has all the entries it may have; no two
\* entries of a road are close to each other, and none is at a junction that
\* only the road itself leads to.
EntriesCoverTheRoad ==
  catalogue.stage = "found" =>
    LET survey == catalogue.survey
    IN \A r \in NearbyRoads(survey) :
         LET onRoad == {e \in survey.edges : r \in DOMAIN e.fits /\ StrictlyMatches(e.fits[r])}
             legal == {e.from : e \in {f \in onRoad : \E g \in survey.edges \ onRoad : g.to = f.from}}
             kept == {x.node : x \in {y \in catalogue.entries : y.road = r}}
         IN /\ kept \subseteq legal /\ Cardinality(kept) <= MaxEntries
            /\ \A m, n \in kept : m # n => ~Together(survey, m, n)
            /\ Cardinality(kept) < MaxEntries =>
                 \A n \in legal : \E m \in kept : Together(survey, m, n)

=============================================================================
