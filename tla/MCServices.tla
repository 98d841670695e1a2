----------------------------- MODULE MCServices -----------------------------
(***************************************************************************)
(* The services on small instances for TLC.                                *)
(***************************************************************************)
EXTENDS Services

CONSTANTS t1, t2, t3    \* three trips

-----------------------------------------------------------------------------

\* Comparison: flats of a shortlist and buyers.
F(price, area, lm, ly, js, tr, est) == [price |-> price, area |-> area, type |-> "4 ROOM", leaseMonths |-> lm, leaseYears |-> ly, journeys |-> js, transit |-> tr,
  driving |-> IF tr > 79 THEN 3 * tr - 180 ELSE Unknown,   \* two flats three points apart
  schools |-> 70, estimate |-> est, confidence |-> "MEDIUM"]
D(s) == {[mode |-> "DRIVING", seconds |-> s], [mode |-> "PUBLIC_TRANSPORT", seconds |-> 2400]}
MCFlats == { F(500, 90, 720, Unknown, D(1500), 80, 520),
  F(520, 90, Unknown, 61, {}, Unknown, 480), F(480, 75, Unknown, Unknown, D(2700), 64, Unknown),
  F(500, 93, 730, Unknown, {}, 81, 520), F(600, 110, 1000, 20, D(1200), 79, 700), F(505, 91, 700, Unknown, {}, Unknown, Unknown)}
MCShortlists == UNION {[1..n -> MCFlats] : n \in 0..3}
L1 == [metric |-> "FLOOR_AREA_SQM", op |-> "GTE", threshold |-> 85]
L2 == [metric |-> "REMAINING_LEASE_YEARS", op |-> "GTE", threshold |-> 60]
L3 == [metric |-> "MAX_DRIVING_JOURNEY_MINUTES", op |-> "LTE", threshold |-> 25]
MCProfiles == [budget : {600}, limits : {<<>>, <<L1, L2>>, <<L2, L3>>}, priorities : {<<>>, <<"SPACE">>, <<"PUBLIC_TRANSPORT", "AFFORDABILITY">>, <<"FAIR_PRICE", "LEASE", "SPACE">>, <<"DRIVING">>}]

\* FairPrice: transaction ledgers, flats and forecasts.
Sale(id, month, area, rate, lease, town, likeness, block) ==
  [id |-> id, month |-> month, area |-> area, rate |-> rate, lease |-> lease,
   town |-> town, type |-> "4 ROOM", likeness |-> likeness, block |-> block,
   commenced |-> 1985, model |-> "Model A"]
Near(id) == Sale(id, -2, 100, 50 + id, 720, "A", 80, "b1")
OldLease(id) == Sale(id, -24, 90, 60, 720 - 144, "A", 40, "b2")
Wide(id) == Sale(id, -5, 120, 40 + 10 * (id % 3), 720, "A", 30, "b2")
Far(id) == Sale(id, -1, 135, 90, 720 + 300, "B", 20, "b3")
Extras == {<<>>, <<Sale(1, -2, 100, 51, 720, "A", 80, "b1")>>,
           <<Sale(90, 0, 100, 20, 720, "A", 90, "b1")>>,
           <<Sale(91, -25, 100, 20, 720, "A", 90, "b2"), Sale(92, -3, 100, 70, Unstated, "B", 90, "b1")>>}
Run(n, first, Kind(_)) == [k \in 1..n |-> Kind(first + k)]
MCLedgers ==
  {Run(near, 0, Near) \o Run(old, 10, OldLease) \o Run(wide, 20, Wide) \o Run(far, 30, Far) \o more :
     near \in {0, 2, 7, 8}, old \in {0, 1, 8}, wide \in {0, 6}, far \in {0, 1, 8}, more \in Extras}
MCSubjects == {[area |-> 100, lease |-> l, type |-> "4 ROOM", block |-> b] :
                 l \in {720, 0}, b \in {"b1", "b9"}} \cup {[area |-> 100, lease |-> Unstated, type |-> "4 ROOM", block |-> "b1"]}
MCForecasts == {[made |-> FALSE], [made |-> TRUE, calibrated |-> 99, central |-> 55, low |-> 50, high |-> 60],
                [made |-> TRUE, calibrated |-> 100, central |-> 55, low |-> 50, high |-> 60]}

\* LeaseEstimate: sales of three blocks, two of them with one number.
MCAsOf == 2026 * 12 + 6
BS(block, street, ago, over, known) ==
  [block |-> block, street |-> street, month |-> MCAsOf - ago,
   left |-> IF known THEN (1985 + 99) * 12 + over - (MCAsOf - ago) ELSE NotKnown]
MCBlockSales ==
  <<BS("1", "s", 80, -90, TRUE)>> \o [k \in 1..11 |-> BS("1", "s", 2 * k, k % 4, TRUE)]
  \o <<BS("1", "s", 3, 5, TRUE), BS("1", "s", 1, 2, FALSE), BS("1", "s", -1, 60, TRUE),
       BS("1", "t", 4, 300, TRUE), BS("1", "t", 9, 313, TRUE), BS("2", "t", 4, 20, TRUE), BS("2", "t", 5, 45, TRUE),
       BS("3", "t", 4, 20 - 1200, TRUE)>>
MCDwellings ==
  {[block |-> b, street |-> s, stated |-> NotKnown, official |-> FALSE, commenced |-> NotKnown] :
     b \in {"1", "2", "3"}, s \in {"s", "t"}}
  \cup {[block |-> b, street |-> "t", stated |-> st, official |-> o, commenced |-> c] :
     b \in {"2", "4"}, st \in {NotKnown, 700}, o \in BOOLEAN, c \in {NotKnown, 1985, 2050}}

\* BusCorridors: loops, opposite directions and shared roads.
MCRoutes == {<<1, 2, 3, 4>>, <<2, 3, 2, 1>>, <<1, 2, 1, 3>>, <<4, 3, 2, 1>>}
MCBusNetworks ==
  {[sound |-> TRUE, route |-> [s \in 1..3 |-> <<a, b, c>>[s]], interval |-> [s \in 1..3 |-> <<i, 15, j>>[s]]] :
     a \in MCRoutes, b \in MCRoutes, c \in {<<3, 5, 6>>, <<2, 3, 4, 5>>}, i \in {25, NoTimetable}, j \in {10, 30}}
  \cup {[sound |-> FALSE, route |-> [s \in 1..1 |-> <<1, 2>>], interval |-> [s \in 1..1 |-> 10]],
      [sound |-> TRUE, route |-> [s \in 1..6 |-> IF s = 6 THEN <<12, 31, 32>> ELSE <<1, 10 + s, 20 + s>>],
       interval |-> [s \in 1..6 |-> 15]]}
MCSurroundings ==
  {{[stop |-> 1, metres |-> 300]}, {[stop |-> 2, metres |-> 400], [stop |-> 3, metres |-> 401]},
   {[stop |-> 1, metres |-> 100], [stop |-> 3, metres |-> 200]}, {}}

\* RailReach: a line, an interchange and a loop, in several timings.
RE(x, y, t, c) == [a |-> x, b |-> y, minutes |-> t, change |-> c]
MCRailGraphs ==
  {[edges |-> <<RE(1, 2, 2, FALSE), RE(2, 3, 9, FALSE), RE(3, 4, v, FALSE), RE(2, 5, 5, TRUE),
                RE(5, 6, w, FALSE), RE(6, 7, 6, TRUE), RE(7, 4, x, FALSE), RE(4, 8, 18, FALSE), RE(1, 3, y, TRUE)>>,
    codes |-> [s \in 1..7 |-> <<{1}, {2, 5}, {3}, {4}, {6, 7}, {8}, {9}>>[s]],
    active |-> a] : v \in {2, 25}, w \in {2, 10}, x \in {2, 12}, y \in {6, 11}, a \in {1..6, {1, 4, 5, 7}}}
  \cup {[edges |-> <<>>, codes |-> [s \in 1..1 |-> {1}], active |-> {1}]}
RN(s, p, c) == [station |-> s, primary |-> p, cost |-> c, minutes |-> c]
MCEntryLists == {{}, {RN(1, TRUE, 5), RN(5, FALSE, 2)}, {RN(2, FALSE, 7), RN(4, FALSE, 7)}, {RN(3, TRUE, 2), RN(5, FALSE, 9)}}

\* SmartPaste: what the model may extract.
PC(v, c, s) == [value |-> v, confidence |-> c, status |-> s]
MCExtractions ==
  {[f \in {} |-> <<>>],
   [f \in {"asking_price", "floor_area_sqm"} |->
      IF f = "asking_price" THEN <<PC("not_positive", 4, "available")>> ELSE <<PC("not_a_number", 4, "available"), PC("90", 1, "uncertain")>>],
   [f \in {"asking_price", "flat_type"} |->
      IF f = "flat_type" THEN <<PC("4_room", 2, "uncertain")>> ELSE <<PC("p1", 3, "missing"), PC("p2", 3, "available"), PC("p3", 3, "available")>>],
   [f \in {"subtype", "flat_model", "flat_type"} |->
      IF f = "subtype" THEN <<PC("5i", 3, "available")>>
      ELSE IF f = "flat_model" THEN <<PC("standard", 3, "available")>> ELSE <<PC("4_room", 4, "uncertain")>>]}
MCSubtypeTable == [s \in {"5i"} |-> [flat_type |-> "5_room", flat_model |-> "improved"]]

\* PublicTransport: two stops and two stations.
MCPlaces ==
  {[stops |-> <<1, 2>>, stations |-> <<11, 12>>,
    network |-> [sound |-> sound, route |-> [s \in 1..3 |-> <<<<1, 3, 4, 5>>, <<1, 3, 4, 5>>, <<2, 6, 7>>>>[s]],
                 interval |-> [s \in 1..3 |-> <<20, 30, i>>[s]]],
    graph |-> [edges |-> <<RE(1, 2, 9, FALSE), RE(2, 3, 12, TRUE)>>,
               codes |-> [s \in 11..13 |-> <<{1}, {2}, {3}>>[s - 10]], active |-> 11..13],
    lines |-> [s \in 11..13 |-> <<{"red"}, {"red", "blue"}, {"blue"}>>[s - 10]]] :
      sound \in BOOLEAN, i \in {10, 30}}
MCWalkAnswers == {[minutes |-> 40, metres |-> 300], [minutes |-> 92, metres |-> 700], [minutes |-> 180, metres |-> 1200]}
MCFeederAnswers == {[services |-> {1}, transfers |-> 0, ride |-> 60, walk |-> 20],
                    [services |-> {3}, transfers |-> 1, ride |-> 40, walk |-> 10],
                    [services |-> {}, transfers |-> 0, ride |-> 0, walk |-> 90]}

\* Driving: four entries of two roads, up to three car parks.
DE(i, r) == [id |-> i, road |-> r]
MCEntrances == {{}, {DE(1, "north"), DE(2, "north"), DE(3, "south"), DE(4, "south")}}
MCDetailAnswers == {[minutes |-> 3, sustained |-> 40], [minutes |-> 4, sustained |-> 60], [minutes |-> 16, sustained |-> 200]}
Alt(i, o, p) == [id |-> i, overlap |-> o, penalty |-> p]
MCAlternatives == {[routes |-> FALSE, others |-> {}], [routes |-> TRUE, others |-> {Alt(1, 30, 15), Alt(2, 70, 4), Alt(3, 10, 16)}]}
CP(i, s, r, l, t) == [id |-> i, shelter |-> s, restrictions |-> r, lots |-> l, typical |-> t]
MCParkings == {{}, {CP(1, 480, Unrecorded, 300, Unrecorded)},
  {CP(1, 1000, 1000, Unrecorded, Unrecorded), CP(2, 820, 750, 600, 910), CP(3, 480, Unrecorded, 0, Unrecorded)}}

\* RouteBatch: t1 and t2 in one cache slot, as one time bucket has them, and
\* t3 in another.
MCSlot == [t \in Trips |-> IF t = t2 THEN t1 ELSE t]
MCCallLists == {<<t1, t2>>, <<t3, t1, t3>>}

\* MajorRoads: a road with close junctions, one beside it, one far away.
RF(n, m, d) == [name |-> n, major |-> m, points |-> 2, metres |-> d]
Lies(n, p, r, o) == [named |-> n, planar |-> p, reach |-> r, offsets |-> o]
OnRoad == {Lies(TRUE, 1, 1, <<2, 3>>), Lies(TRUE, 20, 40, <<30, 33>>), Lies(FALSE, 11, 12, <<12, 12>>),
           Lies(TRUE, 0, 5, <<1, 80>>), Lies(FALSE, 15, 16, <<20, 20>>)}
RoadEdge(f, t, k, fits) == [from |-> f, to |-> t, key |-> k, fits |-> fits]
None2 == [r \in {} |-> 0]
MCSurveys ==
  {[features |-> <<RF(1, TRUE, 900), RF(2, TRUE, d), RF(3, TRUE, 900), RF(4, FALSE, 5), RF(1, TRUE, 700)>>,
    edges |-> {RoadEdge(1, 2, 0, [r \in {1} |-> a]), RoadEdge(2, 3, 0, [r \in {1, 2} |-> IF r = 1 THEN b ELSE c]),
               RoadEdge(3, 4, 0, [r \in {1} |-> b]), RoadEdge(4, 5, 0, [r \in {1} |-> c]),
               RoadEdge(6, 1, 0, None2), RoadEdge(6, 2, 0, None2), RoadEdge(6, 3, 0, None2),
               RoadEdge(6, 4, 0, [r \in {2, 3} |-> c])},
    at |-> [n \in 1..6 |-> <<0, far, 60, 150, 400, 200>>[n]]] :
     a \in OnRoad \ {Lies(TRUE, 20, 40, <<30, 33>>), Lies(FALSE, 15, 16, <<20, 20>>)}, b \in OnRoad, c \in OnRoad, d \in {800, 16000}, far \in {30, 41}}

\* RouteOverlap: a road, the way back, a frontage road and a gap of two hops.
GE(i, f, t, m) == [id |-> i, from |-> f, to |-> t, metres |-> m]
MCDriveGraph == {GE(1, 1, 2, 100), GE(2, 2, 3, 100), GE(3, 2, 1, 100), GE(4, 11, 12, 100), GE(5, 12, 3, 60),
                 GE(6, 3, 4, 40), GE(7, 4, 5, 40), GE(8, 5, 6, 100)}
EdgeNo(i) == CHOOSE e \in MCDriveGraph : e.id = i
By(i, m, t) == [edge |-> EdgeNo(i), metres |-> m, turn |-> t]
Seg(m, near, b) == [metres |-> m, near |-> near, beside |-> b]
Way(t, segs, names, m) == [minutes |-> t, segments |-> segs, names |-> names, metres |-> m]
Firsts == {Seg(100, {By(1, 9, 10), By(4, 5, 20), By(3, 2, 160)}, TRUE), Seg(100, {By(1, 4, 0)}, TRUE), Seg(100, {By(4, 36, 0)}, FALSE)}
Seconds == {Seg(90, {By(2, 12, 0), By(5, 8, 0)}, TRUE), Seg(120, {By(8, 3, 0), By(3, 30, 60)}, FALSE), Seg(100, {By(2, 4, 0)}, TRUE)}
Thirds == {<<>>, <<Seg(40, {By(8, 6, 0), By(6, 20, 0)}, TRUE)>>}
MCDrives ==
  {Way(20, <<f, s>> \o t, {"pie"}, 260) : f \in Firsts, s \in Seconds, t \in Thirds}
  \cup {Way(25, <<Seg(60, {By(1, 4, 0)}, TRUE), Seg(60, {By(1, 5, 0)}, TRUE), Seg(90, {By(8, 3, 0)}, FALSE), Seg(40, {By(8, 6, 0)}, FALSE)>>, {}, 250)}
  \cup {Way(30, <<>>, {}, 300), Way(36, <<>>, {"pie", "aye"}, 150)}
MCDrivePairs == {[primary |-> p, alternative |-> a] : p \in MCDrives, a \in {d \in MCDrives : Len(d.segments) < 3}}
=============================================================================
