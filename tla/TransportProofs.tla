--------------------------- MODULE TransportProofs ---------------------------
(***************************************************************************)
(* A transport score the recommendation may read rests on a routed call    *)
(* that was answered.  Both arguments go through the rollup: the weights   *)
(* of the components that were assessed must reach the threshold, and      *)
(* without an entry, to a major road or to the public network, those that  *)
(* are left weigh too little.  The entry is one that a call confirmed, and *)
(* every score in the mean lies in its range, so the mean does.  Driving   *)
(* comes first, public transport after it, and the catalogue of entries    *)
(* that driving looks up at the end: its build and its lookup lose no      *)
(* legal access to a road.                                                 *)
(***************************************************************************)
EXTENDS Driving, PublicTransport, MajorRoads, OrderFacts

(***************************************************************************)
(* Score tables and the order of entries.                                  *)
(***************************************************************************)

\* A score table answers with its floor or with the score of a row.
LEMMA BandScoreIsOfARow ==
  ASSUME NEW rows, IsFiniteSet(rows), \A r \in rows : r[1] \in Int, NEW floor, NEW value
  PROVE  BandScore(rows, floor, value) = floor
           \/ \E r \in rows : BandScore(rows, floor, value) = r[2]
<1> DEFINE covering == {r \in rows : value <= r[1]}
           limit == [r \in covering |-> r[1]]
<1>1. CASE covering = {}
  BY <1>1 DEF BandScore
<1>2. CASE covering # {}
  <2>1. IsFiniteSet(covering)
    BY FS_Subset
  <2>2. \A r \in covering : limit[r] \in Int
    OBVIOUS
  <2>3. \E r \in covering : \A s \in covering : limit[r] <= limit[s]
    <3> HIDE DEF limit, covering
    <3> QED
      BY <1>2, <2>1, <2>2, FirstByValue
  <2>4. \E r \in covering : \A s \in covering : r[1] <= s[1]
    BY <2>3
  <2> DEFINE first == CHOOSE r \in covering : \A s \in covering : r[1] <= s[1]
  <2>5. first \in covering
    <3> HIDE DEF covering
    <3> QED
      BY <2>4
  <2>6. BandScore(rows, floor, value) = first[2]
    BY <1>2 DEF BandScore
  <2> QED
    BY <2>5, <2>6
<1> QED
  BY <1>1, <1>2

LEMMA FewAreFinite ==
  ASSUME NEW a, NEW b, NEW c, NEW d, NEW e
  PROVE  IsFiniteSet({a, b}) /\ IsFiniteSet({a, b, c, d}) /\ IsFiniteSet({a, b, c, d, e})
<1>1. IsFiniteSet({a}) /\ {a, b} = {a} \cup {b} /\ {a, b, c} = {a, b} \cup {c}
  BY FS_Singleton
<1>2. {a, b, c, d} = {a, b, c} \cup {d} /\ {a, b, c, d, e} = {a, b, c, d} \cup {e}
  OBVIOUS
<1>3. IsFiniteSet({a, b})
  BY <1>1, FS_AddElement
<1>4. IsFiniteSet({a, b, c})
  BY <1>1, <1>3, FS_AddElement
<1>5. IsFiniteSet({a, b, c, d})
  BY <1>2, <1>4, FS_AddElement
<1> QED
  BY <1>2, <1>3, <1>5, FS_AddElement

LEMMA BandScoresTyped ==
  ASSUME NEW value \in Int
  PROVE  /\ BandScore(AccessMinuteBands, 250, value) \in 250..950
         /\ BandScore(PenaltyBands, 250, value) \in 250..950
         /\ BandScore(WalkBands, 250, value) \in 250..1000
<1>1. IsFiniteSet(AccessMinuteBands) /\ IsFiniteSet(PenaltyBands) /\ IsFiniteSet(WalkBands)
  <2>1. IsFiniteSet(0..30) /\ IsFiniteSet(0..1000)
    <3>1. \A n \in Nat : IsFiniteSet(0..n)
      BY FS_Interval
    <3>2. 30 \in Nat /\ 1000 \in Nat
      OBVIOUS
    <3>3. IsFiniteSet(0..30)
      BY <3>1, <3>2, Zenon
    <3>4. IsFiniteSet(0..1000)
      BY <3>1, <3>2, Zenon
    <3> QED
      BY <3>3, <3>4
  <2>2. IsFiniteSet((0..30) \X (0..1000))
    BY <2>1, FS_Product
  <2>3. AccessMinuteBands \subseteq (0..30) \X (0..1000)
    BY DEF AccessMinuteBands
  <2>4. PenaltyBands \subseteq (0..30) \X (0..1000)
    BY DEF PenaltyBands
  <2>5. WalkBands \subseteq (0..30) \X (0..1000)
    BY DEF WalkBands
  <2> QED
    BY <2>2, <2>3, <2>4, <2>5, FS_Subset
<1>2. \A r \in AccessMinuteBands : r[1] \in Int /\ r[2] \in 250..950
  BY DEF AccessMinuteBands
<1>3. \A r \in PenaltyBands : r[1] \in Int /\ r[2] \in 250..950
  BY DEF PenaltyBands
<1>4. \A r \in WalkBands : r[1] \in Int /\ r[2] \in 250..1000
  BY DEF WalkBands
<1>5. BandScore(AccessMinuteBands, 250, value) \in 250..950
  BY <1>1, <1>2, BandScoreIsOfARow
<1>6. BandScore(PenaltyBands, 250, value) \in 250..950
  BY <1>1, <1>3, BandScoreIsOfARow
<1>7. BandScore(WalkBands, 250, value) \in 250..1000
  BY <1>1, <1>4, BandScoreIsOfARow
<1> QED
  BY <1>5, <1>6, <1>7

\* Among numbered things with whole minutes one comes before all others.
LEMMA OneComesFirst ==
  ASSUME NEW S, Numbered(S), S # {}, NEW minutes, \A e \in S : minutes[e] \in Int
  PROVE  \E e \in S : \A f \in S : Before(minutes, e, f)
<1>1. IsFiniteSet(S)
  BY DEF Numbered
<1>2. PICK a \in S : \A f \in S : minutes[a] <= minutes[f]
  BY <1>1, FirstByValue
<1> DEFINE T == {e \in S : minutes[e] = minutes[a]}
           id == [e \in T |-> e.id]
<1>3. IsFiniteSet(T) /\ T # {}
  BY <1>1, FS_Subset
<1>4. \A e \in T : id[e] \in Int
  BY DEF Numbered
<1>5. \E e \in T : \A f \in T : id[e] <= id[f]
  <2> HIDE DEF T, id
  <2> QED
    BY <1>3, <1>4, FirstByValue
<1>6. PICK e \in T : \A f \in T : e.id <= f.id
  BY <1>5
<1>7. \A f \in S : Before(minutes, e, f)
  BY <1>2, <1>6 DEF Before
<1> QED
  BY <1>6, <1>7

\* The n quickest are at most n.
LEMMA QuickestAreFew ==
  ASSUME NEW S, Numbered(S), NEW minutes, \A e \in S : minutes[e] \in Int, NEW n \in Nat
  PROVE  IsFiniteSet(Quickest(S, minutes, n)) /\ Cardinality(Quickest(S, minutes, n)) <= n
<1> DEFINE before == {p \in S \X S : p[1] # p[2] /\ Before(minutes, p[1], p[2])}
           Ahead(e) == {f \in S : <<f, e>> \in before}
           UpTo(e) == {f \in S : Before(minutes, f, e)}
           Q == Quickest(S, minutes, n)
           place == [e \in Q |-> Cardinality(Ahead(e)) + 1]
<1>1. IsFiniteSet(S) /\ (\A e \in S : e.id \in Int) /\ (\A e, f \in S : e.id = f.id => e = f)
  BY DEF Numbered
<1>2. \A e, f \in S : e # f => (<<e, f>> \in before <=> <<f, e>> \notin before)
  BY <1>1 DEF Before
<1>3. \A e \in S : <<e, e>> \notin before
  OBVIOUS
<1>4. \A e, f, g \in S : <<e, f>> \in before /\ <<f, g>> \in before => <<e, g>> \in before
  <2> SUFFICES ASSUME NEW e \in S, NEW f \in S, NEW g \in S,
                      e # f, Before(minutes, e, f), f # g, Before(minutes, f, g)
               PROVE  e # g /\ Before(minutes, e, g)
    OBVIOUS
  <2>1. e.id \in Int /\ f.id \in Int /\ g.id \in Int /\ e.id # f.id /\ f.id # g.id
    BY <1>1
  <2>2. minutes[e] \in Int /\ minutes[f] \in Int /\ minutes[g] \in Int
    OBVIOUS
  <2>3. Before(minutes, e, g)
    BY <2>1, <2>2 DEF Before
  <2>4. e # g
    BY <2>1, <2>2 DEF Before
  <2> QED
    BY <2>3, <2>4
<1>5. \A e, f \in S : <<e, f>> \in before => Cardinality(Ahead(e)) < Cardinality(Ahead(f))
  <2> DEFINE sooner == [e \in S |-> Cardinality(Ahead(e))]
  <2>1. \A e \in S : sooner[e] = Cardinality({f \in S : <<f, e>> \in before})
    OBVIOUS
  <2>2. \A e, f \in S : <<e, f>> \in before => sooner[e] < sooner[f]
    <3> HIDE DEF before, sooner
    <3> QED
      BY <1>1, <1>2, <1>3, <1>4, <2>1, EveryPlaceIsTaken
  <2> QED
    BY <2>1, <2>2
<1>6. \A e \in S : UpTo(e) = Ahead(e) \cup {e}
  BY <1>1 DEF Before
<1>7. \A e \in S : IsFiniteSet(Ahead(e)) /\ e \notin Ahead(e) /\ Cardinality(Ahead(e)) \in Nat
  <2> SUFFICES ASSUME NEW e \in S
               PROVE  IsFiniteSet(Ahead(e)) /\ e \notin Ahead(e) /\ Cardinality(Ahead(e)) \in Nat
    OBVIOUS
  <2>1. Ahead(e) \subseteq S /\ e \notin Ahead(e)
    OBVIOUS
  <2> HIDE DEF Ahead
  <2> QED
    BY <1>1, <2>1, FS_Subset, FS_CardinalityType
<1>8. \A e \in S : Cardinality(UpTo(e)) = Cardinality(Ahead(e)) + 1
  <2> HIDE DEF Ahead, UpTo
  <2> QED
    BY <1>6, <1>7, FS_AddElement
<1>9. \A e \in Q : e \in S /\ Cardinality(UpTo(e)) <= n
  BY DEF Quickest
<1>10. place \in [Q -> 1 .. n]
  <2> HIDE DEF Ahead, UpTo, Q
  <2> QED
    BY <1>7, <1>8, <1>9
<1>11. ASSUME NEW e \in Q, NEW f \in Q, e # f PROVE place[e] # place[f]
  <2>1. e \in S /\ f \in S
    BY <1>9
  <2>2. <<e, f>> \in before \/ <<f, e>> \in before
    BY <1>2, <1>11, <2>1
  <2> HIDE DEF before, Ahead, Q
  <2>3. Cardinality(Ahead(e)) # Cardinality(Ahead(f))
    BY <1>5, <1>7, <2>1, <2>2
  <2> QED
    BY <1>7, <2>1, <2>3
<1>12. place \in Injection(Q, 1 .. n)
  <2> HIDE DEF place, Q
  <2> QED
    BY <1>10, <1>11 DEF Injection, IsInjective
<1>13. IsFiniteSet(1 .. n) /\ Cardinality(1 .. n) = n
  <2>1. IsFiniteSet(1 .. n) /\ Cardinality(1 .. n) = IF 1 > n THEN 0 ELSE n - 1 + 1
    BY FS_Interval
  <2> QED
    BY <2>1
<1>14. IsFiniteSet(Q) /\ Cardinality(Q) <= Cardinality(1 .. n)
  <2> HIDE DEF place, Q
  <2> QED
    BY <1>12, <1>13, FS_Injection
<1> QED
  BY <1>13, <1>14

(***************************************************************************)
(* The entry that is selected and the components of the model.             *)
(***************************************************************************)

EntrySet(entries) == \E offered \in Entrances : entries \subseteq offered

LEMMA EntrySetsAreNumbered ==
  ASSUME NEW entries, EntrySet(entries)
  PROVE  Numbered(entries)
<1>1. PICK offered \in Entrances : entries \subseteq offered
  BY DEF EntrySet
<1>2. Numbered(offered)
  BY DrivingAssumption
<1>3. IsFiniteSet(offered)
  BY <1>2 DEF Numbered
<1>4. IsFiniteSet(entries)
  BY <1>1, <1>3, FS_Subset
<1> QED
  BY <1>1, <1>2, <1>4 DEF Numbered

SummariesAreRouted(summaries) ==
  /\ EntrySet(DOMAIN summaries)
  /\ summaries \in [DOMAIN summaries -> SummaryMinutes \cup {DriveCallFailed}]

DetailsAreRouted(details) ==
  /\ EntrySet(DOMAIN details)
  /\ details \in [DOMAIN details -> DetailAnswers \cup {DriveCallFailed}]
  /\ Cardinality(DOMAIN details) <= MaxDetails

LEMMA DetailsAreBounded ==
  ASSUME NEW summaries, SummariesAreRouted(summaries),
         NEW details \in [Detailed(summaries) -> DetailAnswers \cup {DriveCallFailed}]
  PROVE  DetailsAreRouted(details)
<1> DEFINE R == Routed(summaries)
           minutes == [e \in R |-> summaries[e]]
<1>1. R \subseteq DOMAIN summaries /\ \A e \in R : summaries[e] \in Int
  BY DrivingAssumption DEF SummariesAreRouted, Routed
<1>2. EntrySet(R) /\ \A e \in R : minutes[e] \in Int
  <2> HIDE DEF R
  <2> QED
    BY <1>1 DEF SummariesAreRouted, EntrySet
<1>3. Detailed(summaries) = Quickest(R, minutes, MaxDetails)
  BY DEF Detailed
<1>4. Detailed(summaries) \subseteq R
  BY <1>3 DEF Quickest
<1>5. Cardinality(Detailed(summaries)) <= MaxDetails
  <2> HIDE DEF R, minutes
  <2>1. Numbered(R) /\ MaxDetails \in Nat
    BY <1>2, EntrySetsAreNumbered, DrivingAssumption
  <2> QED
    BY <1>2, <1>3, <2>1, QuickestAreFew
<1>6. EntrySet(Detailed(summaries))
  <2> HIDE DEF R
  <2> QED
    BY <1>2, <1>4 DEF EntrySet
<1>7. DOMAIN details = Detailed(summaries)
  OBVIOUS
<1> QED
  BY <1>5, <1>6, <1>7 DEF DetailsAreRouted

\* What is validated was routed in detail.
LEMMA ValidatedWereRouted ==
  ASSUME NEW details, DetailsAreRouted(details)
  PROVE  /\ Validated(details) \subseteq DOMAIN details
         /\ Numbered(Validated(details))
         /\ \A e \in Validated(details) :
              /\ details[e] # DriveCallFailed /\ details[e].sustained >= SustainedMetres
              /\ details[e].minutes \in Int
         /\ \A e \in DOMAIN details :
              details[e] # DriveCallFailed /\ details[e].sustained >= SustainedMetres
                => e \in Validated(details)
<1>1. Validated(details) \subseteq DOMAIN details
  BY DEF Validated, Routed
<1>2. EntrySet(Validated(details))
  BY <1>1 DEF DetailsAreRouted, EntrySet
<1>3. \A e \in Validated(details) :
              /\ details[e] # DriveCallFailed /\ details[e].sustained >= SustainedMetres
              /\ details[e].minutes \in Int
  BY <1>1, DrivingAssumption DEF Validated, Routed, DetailsAreRouted
<1>4. \A e \in DOMAIN details :
              details[e] # DriveCallFailed /\ details[e].sustained >= SustainedMetres
                => e \in Validated(details)
  BY DEF Validated, Routed
<1> QED
  BY <1>1, <1>2, <1>3, <1>4, EntrySetsAreNumbered

\* The selected entry is validated and no validated one is quicker.
LEMMA SelectedIsQuickest ==
  ASSUME NEW summaries, NEW details, DetailsAreRouted(details), Validated(details) # {}
  PROVE  /\ Selected(summaries, details) \in Validated(details)
         /\ \A f \in Validated(details) :
              details[Selected(summaries, details)].minutes <= details[f].minutes
<1> DEFINE V == Validated(details)
           minutes == [e \in V |-> details[e].minutes]
           chosen == CHOOSE e \in V : \A f \in V : Before(minutes, e, f)
<1>1. \A e \in V : minutes[e] = details[e].minutes /\ minutes[e] \in Int
  BY ValidatedWereRouted
<1>2. \E e \in V : \A f \in V : Before(minutes, e, f)
  <2>1. Numbered(V)
    BY ValidatedWereRouted
  <2> HIDE DEF V, minutes
  <2> QED
    BY <1>1, <2>1, OneComesFirst DEF V
<1>3. chosen \in V /\ \A f \in V : Before(minutes, chosen, f)
  <2> HIDE DEF V, minutes
  <2> QED
    BY <1>2
<1>4. \A f \in V : minutes[chosen] <= minutes[f]
  <2> HIDE DEF V, minutes, chosen
  <2> QED
    BY <1>1, <1>3 DEF Before
<1>5. Selected(summaries, details) = chosen
  BY DEF Selected
<1> HIDE DEF minutes, chosen
<1> QED
  BY <1>1, <1>3, <1>4, <1>5

\* A component in its place of a rollup: its weight, and the range of its
\* score when it has one.
IsPart(component, weight, low, high) ==
  component.weight = weight /\ (IsAssessed(component) => component.score \in low..high)

LEMMA RoadAccessTyped ==
  ASSUME NEW summaries, NEW details, DetailsAreRouted(details)
  PROVE  /\ IsPart(RoadAccess(summaries, details), 30, 250, 950)
         /\ IsAssessed(RoadAccess(summaries, details)) <=> Validated(details) # {}
         /\ Validated(details) # {} =>
              RoadAccess(summaries, details).score =
                BandScore(AccessMinuteBands, 250, details[Selected(summaries, details)].minutes)
<1>1. CASE Validated(details) = {}
  BY <1>1 DEF RoadAccess, NotAssessed, Unavailable, IsPart, IsAssessed
<1>2. CASE Validated(details) # {}
  <2> DEFINE score == BandScore(AccessMinuteBands, 250, details[Selected(summaries, details)].minutes)
  <2>1. score \in 250..950
    <3>1. details[Selected(summaries, details)].minutes \in Int
      BY <1>2, SelectedIsQuickest, ValidatedWereRouted
    <3> QED
      BY <3>1, BandScoresTyped, SMTT(20)
  <2>2. RoadAccess(summaries, details) = Calculated("major_road_access", 30, score)
    BY <1>2 DEF RoadAccess
  <2> HIDE DEF score
  <2>3. /\ IsPart(RoadAccess(summaries, details), 30, 250, 950)
        /\ IsAssessed(RoadAccess(summaries, details))
        /\ RoadAccess(summaries, details).score = score
    BY <2>1, <2>2 DEF Calculated, IsPart, IsAssessed
  <2> QED
    BY <1>2, <2>3 DEF score
<1> QED
  BY <1>1, <1>2

LEMMA PeakPenaltyTyped ==
  ASSUME NEW summaries, NEW details, DetailsAreRouted(details),
         NEW night \in OffPeakMinutes \cup {DriveCallFailed}
  PROVE  /\ IsPart(PeakPenalty(summaries, details, night), 25, 250, 950)
         /\ IsAssessed(PeakPenalty(summaries, details, night)) => Validated(details) # {}
<1>1. CASE Validated(details) = {} \/ night = DriveCallFailed
  BY <1>1 DEF PeakPenalty, NotAssessed, ProviderError, Unavailable, IsPart, IsAssessed
<1>2. CASE Validated(details) # {} /\ night # DriveCallFailed
  <2> DEFINE slower == details[Selected(summaries, details)].minutes - night
             score == BandScore(PenaltyBands, 250, Max({0, slower}))
  <2>1. slower \in Int
    <3>1. night \in Int
      BY <1>2, DrivingAssumption
    <3>2. details[Selected(summaries, details)].minutes \in Int
      BY <1>2, SelectedIsQuickest, ValidatedWereRouted
    <3> QED
      BY <3>1, <3>2
  <2>2. Max({0, slower}) \in Int
    <3> HIDE DEF slower
    <3>1. {0, slower} \in SUBSET Int /\ IsFiniteSet({0, slower}) /\ {0, slower} # {}
      <4>1. IsFiniteSet({0, slower})
        BY FewAreFinite, Zenon
      <4> QED
        BY <2>1, <4>1
    <3> QED
      BY <3>1, GreatestOf
  <2>3. score \in 250..950
    BY <2>2, BandScoresTyped, SMTT(20)
  <2>4. PeakPenalty(summaries, details, night) = Calculated("peak_access_penalty", 25, score)
    BY <1>2 DEF PeakPenalty
  <2> HIDE DEF score
  <2> QED
    BY <1>2, <2>3, <2>4 DEF Calculated, IsPart, IsAssessed
<1> QED
  BY <1>1, <1>2

\* The alternatives of the entries reached are finitely many.
LEMMA CountsAreNaturals ==
  ASSUME NEW R, IsFiniteSet(R), NEW others, \A e \in R : IsFiniteSet(others[e])
  PROVE  Cardinality(UNION {{e} \X others[e] : e \in R}) \in Nat
<1> DEFINE pairs == [e \in R |-> {e} \X others[e]]
           all == {pairs[e] : e \in R}
<1>1. \A e \in R : IsFiniteSet({e} \X others[e])
  BY FS_Singleton, FS_Product
<1>2. \A T \in all : IsFiniteSet(T)
  BY <1>1
<1>3. IsFiniteSet(all)
  <2> HIDE DEF pairs
  <2> QED
    BY ValuesOf
<1>4. UNION {{e} \X others[e] : e \in R} = UNION all
  OBVIOUS
<1>5. IsFiniteSet(UNION all)
  <2> HIDE DEF all
  <2> QED
    BY <1>2, <1>3, FS_UNION
<1> QED
  BY <1>4, <1>5, FS_CardinalityType

LEMMA LeastOfTwo ==
  ASSUME NEW a \in Int, NEW b \in Int
  PROVE  Min({a, b}) \in Int /\ Min({a, b}) <= a /\ Min({a, b}) <= b
           /\ (Min({a, b}) = a \/ Min({a, b}) = b)
<1>1. IsFiniteSet({a, b})
  BY FewAreFinite, Zenon
<1>2. Min({a, b}) \in {a, b} /\ \A y \in {a, b} : Min({a, b}) <= y
  BY <1>1, LeastOf
<1> QED
  BY <1>2

LEMMA ConnectivityTyped ==
  ASSUME NEW details, DetailsAreRouted(details),
         NEW answers \in [Destinations(details) -> Alternatives \cup {DriveCallFailed}]
  PROVE  /\ IsPart(Connectivity(details, answers), 25, 500, 950)
         /\ IsAssessed(Connectivity(details, answers)) => Validated(details) # {}
<1> DEFINE reached == {e \in Routed(answers) : answers[e].routes}
           independent == Cardinality(UNION {{e} \X Independent(answers[e].others) : e \in reached})
           partly == Cardinality(UNION {{e} \X PartlyIndependent(answers[e].others) : e \in reached})
           bonus == 500 + 120 * Min({3, Cardinality(reached)}) + 60 * Min({4, independent}) + 30 * Min({4, partly})
           score == Min({950, bonus})
<1>1. CASE Destinations(details) = {} \/ reached = {}
  BY <1>1 DEF Connectivity, NotAssessed, ProviderError, Unavailable, IsPart, IsAssessed
<1>2. CASE Destinations(details) # {} /\ reached # {}
  <2>1. Destinations(details) \subseteq Validated(details)
    BY DEF Destinations, Quickest
  <2>2. Validated(details) # {}
    BY <1>2, <2>1
  <2>3. IsFiniteSet(reached)
    <3>1. IsFiniteSet(Validated(details))
      BY ValidatedWereRouted DEF Numbered
    <3>2. reached \subseteq Validated(details)
      BY <2>1 DEF Routed
    <3> QED
      BY <3>1, <3>2, FS_Subset
  <2>4. \A e \in reached : IsFiniteSet(answers[e].others)
    BY DrivingAssumption DEF Routed
  <2>5. \A e \in reached : /\ IsFiniteSet(Independent(answers[e].others))
                           /\ IsFiniteSet(PartlyIndependent(answers[e].others))
    BY <2>4, FS_Subset DEF Independent, PartlyIndependent
  <2>6. independent \in Nat
    <3> DEFINE others == [e \in reached |-> Independent(answers[e].others)]
    <3>1. \A e \in reached : IsFiniteSet(others[e]) /\ others[e] = Independent(answers[e].others)
      BY <2>5
    <3>2. UNION {{e} \X others[e] : e \in reached}
            = UNION {{e} \X Independent(answers[e].others) : e \in reached}
      OBVIOUS
    <3> HIDE DEF others, reached
    <3> QED
      BY <2>3, <3>1, <3>2, CountsAreNaturals
  <2>7. partly \in Nat
    <3> DEFINE others == [e \in reached |-> PartlyIndependent(answers[e].others)]
    <3>1. \A e \in reached : IsFiniteSet(others[e]) /\ others[e] = PartlyIndependent(answers[e].others)
      BY <2>5
    <3>2. UNION {{e} \X others[e] : e \in reached}
            = UNION {{e} \X PartlyIndependent(answers[e].others) : e \in reached}
      OBVIOUS
    <3> HIDE DEF others, reached
    <3> QED
      BY <2>3, <3>1, <3>2, CountsAreNaturals
  <2>8. Connectivity(details, answers) = Calculated("route_connectivity", 25, score)
    BY <1>2 DEF Connectivity
  <2>9. score \in 500..950
    <3>1. Cardinality(reached) \in Nat
      BY <2>3, FS_CardinalityType
    <3> HIDE DEF reached, independent, partly
    <3>2. ASSUME NEW m \in Nat, NEW n \in Nat PROVE Min({m, n}) \in Nat
      <4>1. Min({m, n}) = m \/ Min({m, n}) = n
        <5>1. m \in Int /\ n \in Int
          OBVIOUS
        <5> QED
          BY <5>1, LeastOfTwo, Zenon
      <4> QED
        BY <4>1
    <3>3. \A a, b, c \in Nat : 500 + 120 * a + 60 * b + 30 * c \in Nat
                               /\ 500 + 120 * a + 60 * b + 30 * c >= 500
      OBVIOUS
    <3>4. bonus \in Nat /\ bonus >= 500
      <4>1. Min({3, Cardinality(reached)}) \in Nat
        BY <3>1, <3>2
      <4>2. Min({4, independent}) \in Nat
        BY <2>6, <3>2
      <4>3. Min({4, partly}) \in Nat
        BY <2>7, <3>2
      <4> QED
        BY <3>3, <4>1, <4>2, <4>3
    <3> HIDE DEF bonus
    <3>5. ASSUME NEW m \in Nat, m >= 500 PROVE Min({m, bonus}) \in 500..m
      <4>1. m \in Int /\ bonus \in Int
        BY <3>4
      <4>2. Min({m, bonus}) <= m /\ (Min({m, bonus}) = m \/ Min({m, bonus}) = bonus)
        BY <4>1, LeastOfTwo, Zenon
      <4> QED
        BY <3>4, <3>5, <4>2
    <3> QED
      BY <3>5
  <2> HIDE DEF score
  <2> QED
    BY <2>2, <2>8, <2>9 DEF Calculated, IsPart, IsAssessed
<1> QED
  BY <1>1, <1>2

LEMMA CapacityScoreTyped ==
  ASSUME NEW lots \in Nat
  PROVE  CapacityScore(lots) \in 400..1000
<1> DEFINE counted == Min({lots, 500})
<1>1. counted \in 0..500
  <2>1. lots \in Int /\ 500 \in Int
    OBVIOUS
  <2>2. ASSUME NEW m \in Nat PROVE Min({lots, m}) \in 0..m
    <3>1. lots \in Int /\ m \in Int
      OBVIOUS
    <3>2. Min({lots, m}) <= m /\ (Min({lots, m}) = m \/ Min({lots, m}) = lots)
      BY <3>1, LeastOfTwo, Zenon
    <3> QED
      BY <3>2
  <2> QED
    BY <2>2
<1> HIDE DEF counted
<1>2. (2 * (6 * counted) + 5) \div (2 * 5) \in 0..600
  <2>1. 6 * counted \in Int /\ 5 * 0 <= 6 * counted /\ 6 * counted <= 5 * 600
    BY <1>1
  <2> DEFINE n == 6 * counted
  <2> HIDE DEF n
  <2>2. ASSUME NEW d \in Nat, d = 5 PROVE (2 * n + d) \div (2 * d) \in 0..600
    <3>1. d > 0 /\ n \in Int /\ d * 0 <= n /\ n <= d * 600
      BY <2>1, <2>2 DEF n
    <3> QED
      BY <3>1, RoundedBetween
  <2> QED
    BY <2>2 DEF n
<1> QED
  BY <1>2 DEF CapacityScore, Nearest, counted

\* Points of a part are between nothing and its weight times the most.
LEMMA PointsBetween ==
  ASSUME NEW weight \in Nat, NEW most \in Nat, NEW score \in 0..most
  PROVE  weight * score \in Int /\ 0 <= weight * score /\ weight * score <= weight * most
OBVIOUS

LEMMA ParkingTyped ==
  ASSUME NEW carparks \in Parkings,
         NEW walks \in [carparks -> ParkingWalks \cup {DriveCallFailed}], NEW live \in BOOLEAN
  PROVE  IsPart(Parking(walks, live), 20, 0, 1100)
<1> DEFINE practical == {c \in Routed(walks) : walks[c] <= PracticalWalk}
           primary == CHOOSE c \in practical : \A d \in practical : Before(walks, c, d)
           parts == ParkingParts(primary, walks[primary], Cardinality(practical), live)
           points == Sum5([i \in 1..5 |-> parts[i].weight * parts[i].score])
           weight == Sum5([i \in 1..5 |-> parts[i].weight])
<1>1. CASE practical = {}
  BY <1>1 DEF Parking, NotAssessed, ProviderError, Unavailable, IsPart, IsAssessed
<1>2. CASE practical # {}
  <2>1. practical \subseteq carparks /\ \A c \in practical : walks[c] \in Int
    <3>1. practical \subseteq carparks /\ \A c \in practical : walks[c] # DriveCallFailed
      BY DEF Routed
    <3>2. ParkingWalks \subseteq Int
      BY DrivingAssumption
    <3> HIDE DEF practical
    <3> QED
      BY <3>1, <3>2
  <2>2. Numbered(practical)
    <3>1. Numbered(carparks)
      BY DrivingAssumption
    <3>2. IsFiniteSet(practical)
      <4> HIDE DEF practical
      <4> QED
        BY <2>1, <3>1, FS_Subset DEF Numbered
    <3> HIDE DEF practical
    <3> QED
      BY <2>1, <3>1, <3>2 DEF Numbered
  <2>3. primary \in practical
    <3> HIDE DEF practical
    <3>1. \E c \in practical : \A d \in practical : Before(walks, c, d)
      BY <1>2, <2>1, <2>2, OneComesFirst
    <3> QED
      BY <3>1
  <2>4. Cardinality(practical) \in Nat /\ Cardinality(practical) >= 1
    <3> HIDE DEF practical
    <3>1. IsFiniteSet(practical)
      BY <2>2 DEF Numbered
    <3> QED
      BY <1>2, <3>1, FS_CardinalityType, FS_EmptySet
  <2>5. /\ primary.shelter \in 0..1000
        /\ primary.restrictions = Unrecorded \/ primary.restrictions \in 0..1000
        /\ primary.lots = Unrecorded \/ primary.lots \in Nat
        /\ primary.typical = Unrecorded \/ primary.typical \in 0..1000
    <3> HIDE DEF primary, practical
    <3> QED
      BY <2>1, <2>3, DrivingAssumption
  <2>6. walks[primary] \in Int
    BY <2>1, <2>3
  <2> HIDE DEF primary
  <2> DEFINE near == Cardinality(practical)
             further == Min({100, 20 * (near - 1)})
             walking == BandScore(WalkBands, 250, walks[primary]) + further
             capacity == IF live /\ primary.lots \notin {Unrecorded, 0} THEN CapacityScore(primary.lots)
                         ELSE Unrecorded
             Recorded(w, score) ==
               IF score = Unrecorded THEN [weight |-> 0, score |-> 0]
               ELSE [weight |-> w, score |-> score]
  <2>7. walking \in 0..1100
    <3> HIDE DEF near
    <3>1. near \in Nat /\ near >= 1
      BY <2>4 DEF near
    <3>2. ASSUME NEW m \in Nat, NEW n \in Nat PROVE Min({m, n}) \in 0..m
      <4>1. m \in Int /\ n \in Int
        OBVIOUS
      <4>2. Min({m, n}) <= m /\ (Min({m, n}) = m \/ Min({m, n}) = n)
        BY <4>1, LeastOfTwo, Zenon
      <4> QED
        BY <4>2
    <3>3. 20 * (near - 1) \in Nat
      BY <3>1
    <3>4. further \in 0..100
      BY <3>2, <3>3
    <3> DEFINE band == BandScore(WalkBands, 250, walks[primary])
    <3>5. band \in 250..1000
      BY <2>6, BandScoresTyped, SMTT(20)
    <3>6. walking = band + further
      OBVIOUS
    <3> HIDE DEF further, band, walking
    <3> QED
      BY <3>4, <3>5, <3>6
  <2>8. capacity = Unrecorded \/ capacity \in 0..1000
    BY <2>5, CapacityScoreTyped
  <2>9. parts = <<[weight |-> 35, score |-> walking], Recorded(20, primary.shelter),
                  Recorded(10, primary.restrictions), Recorded(15, capacity),
                  Recorded(20, primary.typical)>>
    BY DEF ParkingParts
  <2> HIDE DEF walking, capacity, parts
  <2>10. ASSUME NEW w \in Nat, NEW score, score = Unrecorded \/ score \in 0..1000
         PROVE  Recorded(w, score).weight \in Nat /\ Recorded(w, score).score \in 0..1100
    BY <2>10
  <2>11. /\ parts[1].weight = 35 /\ parts[1].score \in 0..1100
         /\ \A i \in 2..5 : parts[i].weight \in Nat /\ parts[i].score \in 0..1100
    <3>1. /\ Recorded(20, primary.shelter).weight \in Nat
          /\ Recorded(20, primary.shelter).score \in 0..1100
      BY <2>5, <2>10
    <3>2. /\ Recorded(10, primary.restrictions).weight \in Nat
          /\ Recorded(10, primary.restrictions).score \in 0..1100
      BY <2>5, <2>10
    <3>3. /\ Recorded(15, capacity).weight \in Nat
          /\ Recorded(15, capacity).score \in 0..1100
      BY <2>8, <2>10
    <3>4. /\ Recorded(20, primary.typical).weight \in Nat
          /\ Recorded(20, primary.typical).score \in 0..1100
      BY <2>5, <2>10
    <3> HIDE DEF Recorded
    <3>5. /\ parts[1] = [weight |-> 35, score |-> walking] /\ parts[2] = Recorded(20, primary.shelter)
          /\ parts[3] = Recorded(10, primary.restrictions) /\ parts[4] = Recorded(15, capacity)
          /\ parts[5] = Recorded(20, primary.typical)
      BY <2>9
    <3>6. parts[1].weight = 35 /\ parts[1].score \in 0..1100
      BY <3>5, <2>7
    <3>7. /\ parts[2].weight \in Nat /\ parts[2].score \in 0..1100
          /\ parts[3].weight \in Nat /\ parts[3].score \in 0..1100
      BY <3>1, <3>2, <3>5
    <3>8. /\ parts[4].weight \in Nat /\ parts[4].score \in 0..1100
          /\ parts[5].weight \in Nat /\ parts[5].score \in 0..1100
      BY <3>3, <3>4, <3>5
    <3>9. \A i \in 2..5 : i = 2 \/ i = 3 \/ i = 4 \/ i = 5
      OBVIOUS
    <3>10. ASSUME NEW i \in 2..5 PROVE parts[i].weight \in Nat /\ parts[i].score \in 0..1100
      <4>1. CASE i = 2 \/ i = 3
        BY <4>1, <3>7
      <4>2. CASE i = 4 \/ i = 5
        BY <4>2, <3>8
      <4> QED
        BY <4>1, <4>2, <3>9
    <3> QED
      BY <3>6, <3>10
  <2>12. \A i \in 1..5 : /\ parts[i].weight \in Nat
                         /\ parts[i].weight * parts[i].score \in Int
                         /\ 0 <= parts[i].weight * parts[i].score
                         /\ parts[i].weight * parts[i].score <= parts[i].weight * 1100
    <3> SUFFICES ASSUME NEW i \in 1..5
                 PROVE  /\ parts[i].weight \in Nat
                        /\ parts[i].weight * parts[i].score \in Int
                        /\ 0 <= parts[i].weight * parts[i].score
                        /\ parts[i].weight * parts[i].score <= parts[i].weight * 1100
      OBVIOUS
    <3>1. parts[i].weight \in Nat /\ parts[i].score \in 0..1100
      BY <2>11
    <3>2. ASSUME NEW most \in Nat, most = 1100
          PROVE  /\ parts[i].weight * parts[i].score \in Int
                 /\ 0 <= parts[i].weight * parts[i].score
                 /\ parts[i].weight * parts[i].score <= parts[i].weight * most
      <4>1. parts[i].weight \in Nat /\ parts[i].score \in 0..most
        BY <3>1, <3>2
      <4> QED
        BY <4>1, PointsBetween
    <3> QED
      BY <3>1, <3>2
  <2> DEFINE point == [i \in 1..5 |-> parts[i].weight * parts[i].score]
             heavy == [i \in 1..5 |-> parts[i].weight]
  <2>13. \A i \in 1..5 : /\ heavy[i] \in Nat /\ point[i] \in Int
                         /\ 0 <= point[i] /\ point[i] <= heavy[i] * 1100
    BY <2>12
  <2>14. heavy[1] = 35
    BY <2>11
  <2>15. points = Sum5(point) /\ weight = Sum5(heavy)
    OBVIOUS
  <2> HIDE DEF point, heavy, points, weight
  <2>16. /\ points \in Int /\ weight \in Nat /\ weight > 0
         /\ weight * 0 <= points /\ points <= weight * 1100
    BY <2>13, <2>14, <2>15 DEF Sum5
  <2>17. (2 * points + weight) \div (2 * weight) \in 0..1100
    BY <2>16, RoundedBetween
  <2>18. Parking(walks, live) = NotAssessed("parking_convenience", 20)
           \/ Parking(walks, live) = Calculated("parking_convenience", 20, Nearest(points, weight))
    BY <1>2 DEF Parking, points, weight, parts, primary
  <2> HIDE DEF practical
  <2> QED
    BY <2>17, <2>18 DEF Nearest, Calculated, NotAssessed, Unavailable, IsPart, IsAssessed
<1> QED
  BY <1>1, <1>2

(***************************************************************************)
(* The rollup, and the invariant.                                          *)
(***************************************************************************)

\* Without a validated entry only parking has a score, and its weight is not
\* enough; with one, the scores and weights keep the overall score below 100.
LEMMA RollupNeedsTheRoad ==
  ASSUME NEW road, NEW connectivity, NEW peak, NEW parking,
         IsPart(road, 30, 250, 950), IsPart(connectivity, 25, 500, 950),
         IsPart(peak, 25, 250, 950), IsPart(parking, 20, 0, 1100),
         IsAssessed(connectivity) => IsAssessed(road), IsAssessed(peak) => IsAssessed(road),
         Rollup(<<road, connectivity, peak, parking>>).overall # NoScore
  PROVE  /\ IsAssessed(road)
         /\ Rollup(<<road, connectivity, peak, parking>>).overall \in 0..1000
<1> DEFINE components == <<road, connectivity, peak, parking>>
           assessed == AssessedIn(components)
           weights == [i \in Shown |-> IF i \in assessed THEN components[i].weight ELSE 0]
           points == [i \in Shown |-> IF i \in assessed THEN components[i].score * components[i].weight ELSE 0]
           all == [i \in Shown |-> IF i \in Shown THEN components[i].weight ELSE 0]
           weight == TotalOf(weights)
           sum == TotalOf(points)
<1>1. /\ components[1] = road /\ components[2] = connectivity
      /\ components[3] = peak /\ components[4] = parking
  OBVIOUS
<1>2. /\ 1 \in assessed <=> IsAssessed(road)
      /\ 2 \in assessed <=> IsAssessed(connectivity)
      /\ 3 \in assessed <=> IsAssessed(peak)
      /\ 4 \in assessed <=> IsAssessed(parking)
  BY <1>1 DEF AssessedIn, Shown
<1>3. /\ WeightOf(components, assessed) = weight /\ WeightedScore(components, assessed) = sum
      /\ WeightOf(components, Shown) = TotalOf(all)
  BY DEF WeightOf, WeightedScore
<1>4. Rollup(components).overall =
        IF Counts(components, assessed)
        THEN IF assessed = {} THEN NoScore
             ELSE Nearest(WeightedScore(components, assessed), WeightOf(components, assessed))
        ELSE NoScore
  BY DEF Rollup
<1>5. TotalOf(all) = 100
  BY <1>1 DEF TotalOf, Shown, IsPart
<1> HIDE DEF components, assessed, all
<1>6. Counts(components, assessed) /\ Rollup(components).overall = Nearest(sum, weight)
  BY <1>3, <1>4 DEF components, Counts
<1>7. 100 * weight >= 60 * 100
  BY <1>3, <1>5, <1>6 DEF Counts
<1>8. /\ weights[1] = IF IsAssessed(road) THEN 30 ELSE 0
      /\ weights[2] = IF IsAssessed(connectivity) THEN 25 ELSE 0
      /\ weights[3] = IF IsAssessed(peak) THEN 25 ELSE 0
      /\ weights[4] = IF IsAssessed(parking) THEN 20 ELSE 0
  BY <1>1, <1>2 DEF IsPart, Shown
<1>9. /\ points[1] = IF IsAssessed(road) THEN road.score * 30 ELSE 0
      /\ points[2] = IF IsAssessed(connectivity) THEN connectivity.score * 25 ELSE 0
      /\ points[3] = IF IsAssessed(peak) THEN peak.score * 25 ELSE 0
      /\ points[4] = IF IsAssessed(parking) THEN parking.score * 20 ELSE 0
  BY <1>1, <1>2 DEF IsPart, Shown
<1> HIDE DEF weights, points
<1>10. IsAssessed(road)
  BY <1>7, <1>8 DEF TotalOf
<1>11. /\ sum \in Int /\ weight \in Nat /\ weight > 0
       /\ weight * 0 <= sum /\ sum <= weight * 1000
  <2>1. /\ points[1] \in Int /\ 0 <= points[1] /\ points[1] <= 950 * weights[1] /\ weights[1] = 30
    BY <1>8, <1>9, <1>10, SMTT(20) DEF IsPart
  <2>2. /\ points[2] \in Int /\ 0 <= points[2] /\ points[2] <= 950 * weights[2]
        /\ weights[2] \in {0, 25}
    BY <1>8, <1>9 DEF IsPart
  <2>3. /\ points[3] \in Int /\ 0 <= points[3] /\ points[3] <= 950 * weights[3]
        /\ weights[3] \in {0, 25}
    BY <1>8, <1>9, SMTT(20) DEF IsPart
  <2>4. /\ points[4] \in Int /\ 0 <= points[4] /\ points[4] <= 1100 * weights[4]
        /\ weights[4] \in {0, 20}
    <3>1. CASE ~IsAssessed(parking)
      BY <1>8, <1>9, <3>1
    <3>2. CASE IsAssessed(parking)
      <4>1. parking.score \in 0..1100
        BY <3>2 DEF IsPart
      <4>2. points[4] = parking.score * 20 /\ weights[4] = 20
        BY <1>8, <1>9, <3>2
      <4> QED
        BY <4>1, <4>2, SMTT(20)
    <3> QED
      BY <3>1, <3>2
  <2>5. weight = weights[1] + weights[2] + weights[3] + weights[4] /\ weight >= 60
    BY <1>7, <2>1, <2>2, <2>3, <2>4 DEF TotalOf
  <2>6. sum = points[1] + points[2] + points[3] + points[4]
    BY DEF TotalOf
  <2> HIDE DEF sum, weight
  <2> QED
    BY <2>1, <2>2, <2>3, <2>4, <2>5, <2>6
<1> HIDE DEF sum, weight
<1>12. ASSUME NEW most \in Nat, most = 1000
       PROVE  (2 * sum + weight) \div (2 * weight) \in 0..most
  <2>1. weight * 0 <= sum /\ sum <= weight * most
    BY <1>11, <1>12
  <2> QED
    BY <1>11, <2>1, RoundedBetween
<1>13. Nearest(sum, weight) \in 0..1000
  BY <1>12 DEF Nearest
<1> QED
  BY <1>6, <1>10, <1>13 DEF components

\* What each stage has so far.  The first three components are those of the
\* summaries and the details they came with.
DriveInv ==
  /\ drive.stage \in {"none", "summarised", "detailed", "connected", "scored"}
  /\ drive.stage = "summarised" => SummariesAreRouted(drive.summaries)
  /\ drive.stage \in {"detailed", "connected", "scored"} => DetailsAreRouted(drive.details)
  /\ drive.stage = "connected" =>
       \E answers \in [Destinations(drive.details) -> Alternatives \cup {DriveCallFailed}],
          night \in OffPeakMinutes \cup {DriveCallFailed} :
         drive.parts = <<RoadAccess(drive.summaries, drive.details),
                         Connectivity(drive.details, answers),
                         PeakPenalty(drive.summaries, drive.details, night)>>
  /\ DrivingScoreHasEvidence

LEMMA ScoredHasEvidence ==
  ASSUME NEW carparks \in Parkings,
         NEW walks \in [carparks -> ParkingWalks \cup {DriveCallFailed}], NEW live \in BOOLEAN,
         DriveInv, RouteParking(walks, live)
  PROVE  DriveInv'
<1> DEFINE details == drive.details
           summaries == drive.summaries
           parking == Parking(walks, live)
           chosen == Selected(summaries, details)
<1>1. DetailsAreRouted(details) /\ drive.stage = "connected"
  BY DEF DriveInv, RouteParking
<1>2. PICK answers \in [Destinations(details) -> Alternatives \cup {DriveCallFailed}],
           night \in OffPeakMinutes \cup {DriveCallFailed} :
             drive.parts = <<RoadAccess(summaries, details), Connectivity(details, answers),
                             PeakPenalty(summaries, details, night)>>
  BY <1>1 DEF DriveInv
<1> DEFINE road == RoadAccess(summaries, details)
           connectivity == Connectivity(details, answers)
           peak == PeakPenalty(summaries, details, night)
<1>3. /\ IsPart(road, 30, 250, 950) /\ IsPart(connectivity, 25, 500, 950)
      /\ IsPart(peak, 25, 250, 950) /\ IsPart(parking, 20, 0, 1100)
  BY <1>1, RoadAccessTyped, ConnectivityTyped, PeakPenaltyTyped, ParkingTyped
<1>4. /\ IsAssessed(road) <=> Validated(details) # {}
      /\ IsAssessed(connectivity) => IsAssessed(road)
      /\ IsAssessed(peak) => IsAssessed(road)
  BY <1>1, RoadAccessTyped, ConnectivityTyped, PeakPenaltyTyped
<1>5. Validated(details) # {} =>
        /\ road.score = BandScore(AccessMinuteBands, 250, details[chosen].minutes)
        /\ chosen \in DOMAIN details
        /\ details[chosen] # DriveCallFailed /\ details[chosen].sustained >= SustainedMetres
        /\ \A f \in DOMAIN details :
             details[f] # DriveCallFailed /\ details[f].sustained >= SustainedMetres
               => details[chosen].minutes <= details[f].minutes
  BY <1>1, RoadAccessTyped, SelectedIsQuickest, ValidatedWereRouted
<1>6. <<drive.parts[1], drive.parts[2], drive.parts[3], parking>> = <<road, connectivity, peak, parking>>
  BY <1>2
<1>7. /\ drive'.stage = "scored" /\ drive'.details = details
      /\ drive'.model = Rollup(<<road, connectivity, peak, parking>>)
  <2>1. drive' = [stage |-> "scored", summaries |-> drive.summaries, details |-> drive.details,
                  model |-> Rollup(<<drive.parts[1], drive.parts[2], drive.parts[3], parking>>)]
    BY DEF RouteParking
  <2> HIDE DEF road, connectivity, peak, parking
  <2> QED
    BY <1>6, <2>1
<1> HIDE DEF road, connectivity, peak, parking, chosen
<1>8. drive'.model.components[1] = road
  BY <1>7 DEF Rollup
<1>9. drive'.model.overall # NoScore => drive'.model.overall \in 0..1000 /\ Validated(details) # {}
  BY <1>3, <1>4, <1>7, RollupNeedsTheRoad
<1>10. DrivingScoreHasEvidence'
  BY <1>1, <1>5, <1>7, <1>8, <1>9 DEF DrivingScoreHasEvidence, DetailsAreRouted
<1> QED
  BY <1>1, <1>7, <1>10 DEF DriveInv

\* A driving score that the recommendation may read rests on an entry whose
\* detailed route stays on the major road (compute_driving_model).
THEOREM DrivingScoresHaveEvidence == DriveSpec => []DrivingScoreHasEvidence
<1>1. DriveInit => DriveInv
  BY DEF DriveInit, DriveInv, NotDriven, DrivingScoreHasEvidence
<1>2. DriveInv /\ [DriveNext]_drive => DriveInv'
  <2> SUFFICES ASSUME DriveInv, [DriveNext]_drive PROVE DriveInv'
    OBVIOUS
  <2>1. ASSUME NEW entries \in Entrances,
               NEW summaries \in [Quickest(entries, [e \in entries |-> 0], MaxSummaries)
                                    -> SummaryMinutes \cup {DriveCallFailed}],
               RouteSummaries(summaries)
        PROVE  DriveInv'
    <3>1. DOMAIN summaries \subseteq entries
      BY DEF Quickest
    <3>2. SummariesAreRouted(summaries)
      BY <3>1 DEF SummariesAreRouted, EntrySet
    <3> QED
      BY <2>1, <3>2 DEF RouteSummaries, DriveInv, DrivingScoreHasEvidence
  <2>2. ASSUME drive.stage = "summarised",
               NEW details \in [Detailed(drive.summaries) -> DetailAnswers \cup {DriveCallFailed}],
               RouteDetails(details)
        PROVE  DriveInv'
    <3>1. DetailsAreRouted(details)
      BY <2>2, DetailsAreBounded DEF DriveInv
    <3> QED
      BY <2>2, <3>1 DEF RouteDetails, DriveInv, DrivingScoreHasEvidence
  <2>3. ASSUME drive.stage = "detailed",
               NEW answers \in [Destinations(drive.details) -> Alternatives \cup {DriveCallFailed}],
               NEW night \in OffPeakMinutes \cup {DriveCallFailed},
               RouteAlternatives(answers, night)
        PROVE  DriveInv'
    BY <2>3 DEF RouteAlternatives, DriveInv, DrivingScoreHasEvidence
  <2>4. ASSUME NEW carparks \in Parkings,
               NEW walks \in [carparks -> ParkingWalks \cup {DriveCallFailed}], NEW live \in BOOLEAN,
               RouteParking(walks, live)
        PROVE  DriveInv'
    BY <2>4, ScoredHasEvidence
  <2>5. CASE UNCHANGED drive
    BY <2>5 DEF DriveInv, DrivingScoreHasEvidence
  <2> QED
    BY <2>1, <2>2, <2>3, <2>4, <2>5 DEF DriveNext
<1>3. DriveInv => DrivingScoreHasEvidence
  BY DEF DriveInv
<1> QED
  BY <1>1, <1>2, <1>3, PTL DEF DriveSpec

-----------------------------------------------------------------------------
(***************************************************************************)
(* Bus options and corridors.                                              *)
(***************************************************************************)

\* The services of finitely many options offer finitely many departures, and
\* more services offer no fewer.
LEMMA DeparturesAreFinite ==
  ASSUME NEW network, NEW services, IsFiniteSet(services),
         \A s \in services : network.interval[s] = NoTimetable \/ network.interval[s] \in 1..300
  PROVE  IsFiniteSet(Departures(network, services))
<1> DEFINE timed == {t \in services : network.interval[t] # NoTimetable}
           row == [s \in timed |-> {s} \X (1..(300 \div network.interval[s]))]
           rows == {row[s] : s \in timed}
<1>1. IsFiniteSet(timed)
  BY FS_Subset
<1>2. ASSUME NEW s \in timed PROVE IsFiniteSet(row[s])
  <2>1. network.interval[s] \in Nat /\ network.interval[s] > 0
    OBVIOUS
  <2>2. ASSUME NEW most \in Nat PROVE most \div network.interval[s] \in Int
    BY <2>1, Quotient
  <2>3. 1 \in Int /\ 300 \div network.interval[s] \in Int
    BY <2>2
  <2>4. IsFiniteSet(1..(300 \div network.interval[s]))
    BY <2>3, FS_Interval
  <2>5. IsFiniteSet({s} \X (1..(300 \div network.interval[s])))
    BY <2>4, FS_Singleton, FS_Product
  <2> QED
    BY <2>5
<1>3. IsFiniteSet(rows)
  <2> HIDE DEF row, timed
  <2> QED
    BY <1>1, ValuesOf
<1>4. \A r \in rows : IsFiniteSet(r)
  <2> HIDE DEF row, timed
  <2> QED
    BY <1>2
<1>5. IsFiniteSet(UNION rows)
  <2> HIDE DEF rows
  <2> QED
    BY <1>3, <1>4, FS_UNION
<1>6. Departures(network, services) = UNION rows
  BY ZenonT(30) DEF Departures
<1> QED
  BY <1>5, <1>6

LEMMA OptionsAreFinite ==
  ASSUME NEW network, IsNetwork(network), NEW stops, IsFiniteSet(stops)
  PROVE  /\ IsFiniteSet(DirectOptions(network, stops))
         /\ \A o \in DirectOptions(network, stops) : o.service \in DOMAIN network.route
<1> DEFINE boarded == [stop \in stops |-> {BoardAt(network, s, stop) : s \in ServicesAt(network, stop)}]
           all == {boarded[stop] : stop \in stops}
<1>1. ASSUME NEW stop \in stops PROVE IsFiniteSet(boarded[stop])
  <2> DEFINE option == [s \in ServicesAt(network, stop) |-> BoardAt(network, s, stop)]
  <2>1. IsFiniteSet(ServicesAt(network, stop))
    <3>1. ServicesAt(network, stop) \in SUBSET DOMAIN network.route
      BY DEF ServicesAt
    <3> QED
      BY <3>1, FS_Subset DEF IsNetwork
  <2>2. IsFiniteSet({option[s] : s \in ServicesAt(network, stop)})
    <3> HIDE DEF option
    <3> QED
      BY <2>1, ValuesOf
  <2>3. boarded[stop] = {option[s] : s \in ServicesAt(network, stop)}
    OBVIOUS
  <2> QED
    BY <2>2, <2>3
<1>2. IsFiniteSet(all)
  <2> HIDE DEF boarded
  <2> QED
    BY ValuesOf
<1>3. \A b \in all : IsFiniteSet(b)
  <2> HIDE DEF boarded
  <2> QED
    BY <1>1
<1>4. IsFiniteSet(UNION all)
  <2> HIDE DEF all
  <2> QED
    BY <1>2, <1>3, FS_UNION
<1>5. DirectOptions(network, stops) = UNION all
  BY DEF DirectOptions
<1>6. \A o \in DirectOptions(network, stops) : o.service \in DOMAIN network.route
  <2>1. ASSUME NEW stop \in stops, NEW s \in ServicesAt(network, stop)
        PROVE  BoardAt(network, s, stop).service \in DOMAIN network.route
    BY DEF BoardAt, ServicesAt
  <2> QED
    BY <2>1 DEF DirectOptions
<1> QED
  BY <1>4, <1>5, <1>6

LEMMA CorridorsAreFinite ==
  ASSUME NEW options, IsFiniteSet(options)
  PROVE  IsFiniteSet(Corridors(options)) /\ \A c \in Corridors(options) : c \subseteq options
<1>1. Corridors(options) \in SUBSET (SUBSET options)
  BY DEF Corridors
<1>2. IsFiniteSet(SUBSET options)
  BY FS_SUBSET
<1>3. IsFiniteSet(Corridors(options))
  BY <1>1, <1>2, FS_Subset
<1> QED
  BY <1>1, <1>3

\* The wait of a corridor that comes often enough.
LEMMA WaitsTyped ==
  ASSUME NEW network, IsNetwork(network), NEW options, IsFiniteSet(options),
         \A o \in options : o.service \in DOMAIN network.route,
         NEW c \in Corridors(options), Frequent(network, c)
  PROVE  WaitFor(network, c) \in Int
<1> DEFINE services == {o.service : o \in c}
<1>1. IsFiniteSet(c) /\ c \subseteq options
  BY CorridorsAreFinite, FS_Subset
<1>2. IsFiniteSet(services) /\ services \subseteq DOMAIN network.route
  <2> DEFINE of == [o \in c |-> o.service]
  <2>1. IsFiniteSet({of[o] : o \in c})
    <3> HIDE DEF of
    <3> QED
      BY <1>1, ValuesOf
  <2>2. services = {of[o] : o \in c}
    OBVIOUS
  <2> QED
    BY <1>1, <2>1, <2>2
<1>3. PICK stop \in {o.stop : o \in c} :
        Cardinality(Departures(network, {o.service : o \in {d \in c : d.stop = stop}})) >= 20
  BY DEF Frequent
<1> DEFINE here == {o.service : o \in {d \in c : d.stop = stop}}
<1>4. here \subseteq services
  OBVIOUS
<1>5. Departures(network, here) \subseteq Departures(network, services)
  BY <1>4 DEF Departures
<1>6. IsFiniteSet(Departures(network, services))
  BY <1>2, DeparturesAreFinite DEF IsNetwork
<1>7. /\ Cardinality(Departures(network, services)) \in Nat
      /\ Cardinality(Departures(network, here)) \in Nat
      /\ Cardinality(Departures(network, here)) <= Cardinality(Departures(network, services))
  BY <1>5, <1>6, ManyInSubset
<1>8. Cardinality(Departures(network, services)) >= 20
  BY <1>3, <1>7
<1> DEFINE n == Cardinality(Departures(network, services))
<1>9. WaitFor(network, c) = Min({100, Nearest(1500, n)})
  BY DEF WaitFor
<1>10. n \in Nat /\ n >= 20
  BY <1>7, <1>8
<1> HIDE DEF n
<1>11. ASSUME NEW a \in Nat PROVE Nearest(a, n) \in Int
  <2>1. 2 * a + n \in Int /\ 2 * n \in Nat /\ 2 * n > 0
    BY <1>10
  <2> QED
    BY <2>1, Quotient DEF Nearest
<1>12. Nearest(1500, n) \in Int /\ 100 \in Int
  BY <1>11
<1>13. Min({100, Nearest(1500, n)}) \in Int
  <2>1. ASSUME NEW a \in Int, NEW b \in Int PROVE Min({a, b}) \in Int
    BY LeastOfTwo
  <2> QED
    BY <1>12, <2>1
<1> QED
  BY <1>9, <1>13

LEMMA UsableTyped ==
  ASSUME NEW place \in Places, NEW stop
  PROVE  /\ IsFiniteSet(UsableAt(place, stop))
         /\ \A c \in UsableAt(place, stop) : c.wait \in Int
<1> DEFINE network == place.network
           options == DirectOptions(network, {stop})
           frequent == {c \in Corridors(options) : Frequent(network, c)}
           seen == [c \in frequent |-> [services |-> {o.service : o \in c}, wait |-> WaitFor(network, c)]]
<1>1. IsNetwork(network)
  BY TransitAssumption
<1>2. IsFiniteSet(options) /\ \A o \in options : o.service \in DOMAIN network.route
  <2> HIDE DEF network
  <2> QED
    BY <1>1, FS_Singleton, OptionsAreFinite
<1>3. IsFiniteSet(frequent)
  <2>1. frequent \in SUBSET Corridors(options)
    OBVIOUS
  <2> QED
    BY <1>2, <2>1, CorridorsAreFinite, FS_Subset
<1>4. \A c \in frequent : WaitFor(network, c) \in Int
  <2> HIDE DEF network, options
  <2> QED
    BY <1>1, <1>2, WaitsTyped
<1>5. IsFiniteSet({seen[c] : c \in frequent})
  <2> HIDE DEF seen, frequent
  <2> QED
    BY <1>3, ValuesOf
<1>6. UsableAt(place, stop) = {} \/ UsableAt(place, stop) = {seen[c] : c \in frequent}
  BY DEF UsableAt
<1>7. \A c \in frequent : seen[c].wait \in Int
  BY <1>4
<1> QED
  BY <1>5, <1>6, <1>7, FS_EmptySet

-----------------------------------------------------------------------------
(***************************************************************************)
(* The rail entries that Access confirms.                                  *)
(***************************************************************************)
WalksOf(place) == [Targets(place) -> WalkAnswers \cup {CallFailed}]
FeedersOf(place, walks) ==
  [DOMAIN FeederPairs(place, walks) -> FeederAnswers \cup {CallFailed}]

LEMMA WholeHundredths == ASSUME NEW a \in Int PROVE Nearest(a, 100) \in Int
<1>1. 2 * a + 100 \in Int /\ 200 \in Nat /\ 200 > 0
  OBVIOUS
<1>2. (2 * a + 100) \div 200 \in Int
  BY <1>1, Quotient
<1> QED
  BY <1>2 DEF Nearest

\* Every usable stop has its turn.
LEMMA UsableHaveTurns ==
  ASSUME NEW usable, usable \subseteq Int, IsFiniteSet(usable), NEW m \in 1..Cardinality(usable)
  PROVE  \E i \in usable : Cardinality({j \in usable : j <= i}) = m
<1> DEFINE before == {p \in usable \X usable : p[1] < p[2]}
           ahead == [i \in usable |-> Cardinality({j \in usable : <<j, i>> \in before})]
<1>1. Cardinality(usable) \in Nat
  BY FS_CardinalityType
<1>2. \A x, y \in usable : <<x, y>> \in before <=> x < y
  OBVIOUS
<1>3. m - 1 \in 0..(Cardinality(usable) - 1)
  BY <1>1
<1>4. \E i \in usable : ahead[i] = m - 1
  <2>1. \A x, y \in usable : x # y => (<<x, y>> \in before <=> <<y, x>> \notin before)
    BY <1>2
  <2>2. \A x \in usable : <<x, x>> \notin before
    BY <1>2
  <2>3. \A x, y, z \in usable : <<x, y>> \in before /\ <<y, z>> \in before => <<x, z>> \in before
    BY <1>2
  <2>4. \A x \in usable : ahead[x] = Cardinality({y \in usable : <<y, x>> \in before})
    OBVIOUS
  <2> HIDE DEF before, ahead
  <2>5. /\ \A k \in 0..(Cardinality(usable) - 1) : \E x \in usable : ahead[x] = k
        /\ \A x \in usable : ahead[x] \in 0..(Cardinality(usable) - 1)
        /\ \A x, y \in usable : <<x, y>> \in before => ahead[x] < ahead[y]
    BY <2>1, <2>2, <2>3, <2>4, EveryPlaceIsTaken
  <2> QED
    BY <1>3, <2>5
<1>5. PICK i \in usable : ahead[i] = m - 1
  BY <1>4
<1> DEFINE earlier == {j \in usable : j < i}
<1>6. ahead[i] = Cardinality(earlier)
  <2>1. {j \in usable : <<j, i>> \in before} = earlier
    BY <1>2
  <2> HIDE DEF earlier, before
  <2> QED
    BY <2>1
<1>7. {j \in usable : j <= i} = earlier \cup {i} /\ i \notin earlier
  <2>1. \A j \in usable : j <= i <=> j < i \/ j = i
    OBVIOUS
  <2>2. ~(i < i)
    OBVIOUS
  <2> QED
    BY <2>1, <2>2
<1>8. IsFiniteSet(earlier) /\ Cardinality(earlier) \in Nat
  BY FS_Subset, FS_CardinalityType
<1> DEFINE upTo == {j \in usable : j <= i}
<1>9. upTo = earlier \cup {i}
  BY <1>7
<1> HIDE DEF earlier, ahead, upTo
<1>10. Cardinality(upTo) = Cardinality(earlier) + 1
  BY <1>7, <1>8, <1>9, FS_AddElement
<1>11. Cardinality(upTo) = m
  BY <1>5, <1>6, <1>8, <1>10
<1> QED
  BY <1>11 DEF upTo

LEMMA FeederPairsTyped ==
  ASSUME NEW place \in Places, NEW walks
  PROVE  /\ IsFiniteSet(DOMAIN FeederPairs(place, walks))
         /\ \A k \in DOMAIN FeederPairs(place, walks) :
              /\ FeederPairs(place, walks)[k][1] \in WalkedStops(place, walks)
              /\ FeederPairs(place, walks)[k][2] \in Range(place.stations)
<1> DEFINE usable == {i \in DOMAIN place.stops : /\ place.stops[i] \in WalkedStops(place, walks)
                                                /\ UsableAt(place, place.stops[i]) # {}}
           Usable(m) == CHOOSE i \in usable : Cardinality({j \in usable : j <= i}) = m
           n == Len(place.stations)
           c == Cardinality(usable)
           most == Min({MaxFeederPairs, c * n})
<1>1. place.stops \in Seq(Int) /\ place.stations \in Seq(Int) /\ MaxFeederPairs \in Nat
  BY TransitAssumption
<1>2. IsFiniteSet(usable) /\ usable \subseteq Int
  <2>1. DOMAIN place.stops = 1..Len(place.stops) /\ Len(place.stops) \in Nat
    BY <1>1
  <2>2. IsFiniteSet(DOMAIN place.stops) /\ DOMAIN place.stops \subseteq Int
    <3>1. 1 \in Int /\ Len(place.stops) \in Int
      BY <2>1
    <3> QED
      BY <2>1, <3>1, FS_Interval
  <2>3. usable \in SUBSET DOMAIN place.stops
    OBVIOUS
  <2> HIDE DEF usable
  <2> QED
    BY <2>2, <2>3, FS_Subset
<1>3. c \in Nat /\ n \in Nat
  <2> HIDE DEF usable
  <2> QED
    BY <1>1, <1>2, FS_CardinalityType
<1>4. FeederPairs(place, walks) =
        [k \in 1..most |-> <<place.stops[Usable((k - 1) \div n + 1)], place.stations[1 + ((k - 1) % n)]>>]
  BY DEF FeederPairs
<1>5. most \in Int /\ most <= c * n
  <2>1. c * n \in Int /\ MaxFeederPairs \in Int
    BY <1>1, <1>3
  <2> HIDE DEF c, n
  <2> QED
    BY <2>1, LeastOfTwo
<1>6. IsFiniteSet(1..most)
  <2>1. 1 \in Int
    OBVIOUS
  <2> HIDE DEF most
  <2> QED
    BY <1>5, <2>1, FS_Interval
<1>7. ASSUME NEW k \in 1..most
      PROVE  /\ place.stops[Usable((k - 1) \div n + 1)] \in WalkedStops(place, walks)
             /\ place.stations[1 + ((k - 1) % n)] \in Range(place.stations)
  <2>1. n > 0
    <3>1. ASSUME n = 0 PROVE FALSE
      <4> HIDE DEF c, n, most
      <4>1. c * n = 0
        BY <1>3, <3>1
      <4> QED
        BY <1>5, <4>1
    <3> QED
      BY <1>3, <3>1
  <2> DEFINE q == (k - 1) \div n
  <2>2. q \in Nat /\ n * q <= k - 1 /\ k - 1 < n * q + n
    <3> HIDE DEF most, n
    <3>1. k - 1 \in Nat
      BY <1>5
    <3> QED
      BY <1>3, <2>1, <3>1, Quotient
  <2>3. q + 1 \in 1..c
    <3> HIDE DEF q, c, n, most
    <3>1. n * q < n * c
      <4>1. n * c = c * n
        BY <1>3
      <4> QED
        BY <1>3, <1>5, <2>2, <4>1
    <3>2. ASSUME c < q PROVE FALSE
      <4>1. n * c + n <= n * q
        BY <1>3, <2>1, <2>2, <3>2, Scaled
      <4>2. n * c \in Int /\ n * q \in Int
        BY <1>3, <2>2
      <4> QED
        BY <1>3, <3>1, <4>1, <4>2
    <3>3. ASSUME c = q PROVE FALSE
      BY <3>1, <3>3, <1>3
    <3> QED
      BY <1>3, <2>2, <3>2, <3>3
  <2>4. \E i \in usable : Cardinality({j \in usable : j <= i}) = q + 1
    <3> HIDE DEF usable, q
    <3> QED
      BY <1>2, <2>3, UsableHaveTurns
  <2>5. Usable(q + 1) \in usable
    <3> HIDE DEF usable, q
    <3> QED
      BY <2>4
  <2>6. place.stops[Usable(q + 1)] \in WalkedStops(place, walks)
    <3> DEFINE i == Usable(q + 1)
    <3> HIDE DEF i
    <3> QED
      BY <2>5 DEF i
  <2>7. 1 + ((k - 1) % n) \in 1..n
    <3> HIDE DEF most, n
    <3>1. k - 1 \in Int
      OBVIOUS
    <3> QED
      BY <1>3, <2>1, <3>1
  <2>8. place.stations[1 + ((k - 1) % n)] \in Range(place.stations)
    <3>1. DOMAIN place.stations = 1..n
      BY <1>1
    <3> HIDE DEF n
    <3> QED
      BY <2>7, <3>1 DEF Range
  <2> QED
    BY <2>6, <2>8
<1> DEFINE pair == [k \in 1..most |-> <<place.stops[Usable((k - 1) \div n + 1)],
                                        place.stations[1 + ((k - 1) % n)]>>]
<1> HIDE DEF most, Usable
<1>8. DOMAIN pair = 1..most
  OBVIOUS
<1>9. ASSUME NEW k \in 1..most
      PROVE  /\ pair[k][1] = place.stops[Usable((k - 1) \div n + 1)]
             /\ pair[k][2] = place.stations[1 + ((k - 1) % n)]
  OBVIOUS
<1>10. FeederPairs(place, walks) = pair
  BY <1>4
<1> HIDE DEF pair
<1> QED
  BY <1>6, <1>7, <1>8, <1>9, <1>10

LEMMA WalksTyped ==
  ASSUME NEW place \in Places, NEW walks \in WalksOf(place), NEW t \in Targets(place),
         walks[t] # CallFailed
  PROVE  walks[t].minutes \in Nat
  BY TransitAssumption DEF WalksOf

IsRail(place, e) == e.station \in Range(place.stations) /\ e.cost \in Int /\ e.total \in Int

LEMMA WalkedRailTyped ==
  ASSUME NEW place \in Places, NEW walks \in WalksOf(place)
  PROVE  /\ IsFiniteSet(WalkedRail(place, walks))
         /\ \A e \in WalkedRail(place, walks) : IsRail(place, e)
<1> DEFINE near == {t \in Range(place.stations) : walks[t] # CallFailed /\ walks[t].minutes <= StationWalk}
           entry == [s \in near |->
                      [kind |-> "walk", station |-> s, total |-> walks[s].minutes + Entry,
                       cost |-> Nearest(125 * walks[s].minutes + 100 * Entry, 100)]]
<1>1. IsFiniteSet(Range(place.stations))
  <2>1. place.stations \in Seq(Int)
    BY TransitAssumption
  <2>2. DOMAIN place.stations = 1..Len(place.stations) /\ Len(place.stations) \in Int
    BY <2>1
  <2>3. IsFiniteSet(DOMAIN place.stations)
    <3>1. 1 \in Int
      OBVIOUS
    <3> QED
      BY <2>2, <3>1, FS_Interval
  <2> DEFINE stations == place.stations
  <2>4. IsFiniteSet({stations[i] : i \in DOMAIN stations})
    <3> HIDE DEF stations
    <3>1. IsFiniteSet(DOMAIN stations)
      BY <2>3 DEF stations
    <3> QED
      BY <3>1, ValuesOf
  <2> QED
    BY <2>4 DEF Range
<1>2. IsFiniteSet(near)
  BY <1>1, FS_Subset
<1>3. WalkedRail(place, walks) = {entry[s] : s \in near}
  BY DEF WalkedRail
<1>4. IsFiniteSet({entry[s] : s \in near})
  <2> HIDE DEF entry, near
  <2> QED
    BY <1>2, ValuesOf
<1>5. ASSUME NEW s \in near PROVE IsRail(place, entry[s])
  <2>1. s \in Targets(place) /\ walks[s] # CallFailed
    BY DEF Targets
  <2>2. walks[s].minutes \in Nat
    BY <2>1, WalksTyped
  <2>3. walks[s].minutes + Entry \in Int /\ 125 * walks[s].minutes + 100 * Entry \in Int
    BY <2>2 DEF Entry
  <2>4. Nearest(125 * walks[s].minutes + 100 * Entry, 100) \in Int
    BY <2>3, WholeHundredths
  <2> QED
    BY <2>3, <2>4 DEF IsRail
<1> HIDE DEF entry, near
<1> QED
  BY <1>3, <1>4, <1>5

LEMMA FeederEntryTyped ==
  ASSUME NEW place \in Places, NEW walks \in WalksOf(place), NEW k \in DOMAIN FeederPairs(place, walks),
         NEW answer \in FeederAnswers
  PROVE  LET pair == FeederPairs(place, walks)[k]
         IN /\ IsFiniteSet(FeederEntry(place, walks, pair, answer))
            /\ \A e \in FeederEntry(place, walks, pair, answer) : IsRail(place, e)
<1> DEFINE pair == FeederPairs(place, walks)[k]
           matching == {c \in UsableAt(place, pair[1]) : c.services \cap answer.services # {}}
           corridor == CHOOSE c \in matching : \A d \in matching : c.wait <= d.wait
           walked == walks[pair[1]].minutes
           total == walked + corridor.wait + answer.ride + answer.walk + Entry
           cost == Nearest(125 * walked + 150 * corridor.wait, 100)
                     + answer.ride + answer.walk + Entry + answer.transfers * ChangePenalty
<1>1. pair[1] \in WalkedStops(place, walks) /\ pair[2] \in Range(place.stations)
  BY FeederPairsTyped
<1>2. CASE answer.services = {} \/ matching = {} \/ answer.transfers > 1
  <2>1. FeederEntry(place, walks, pair, answer) = {}
    BY <1>2 DEF FeederEntry
  <2> QED
    BY <2>1, FS_EmptySet
<1>3. CASE ~(answer.services = {} \/ matching = {} \/ answer.transfers > 1)
  <2>1. FeederEntry(place, walks, pair, answer) =
          {[kind |-> "feeder", station |-> pair[2], total |-> total, cost |-> cost]}
    BY <1>3 DEF FeederEntry
  <2>2. IsFiniteSet(matching) /\ \A c \in matching : c.wait \in Int
    BY UsableTyped, FS_Subset
  <2>3. \E c \in matching : \A d \in matching : c.wait <= d.wait
    <3> DEFINE wait == [c \in matching |-> c.wait]
    <3>1. \A c \in matching : wait[c] \in Int
      BY <2>2
    <3>2. \E c \in matching : \A d \in matching : wait[c] <= wait[d]
      <4> HIDE DEF wait, matching
      <4> QED
        BY <1>3, <2>2, <3>1, FirstByValue
    <3> HIDE DEF matching
    <3> QED
      BY <3>2
  <2>4. corridor \in matching
    <3> HIDE DEF matching
    <3> QED
      BY <2>3
  <2>5. corridor.wait \in Int
    <3> HIDE DEF corridor, matching
    <3> QED
      BY <2>2, <2>4
  <2>6. walked \in Nat
    <3>1. pair[1] \in Targets(place) /\ walks[pair[1]] # CallFailed
      BY <1>1 DEF WalkedStops, Targets
    <3> HIDE DEF pair
    <3> QED
      BY <3>1, WalksTyped
  <2>7. answer.transfers \in Nat /\ answer.ride \in Nat /\ answer.walk \in Nat
    BY TransitAssumption
  <2> HIDE DEF corridor, walked
  <2>8. total \in Int
    BY <2>5, <2>6, <2>7 DEF Entry
  <2>9. cost \in Int
    <3>1. 125 * walked + 150 * corridor.wait \in Int
      BY <2>5, <2>6
    <3>2. Nearest(125 * walked + 150 * corridor.wait, 100) \in Int
      BY <3>1, WholeHundredths
    <3> QED
      BY <2>7, <3>2 DEF Entry, ChangePenalty
  <2> HIDE DEF total, cost, pair
  <2> DEFINE entry == [kind |-> "feeder", station |-> pair[2], total |-> total, cost |-> cost]
  <2>10. IsRail(place, entry)
    BY <1>1, <2>8, <2>9 DEF IsRail
  <2>11. IsFiniteSet({entry}) /\ \A e \in {entry} : e = entry
    BY FS_Singleton
  <2> HIDE DEF entry
  <2>12. FeederEntry(place, walks, pair, answer) = {entry}
    BY <2>1 DEF entry
  <2>13. /\ IsFiniteSet(FeederEntry(place, walks, pair, answer))
         /\ \A e \in FeederEntry(place, walks, pair, answer) : IsRail(place, e)
    BY <2>10, <2>11, <2>12
  <2> QED
    BY <2>13 DEF pair
<1> QED
  BY <1>2, <1>3

LEMMA FeedersTyped ==
  ASSUME NEW place \in Places, NEW walks \in WalksOf(place), NEW feeders \in FeedersOf(place, walks)
  PROVE  /\ IsFiniteSet(FeederEntries(place, walks, feeders))
         /\ \A e \in FeederEntries(place, walks, feeders) :
              IsRail(place, e) /\ WalkedStops(place, walks) # {}
<1> DEFINE found == [k \in DOMAIN feeders |->
                      IF feeders[k] = CallFailed THEN {}
                      ELSE FeederEntry(place, walks, FeederPairs(place, walks)[k], feeders[k])]
           all == {found[k] : k \in DOMAIN feeders}
<1>1. DOMAIN feeders = DOMAIN FeederPairs(place, walks)
  BY DEF FeedersOf
<1>2. ASSUME NEW k \in DOMAIN feeders
      PROVE  IsFiniteSet(found[k]) /\ \A e \in found[k] : IsRail(place, e)
  <2>1. CASE feeders[k] = CallFailed
    BY <2>1, FS_EmptySet
  <2>2. CASE feeders[k] # CallFailed
    <3>1. feeders[k] \in FeederAnswers
      BY <2>2 DEF FeedersOf
    <3>2. found[k] = FeederEntry(place, walks, FeederPairs(place, walks)[k], feeders[k])
      BY <2>2
    <3> HIDE DEF found
    <3> QED
      BY <1>1, <3>1, <3>2, FeederEntryTyped
  <2> QED
    BY <2>1, <2>2
<1>3. IsFiniteSet(DOMAIN feeders)
  BY <1>1, FeederPairsTyped
<1>4. FeederEntries(place, walks, feeders) = UNION all
  BY DEF FeederEntries
<1> HIDE DEF found
<1>5. IsFiniteSet(all)
  BY <1>3, ValuesOf
<1>6. \A f \in all : IsFiniteSet(f)
  BY <1>2
<1>7. IsFiniteSet(UNION all)
  <2> HIDE DEF all
  <2> QED
    BY <1>5, <1>6, FS_UNION
<1>8. ASSUME NEW e \in UNION all PROVE IsRail(place, e) /\ WalkedStops(place, walks) # {}
  <2>1. PICK k \in DOMAIN feeders : e \in found[k]
    OBVIOUS
  <2>2. FeederPairs(place, walks)[k][1] \in WalkedStops(place, walks)
    BY <1>1, FeederPairsTyped
  <2> QED
    BY <1>2, <2>1, <2>2
<1> QED
  BY <1>4, <1>7, <1>8

LEMMA PrimaryIsNear ==
  ASSUME NEW rail, IsFiniteSet(rail), rail # {}, \A e \in rail : e.cost \in Int /\ e.total \in Int
  PROVE  /\ PrimaryRail(rail) \in rail
         /\ \A f \in rail : /\ PrimaryRail(rail).cost <= f.cost + TieMargin
                            /\ f.cost <= PrimaryRail(rail).cost => PrimaryRail(rail).total <= f.total
<1> DEFINE cost == [e \in rail |-> e.cost]
           costs == {cost[e] : e \in rail}
           least == Min(costs)
           close == {e \in rail : e.cost <= least + TieMargin}
           time == [e \in close |-> e.total]
           First(e, f) == e.total < f.total \/ (e.total = f.total /\ e.cost <= f.cost)
<1>1. \A e \in rail : cost[e] = e.cost /\ cost[e] \in Int
  OBVIOUS
<1>2. least \in costs /\ \A e \in rail : least <= cost[e]
  <2> HIDE DEF cost
  <2>1. IsFiniteSet(costs) /\ costs # {} /\ costs \in SUBSET Int
    BY <1>1, ValuesOf
  <2> HIDE DEF costs
  <2>2. Min(costs) \in costs /\ \A y \in costs : Min(costs) <= y
    BY <2>1, LeastOf
  <2> QED
    BY <2>2 DEF costs
<1>3. costs = {e.cost : e \in rail}
  OBVIOUS
<1>4. PrimaryRail(rail) = CHOOSE e \in close : \A f \in close : First(e, f)
  BY <1>3 DEF PrimaryRail
<1>5. least \in Int /\ \A e \in rail : least <= e.cost
  <2> HIDE DEF least
  <2> QED
    BY <1>1, <1>2
<1>6. close # {} /\ IsFiniteSet(close)
  <2>1. PICK e \in rail : least = cost[e]
    BY <1>2
  <2> HIDE DEF least
  <2>2. e.cost <= least + TieMargin
    BY <1>1, <1>5, <2>1 DEF TieMargin
  <2> QED
    BY <2>2, FS_Subset
<1> HIDE DEF least, cost, costs
<1>7. \A e \in close : time[e] = e.total /\ time[e] \in Int
  OBVIOUS
<1>8. PICK quick \in close : \A f \in close : quick.total <= f.total
  <2> HIDE DEF time, close
  <2>1. \E e \in close : \A f \in close : time[e] <= time[f]
    BY <1>6, <1>7, FirstByValue
  <2> QED
    BY <1>7, <2>1
<1> DEFINE ties == {e \in close : e.total = quick.total}
           price == [e \in ties |-> e.cost]
<1>9. \A e \in ties : price[e] = e.cost /\ price[e] \in Int
  OBVIOUS
<1>10. PICK e \in ties : \A f \in ties : e.cost <= f.cost
  <2>1. ties # {} /\ IsFiniteSet(ties)
    <3> HIDE DEF close
    <3> QED
      BY <1>6, <1>8, FS_Subset
  <2> HIDE DEF ties, price
  <2>2. \E f \in ties : \A g \in ties : price[f] <= price[g]
    BY <1>9, <2>1, FirstByValue
  <2> QED
    BY <1>9, <2>2
<1>11. \A f \in close : First(e, f)
  <2> SUFFICES ASSUME NEW f \in close PROVE First(e, f)
    OBVIOUS
  <2>1. e.total = quick.total /\ quick.total <= f.total /\ e.total \in Int /\ f.total \in Int
    BY <1>8
  <2>2. CASE f.total = quick.total
    <3>1. e.cost <= f.cost
      BY <1>10, <2>2
    <3> QED
      BY <2>1, <2>2, <3>1
  <2>3. CASE f.total # quick.total
    BY <2>1, <2>3
  <2> QED
    BY <2>2, <2>3
<1>12. \E x \in close : \A f \in close : First(x, f)
  <2> HIDE DEF First, close
  <2> QED
    BY <1>11, <1>10
<1>13. PrimaryRail(rail) \in close /\ \A f \in close : First(PrimaryRail(rail), f)
  <2> HIDE DEF First, close
  <2> QED
    BY <1>4, <1>12
<1> DEFINE p == PrimaryRail(rail)
<1> HIDE DEF p
<1>14. p \in close /\ \A f \in close : First(p, f)
  BY <1>13 DEF p
<1>15. ASSUME NEW f \in rail
       PROVE  p.cost <= f.cost + TieMargin /\ (f.cost <= p.cost => p.total <= f.total)
  <2>1. p.cost \in Int /\ f.cost \in Int /\ p.cost <= least + TieMargin /\ least <= f.cost
        /\ p.total \in Int /\ f.total \in Int
    BY <1>5, <1>14
  <2>2. ASSUME f.cost <= p.cost PROVE p.total <= f.total
    <3>1. f \in close
      BY <1>5, <2>1, <2>2 DEF TieMargin
    <3> QED
      BY <1>14, <2>1, <3>1
  <2> QED
    BY <1>5, <2>1, <2>2 DEF TieMargin
<1> QED
  BY <1>14, <1>15 DEF p

\* MRT reach starts at the primary entry of Access: only active stations are
\* looked for near a flat, so that the first choice is always mapped.
LEMMA ReachStartsAtPrimary ==
  ASSUME NEW place \in Places, NEW access, IsFiniteSet(access.rail),
         \A e \in access.rail : IsRail(place, e)
  PROVE  StartsNear(access, ReachOf(place, access))
<1> SUFFICES ASSUME ReachOf(place, access).status = "calculated"
             PROVE  \E e \in access.rail :
                      /\ e.station = ReachOf(place, access).station
                      /\ \A f \in access.rail : /\ e.cost <= f.cost + TieMargin
                                                /\ f.cost <= e.cost => e.total <= f.total
  BY DEF StartsNear
<1> DEFINE rail == access.rail
           p == PrimaryRail(rail)
           Entered(e) == [station |-> e.station, primary |-> e = p, cost |-> e.cost, minutes |-> e.total]
           entries == {Entered(e) : e \in rail}
           mapped == Mapped(place.graph, entries)
           IsChosen(e) == \A f \in mapped \ {e} : ~EntryBefore(f, e)
           chosen == CHOOSE e \in mapped : IsChosen(e)
<1>1. ReachOf(place, access) = ReachFrom(place.graph, entries)
  BY DEF ReachOf
<1>2. mapped # {} /\ ReachOf(place, access).station = chosen.station
  <2>1. NoReach.status # "calculated"
    BY DEF NoReach
  <2>2. ReachFrom(place.graph, entries) # NoReach
    BY <1>1, <2>1
  <2>3. mapped # {} /\ ReachFrom(place.graph, entries).station = EntryStation(place.graph, entries)
    BY <2>2 DEF ReachFrom, Banded
  <2>4. EntryStation(place.graph, entries) = chosen.station
    BY DEF EntryStation
  <2> QED
    BY <1>1, <2>3, <2>4
<1>3. rail # {}
  BY <1>2 DEF Mapped
<1>4. /\ p \in rail
      /\ \A f \in rail : p.cost <= f.cost + TieMargin /\ (f.cost <= p.cost => p.total <= f.total)
  <2>1. \A e \in rail : e.cost \in Int /\ e.total \in Int
    BY DEF IsRail
  <2> QED
    BY <1>3, <2>1, PrimaryIsNear
<1> HIDE DEF p
<1>5. Entered(p) \in mapped
  <2>1. p.station \in place.graph.active
    BY <1>4, TransitAssumption DEF IsRail
  <2> QED
    BY <1>4, <2>1 DEF Mapped
<1>6. ASSUME NEW f \in mapped \ {Entered(p)} PROVE EntryBefore(Entered(p), f) /\ ~EntryBefore(f, Entered(p))
  <2>1. PICK e \in rail : f = Entered(e)
    BY DEF Mapped
  <2>2. e # p
    BY <2>1
  <2>3. f.primary = FALSE /\ Entered(p).primary = TRUE
    BY <2>1, <2>2
  <2> HIDE DEF Entered
  <2> QED
    BY <2>3 DEF EntryBefore
<1>7. IsChosen(Entered(p))
  BY <1>6
<1>8. chosen \in mapped /\ IsChosen(chosen)
  <2> HIDE DEF IsChosen, mapped, Entered
  <2> QED
    BY <1>5, <1>7
<1>9. chosen = Entered(p)
  <2> HIDE DEF chosen, mapped, Entered
  <2> QED
    BY <1>5, <1>6, <1>8
<1>10. chosen.station = p.station
  <2> HIDE DEF chosen
  <2> QED
    BY <1>9
<1> QED
  BY <1>2, <1>4, <1>10

-----------------------------------------------------------------------------
(***************************************************************************)
(* The components of the public-transport model.                           *)
(***************************************************************************)

LEMMA AccessBandsTyped ==
  ASSUME NEW value
  PROVE  BandScore(AccessBands, 200, value) \in 0..1000
<1>1. IsFiniteSet(AccessBands)
  <2>1. \A n \in Nat : IsFiniteSet(0..n)
    BY FS_Interval
  <2>2. 300 \in Nat /\ 1000 \in Nat
    OBVIOUS
  <2>3. IsFiniteSet(0..300) /\ IsFiniteSet(0..1000)
    BY <2>1, <2>2, Zenon
  <2>4. IsFiniteSet((0..300) \X (0..1000))
    BY <2>3, FS_Product
  <2>5. AccessBands \subseteq (0..300) \X (0..1000)
    BY DEF AccessBands
  <2> QED
    BY <2>4, <2>5, FS_Subset
<1>2. \A r \in AccessBands : r[1] \in Int /\ r[2] \in 0..1000
  BY DEF AccessBands
<1>3. BandScore(AccessBands, 200, value) = 200
        \/ \E r \in AccessBands : BandScore(AccessBands, 200, value) = r[2]
  BY <1>1, <1>2, BandScoreIsOfARow
<1> QED
  BY <1>2, <1>3

\* Bus coverage has at most full marks, finitely many corridors to count, and
\* nothing to count where no stop was walked to.
LEMMA CoverageTyped ==
  ASSUME NEW network, IsNetwork(network), NEW near, IsFiniteSet(near),
         Covered(network, near).status = "calculated"
  PROVE  /\ Covered(network, near).score \in 0..1000
         /\ IsFiniteSet(Covered(network, near).direct)
         /\ near # {}
<1> DEFINE close == {w \in near : w.metres <= 400}
           stops == {w.stop : w \in close}
           boarded == DirectOptions(network, stops)
           changes == NovelTransfers(network, boarded)
           direct == {c \in Corridors(boarded) : Frequent(network, c)}
           transfer == {c \in Corridors(changes) : Frequent(network, c)}
           score == 7 * DirectBand(Cardinality(direct)) + 3 * TransferBand(Cardinality(transfer))
<1>1. /\ stops # {}
      /\ Covered(network, near) = [status |-> "calculated", direct |-> direct,
                                   transfer |-> transfer, score |-> score]
  BY DEF Covered, NotCovered
<1>2. IsFiniteSet(stops)
  <2> DEFINE stop == [w \in close |-> w.stop]
  <2>1. IsFiniteSet(close)
    BY FS_Subset
  <2>2. stops = {stop[w] : w \in close}
    OBVIOUS
  <2>3. IsFiniteSet({stop[w] : w \in close})
    <3> HIDE DEF stop, close
    <3> QED
      BY <2>1, ValuesOf
  <2> QED
    BY <2>2, <2>3
<1>3. IsFiniteSet(direct)
  <2>1. IsFiniteSet(boarded)
    <3> HIDE DEF stops
    <3> QED
      BY <1>2, OptionsAreFinite
  <2>2. IsFiniteSet(Corridors(boarded))
    <3> HIDE DEF boarded
    <3> QED
      BY <2>1, CorridorsAreFinite
  <2> QED
    BY <2>2, FS_Subset
<1>4. \A count : DirectBand(count) \in 0..95
  BY DEF DirectBand
<1>5. \A count : TransferBand(count) \in 0..90
  BY DEF TransferBand
<1>6. score \in 0..1000
  <2>1. \A a \in 0..95, b \in 0..90 : 7 * a + 3 * b \in 0..1000
    OBVIOUS
  <2> HIDE DEF direct, transfer
  <2> QED
    BY <1>4, <1>5, <2>1
<1>7. near # {}
  BY <1>1
<1> HIDE DEF direct, transfer, score
<1> QED
  BY <1>1, <1>3, <1>6, <1>7

LEMMA AtMost ==
  ASSUME NEW n \in Nat, NEW most \in Nat
  PROVE  Min({n, most}) \in 0..most /\ Min({most, n}) \in 0..most
<1>1. n \in Int /\ most \in Int
  OBVIOUS
<1>2. /\ Min({n, most}) <= most /\ (Min({n, most}) = n \/ Min({n, most}) = most)
      /\ Min({most, n}) <= most /\ (Min({most, n}) = most \/ Min({most, n}) = n)
  BY <1>1, LeastOfTwo, Zenon
<1> QED
  BY <1>2

LEMMA ReachScoreTyped ==
  ASSUME NEW zero \in Nat, NEW one \in Nat, NEW multi \in Nat, NEW extended \in Nat
  PROVE  ReachScore(zero, one, multi, extended) \in 0..1000
<1> DEFINE sum == 315 * Min({zero, 20}) + 140 * Min({one, 45}) + 90 * Min({multi, 20})
                    + 60 * Min({extended, 60})
<1>1. sum \in 0..18000
  <2>1. /\ Min({zero, 20}) \in 0..20 /\ Min({one, 45}) \in 0..45
        /\ Min({multi, 20}) \in 0..20 /\ Min({extended, 60}) \in 0..60
    <3>1. \A n, most \in Nat : Min({n, most}) \in 0..most
      BY AtMost
    <3>2. 20 \in Nat /\ 45 \in Nat /\ 60 \in Nat
      OBVIOUS
    <3> QED
      BY <3>1, <3>2, Zenon
  <2> DEFINE a == Min({zero, 20})
             b == Min({one, 45})
             c == Min({multi, 20})
             d == Min({extended, 60})
  <2>2. a \in 0..20 /\ b \in 0..45 /\ c \in 0..20 /\ d \in 0..60
    BY <2>1
  <2>3. sum = 315 * a + 140 * b + 90 * c + 60 * d
    OBVIOUS
  <2> HIDE DEF a, b, c, d, sum
  <2> DEFINE w == 315 * a
             x == 140 * b
             y == 90 * c
             z == 60 * d
  <2>4. w \in 0..6300 /\ x \in 0..6300
    BY <2>2
  <2>5. y \in 0..1800 /\ z \in 0..3600
    BY <2>2
  <2>6. sum = w + x + y + z
    BY <2>3
  <2> HIDE DEF w, x, y, z
  <2> QED
    BY <2>4, <2>5, <2>6
<1> HIDE DEF sum
<1>2. ASSUME NEW d \in Nat, d = 18, NEW most \in Nat, most = 1000
      PROVE  (2 * sum + d) \div (2 * d) \in 0..most
  <2>1. d > 0 /\ sum \in Int /\ d * 0 <= sum /\ sum <= d * most
    BY <1>1, <1>2
  <2> QED
    BY <2>1, RoundedBetween
<1>3. (2 * sum + 18) \div 36 \in 0..1000
  BY <1>2
<1> QED
  BY <1>3 DEF ReachScore, sum

\* MRT reach has at most full marks, and starts from a rail entry.
LEMMA ReachTyped ==
  ASSUME NEW graph, IsFiniteSet(graph.active), NEW entries,
         ReachFrom(graph, entries).status = "calculated"
  PROVE  ReachFrom(graph, entries).score \in 0..1000 /\ entries # {}
<1> DEFINE station == EntryStation(graph, entries)
           best == BestPaths(PathsFrom(graph, station))
           short == {s \in DOMAIN best : best[s].minutes <= Short}
           zero == {s \in short : best[s].changes = 0}
           one == {s \in short : best[s].changes = 1}
           multi == short \ (zero \cup one)
           extended == DOMAIN best \ short
           score == ReachScore(Cardinality(zero), Cardinality(one), Cardinality(multi), Cardinality(extended))
<1>1. entries # {} /\ ReachFrom(graph, entries) = Banded(station, best)
  BY DEF ReachFrom, NoReach, Mapped
<1>2. ReachFrom(graph, entries).score = score
  BY <1>1 DEF Banded
<1>3. DOMAIN best \subseteq graph.active
  BY DEF BestPaths, PathsFrom
<1> HIDE DEF best
<1>4. zero \subseteq graph.active /\ one \subseteq graph.active /\ multi \subseteq graph.active
      /\ extended \subseteq graph.active
  BY <1>3
<1> HIDE DEF zero, one, multi, extended
<1>5. /\ Cardinality(zero) \in Nat /\ Cardinality(one) \in Nat
      /\ Cardinality(multi) \in Nat /\ Cardinality(extended) \in Nat
  BY <1>4, ManyInSubset
<1>6. score \in 0..1000
  BY <1>5, ReachScoreTyped, ZenonT(30)
<1> QED
  BY <1>1, <1>2, <1>6

LEMMA ResilienceTyped ==
  ASSUME NEW place, NEW access, NEW covered,
         covered.status = "calculated" => IsFiniteSet(covered.direct)
  PROVE  ResilienceScore(FallbackUnits(place, access, covered)) \in 0..1000
<1>1. ASSUME NEW units \in Nat PROVE ResilienceScore(units) \in 0..1000
  <2>1. CASE units = 0
    BY <2>1 DEF ResilienceScore
  <2>2. CASE units # 0
    <3>1. 200 + 160 * units \in Nat
      OBVIOUS
    <3>2. \A n, most \in Nat : Min({most, n}) \in 0..most
      BY AtMost
    <3>3. ASSUME NEW most \in Nat, most = 1000
          PROVE  Min({most, 200 + 160 * units}) \in 0..most
      BY <3>1, <3>2
    <3>4. Min({1000, 200 + 160 * units}) \in 0..1000
      BY <3>3
    <3> QED
      BY <2>2, <3>4 DEF ResilienceScore
  <2> QED
    BY <2>1, <2>2
<1> DEFINE primary == PrimaryRail(access.rail).station
           others == {e.station : e \in access.rail} \ {primary}
           lines == (UNION {place.lines[s] : s \in others}) \ place.lines[primary]
           kinds == {k \in 1..3 : <<access.bus # {}, others # {}, lines # {}>>[k]}
           rail == IF access.rail = {} THEN 0 ELSE Cardinality(kinds)
           bus == IF covered.status = "calculated" THEN Min({2, Cardinality(covered.direct)}) ELSE 0
<1>2. FallbackUnits(place, access, covered) = rail + bus
  BY DEF FallbackUnits
<1>3. rail \in Nat
  <2>1. IsFiniteSet(1..3)
    <3>1. 1 \in Int /\ 3 \in Int
      OBVIOUS
    <3> QED
      BY <3>1, FS_Interval
  <2>2. kinds \subseteq 1..3
    OBVIOUS
  <2> HIDE DEF kinds
  <2>3. Cardinality(kinds) \in Nat
    BY <2>1, <2>2, ManyInSubset
  <2> QED
    BY <2>3
<1>4. bus \in Nat
  <2>1. CASE covered.status = "calculated"
    <3>1. Cardinality(covered.direct) \in Nat
      BY <2>1, FS_CardinalityType
    <3>2. \A n, most \in Nat : Min({most, n}) \in 0..most
      BY AtMost
    <3>3. 2 \in Nat
      OBVIOUS
    <3>4. Min({2, Cardinality(covered.direct)}) \in 0..2
      BY <3>1, <3>2, <3>3, Zenon
    <3> QED
      BY <2>1, <3>4
  <2>2. CASE covered.status # "calculated"
    BY <2>2
  <2> QED
    BY <2>1, <2>2
<1> HIDE DEF rail, bus
<1> QED
  BY <1>1, <1>2, <1>3, <1>4

-----------------------------------------------------------------------------
(***************************************************************************)
(* The score of the model.                                                 *)
(***************************************************************************)

\* A component adds its score times its weight, or nothing at all.
LEMMA PartPoints ==
  ASSUME NEW part, NEW w \in Nat, IsPart(part, w, 0, 1000), NEW point, NEW weight,
         point = IF IsAssessed(part) THEN part.score * w ELSE 0,
         weight = IF IsAssessed(part) THEN w ELSE 0,
         NEW most \in Nat, most = 1000
  PROVE  point \in Int /\ 0 <= point /\ point <= weight * most /\ weight \in {0, w}
<1>1. CASE ~IsAssessed(part)
  BY <1>1
<1>2. CASE IsAssessed(part)
  <2>1. part.score \in 0..most
    BY <1>2 DEF IsPart
  <2>2. w * part.score \in Int /\ 0 <= w * part.score /\ w * part.score <= w * most
    BY <2>1, PointsBetween, SMTT(20)
  <2>3. point = w * part.score /\ weight = w
    BY <1>2, <2>1
  <2> QED
    BY <2>2, <2>3
<1> QED
  BY <1>1, <1>2

\* Without an entry to the network neither coverage nor reach is assessed,
\* and what is left, access and resilience, weighs too little.
LEMMA RollupNeedsAnEntry ==
  ASSUME NEW access, NEW buses, NEW reached, NEW resilience, NEW entered \in BOOLEAN,
         IsPart(access, 30, 0, 1000), IsPart(buses, 25, 0, 1000),
         IsPart(reached, 30, 0, 1000), IsPart(resilience, 15, 0, 1000),
         IsAssessed(buses) => entered, IsAssessed(reached) => entered,
         Rollup(<<access, buses, reached, resilience>>).overall # NoScore
  PROVE  entered /\ Rollup(<<access, buses, reached, resilience>>).overall \in 0..1000
<1> DEFINE components == <<access, buses, reached, resilience>>
           assessed == AssessedIn(components)
           weights == [i \in Shown |-> IF i \in assessed THEN components[i].weight ELSE 0]
           points == [i \in Shown |-> IF i \in assessed THEN components[i].score * components[i].weight ELSE 0]
           all == [i \in Shown |-> IF i \in Shown THEN components[i].weight ELSE 0]
           weight == TotalOf(weights)
           sum == TotalOf(points)
<1>1. /\ components[1] = access /\ components[2] = buses
      /\ components[3] = reached /\ components[4] = resilience
  OBVIOUS
<1>2. /\ 1 \in assessed <=> IsAssessed(access)
      /\ 2 \in assessed <=> IsAssessed(buses)
      /\ 3 \in assessed <=> IsAssessed(reached)
      /\ 4 \in assessed <=> IsAssessed(resilience)
  BY <1>1 DEF AssessedIn, Shown
<1>3. /\ WeightOf(components, assessed) = weight /\ WeightedScore(components, assessed) = sum
      /\ WeightOf(components, Shown) = TotalOf(all)
  BY DEF WeightOf, WeightedScore
<1>4. Rollup(components).overall =
        IF Counts(components, assessed)
        THEN IF assessed = {} THEN NoScore
             ELSE Nearest(WeightedScore(components, assessed), WeightOf(components, assessed))
        ELSE NoScore
  BY DEF Rollup
<1>5. TotalOf(all) = 100
  BY <1>1 DEF TotalOf, Shown, IsPart
<1> HIDE DEF components, assessed, all
<1>6. Counts(components, assessed) /\ Rollup(components).overall = Nearest(sum, weight)
  BY <1>3, <1>4 DEF components, Counts
<1>7. 100 * weight >= 60 * 100
  BY <1>3, <1>5, <1>6 DEF Counts
<1>8. /\ weights[1] = IF IsAssessed(access) THEN 30 ELSE 0
      /\ weights[2] = IF IsAssessed(buses) THEN 25 ELSE 0
      /\ weights[3] = IF IsAssessed(reached) THEN 30 ELSE 0
      /\ weights[4] = IF IsAssessed(resilience) THEN 15 ELSE 0
  BY <1>1, <1>2 DEF IsPart, Shown
<1>9. /\ points[1] = IF IsAssessed(access) THEN access.score * 30 ELSE 0
      /\ points[2] = IF IsAssessed(buses) THEN buses.score * 25 ELSE 0
      /\ points[3] = IF IsAssessed(reached) THEN reached.score * 30 ELSE 0
      /\ points[4] = IF IsAssessed(resilience) THEN resilience.score * 15 ELSE 0
  BY <1>1, <1>2 DEF IsPart, Shown
<1> HIDE DEF weights, points
<1>10. entered
  BY <1>7, <1>8 DEF TotalOf
<1>11. ASSUME NEW most \in Nat, most = 1000
       PROVE  (2 * sum + weight) \div (2 * weight) \in 0..most
  <2>1. /\ points[1] \in Int /\ 0 <= points[1] /\ points[1] <= weights[1] * most
        /\ weights[1] \in {0, 30}
    BY <1>8, <1>9, <1>11, PartPoints
  <2>2. /\ points[2] \in Int /\ 0 <= points[2] /\ points[2] <= weights[2] * most
        /\ weights[2] \in {0, 25}
    BY <1>8, <1>9, <1>11, PartPoints
  <2>3. /\ points[3] \in Int /\ 0 <= points[3] /\ points[3] <= weights[3] * most
        /\ weights[3] \in {0, 30}
    BY <1>8, <1>9, <1>11, PartPoints
  <2>4. /\ points[4] \in Int /\ 0 <= points[4] /\ points[4] <= weights[4] * most
        /\ weights[4] \in {0, 15}
    BY <1>8, <1>9, <1>11, PartPoints
  <2>5. weight = weights[1] + weights[2] + weights[3] + weights[4]
    BY DEF TotalOf
  <2>6. sum = points[1] + points[2] + points[3] + points[4]
    BY DEF TotalOf
  <2> HIDE DEF sum, weight
  <2>7. weight \in Nat /\ weight > 0
    BY <1>7, <2>1, <2>2, <2>3, <2>4, <2>5
  <2>8. weight * most = weights[1] * most + weights[2] * most + weights[3] * most + weights[4] * most
    BY <2>1, <2>2, <2>3, <2>4, <2>5
  <2> DEFINE h == [i \in 1..4 |-> weights[i] * most]
  <2>9. \A i \in 1..4 : points[i] \in Int /\ 0 <= points[i] /\ h[i] \in Int /\ points[i] <= h[i]
    BY <2>1, <2>2, <2>3, <2>4
  <2>10. weight * most = h[1] + h[2] + h[3] + h[4] /\ weight * 0 = 0
    BY <2>7, <2>8
  <2>11. sum \in Int /\ weight * 0 <= sum /\ sum <= weight * most
    <3> HIDE DEF h
    <3> QED
      BY <2>6, <2>9, <2>10
  <2> QED
    BY <2>7, <2>11, RoundedBetween
<1>12. Nearest(sum, weight) \in 0..1000
  BY <1>11 DEF Nearest
<1> QED
  BY <1>6, <1>10, <1>12 DEF components

\* What Access found: whatever it confirmed comes from a stop or a station
\* that was walked to in time, and without a path it names no stop either.
LEMMA AccessTyped ==
  ASSUME NEW place \in Places, NEW walks \in WalksOf(place), NEW feeders \in FeedersOf(place, walks)
  PROVE  LET access == AccessFrom(place, walks, feeders)
         IN /\ IsPart(access.result, 30, 0, 1000)
            /\ IsFiniteSet(access.rail) /\ \A e \in access.rail : IsRail(place, e)
            /\ access.walked \subseteq WalkedStops(place, walks)
            /\ access.walked # {} => access.rail # {} \/ access.bus # {}
            /\ access.rail # {} \/ access.bus # {} =>
                 WalkedStops(place, walks) # {} \/ WalkedRail(place, walks) # {}
<1> DEFINE bus == BusEntries(place, walks)
           rail == WalkedRail(place, walks) \cup FeederEntries(place, walks, feeders)
           walked == WalkedStops(place, walks)
           outcomes == Range(walks) \cup Range(feeders)
           access == AccessFrom(place, walks, feeders)
           found == Calculated("access", 30,
                      BandScore(AccessBands, 200, Min({e.cost : e \in bus \cup rail})))
<1>1. access = AccessBy(outcomes, bus, rail, walked)
  BY DEF AccessFrom
<1>2. IsFiniteSet(rail) /\ \A e \in rail : IsRail(place, e)
  BY WalkedRailTyped, FeedersTyped, FS_Union
<1>3. bus # {} => walked # {}
  BY DEF BusEntries
<1>4. rail # {} => walked # {} \/ WalkedRail(place, walks) # {}
  BY FeedersTyped
<1>5. IsPart(found, 30, 0, 1000)
  BY AccessBandsTyped DEF IsPart, Calculated
<1> HIDE DEF bus, rail, walked, outcomes, found
<1>6. \/ /\ access.rail = {} /\ access.bus = {} /\ access.walked = {}
         /\ IsPart(access.result, 30, 0, 1000)
      \/ access = AccessResult(bus, rail, walked, found) /\ bus \cup rail # {}
  <2>1. CASE AllFailed(outcomes)
    BY <1>1, <2>1 DEF AccessBy, AccessResult, ProviderError, Unavailable, IsPart, IsAssessed
  <2>2. CASE ~AllFailed(outcomes) /\ bus \cup rail = {}
    BY <1>1, <2>2 DEF AccessBy, AccessResult, Calculated, IsPart, IsAssessed
  <2>3. CASE ~AllFailed(outcomes) /\ bus \cup rail # {}
    BY <1>1, <2>3 DEF AccessBy, found
  <2> QED
    BY <2>1, <2>2, <2>3
<1>7. CASE access.rail = {} /\ access.bus = {} /\ access.walked = {} /\ IsPart(access.result, 30, 0, 1000)
  BY <1>7, FS_EmptySet
<1>8. CASE access = AccessResult(bus, rail, walked, found) /\ bus \cup rail # {}
  <2>1. access.bus = bus /\ access.rail = rail /\ access.walked = walked /\ access.result = found
    BY <1>8 DEF AccessResult
  <2> HIDE DEF access
  <2>2. /\ IsPart(access.result, 30, 0, 1000)
        /\ IsFiniteSet(access.rail) /\ \A e \in access.rail : IsRail(place, e)
        /\ access.walked \subseteq walked
        /\ access.walked # {} => access.rail # {} \/ access.bus # {}
        /\ access.rail # {} \/ access.bus # {} => walked # {} \/ WalkedRail(place, walks) # {}
    BY <1>2, <1>3, <1>4, <1>5, <1>8, <2>1
  <2> QED
    BY <2>2 DEF access, walked
<1> QED
  BY <1>6, <1>7, <1>8 DEF walked

\* The stops and stations near a flat are finitely many.
LEMMA StopsAreFinite ==
  ASSUME NEW place \in Places
  PROVE  IsFiniteSet(Range(place.stops))
<1> DEFINE stops == place.stops
<1>1. stops \in Seq(Int)
  BY TransitAssumption
<1> HIDE DEF stops
<1>2. DOMAIN stops = 1..Len(stops) /\ 1 \in Int /\ Len(stops) \in Int
  BY <1>1
<1>3. IsFiniteSet(DOMAIN stops)
  BY <1>2, FS_Interval
<1>4. IsFiniteSet({stops[i] : i \in DOMAIN stops})
  BY <1>3, ValuesOf
<1> QED
  BY <1>4 DEF Range, stops

InTime(place, walks, t) ==
  /\ walks[t] # CallFailed
  /\ walks[t].minutes <= IF t \in Range(place.stations) THEN StationWalk ELSE StopWalk

\* The score of a model is one, and rests on a walk in time.
LEMMA ModelsRestOnWalks ==
  ASSUME NEW place \in Places, NEW walks \in WalksOf(place), NEW feeders \in FeedersOf(place, walks),
         TransitModel(place, walks, feeders).overall # NoScore
  PROVE  /\ TransitModel(place, walks, feeders).overall \in 0..1000
         /\ \E t \in Targets(place) : InTime(place, walks, t)
         /\ LET access == AccessFrom(place, walks, feeders)
            IN access.rail # {} \/ access.bus # {}
<1> DEFINE access == AccessFrom(place, walks, feeders)
           near == {[stop |-> s, metres |-> walks[s].metres] : s \in access.walked}
           covered == CoverageOf(place, walks, access)
           reached == ReachOf(place, access)
           bus == Part("bus_coverage", 25, covered)
           rail == Part("mrt_reach", 30, reached)
           score == ResilienceScore(FallbackUnits(place, access, covered))
           resilience == Calculated("route_resilience", 15, score)
           entered == access.rail # {} \/ access.bus # {}
<1>1. /\ IsPart(access.result, 30, 0, 1000)
      /\ IsFiniteSet(access.rail)
      /\ access.walked \subseteq WalkedStops(place, walks)
      /\ access.walked # {} => entered
      /\ entered => WalkedStops(place, walks) # {} \/ WalkedRail(place, walks) # {}
  BY AccessTyped
<1>2. TransitModel(place, walks, feeders) = Rollup(<<access.result, bus, rail, resilience>>)
  BY DEF TransitModel, ModelFrom, ModelWith
<1> HIDE DEF access
<1>3. covered.status = "calculated" =>
        covered.score \in 0..1000 /\ IsFiniteSet(covered.direct) /\ entered
  <2> SUFFICES ASSUME covered.status = "calculated"
               PROVE  covered.score \in 0..1000 /\ IsFiniteSet(covered.direct) /\ entered
    OBVIOUS
  <2> DEFINE stop == [s \in access.walked |-> [stop |-> s, metres |-> walks[s].metres]]
  <2>1. IsFiniteSet(access.walked)
    <3>1. WalkedStops(place, walks) \subseteq Range(place.stops)
      BY DEF WalkedStops
    <3>2. access.walked \subseteq Range(place.stops)
      BY <1>1, <3>1
    <3> QED
      BY <3>2, StopsAreFinite, FS_Subset
  <2>2. near = {stop[s] : s \in access.walked}
    OBVIOUS
  <2>3. IsFiniteSet(near)
    <3>1. IsFiniteSet({stop[s] : s \in access.walked})
      <4> HIDE DEF stop
      <4> QED
        BY <2>1, ValuesOf
    <3> QED
      BY <2>2, <3>1
  <2>4. covered = Covered(place.network, near) /\ IsNetwork(place.network)
    BY TransitAssumption DEF CoverageOf
  <2>5. near # {} => access.walked # {}
    BY <2>2
  <2> HIDE DEF covered, near, entered, stop
  <2>6. covered.score \in 0..1000 /\ IsFiniteSet(covered.direct) /\ near # {}
    BY <2>3, <2>4, CoverageTyped
  <2> QED
    BY <1>1, <2>5, <2>6
<1>4. reached.status = "calculated" => reached.score \in 0..1000 /\ entered
  <2> DEFINE entries == {[station |-> e.station, primary |-> e = PrimaryRail(access.rail),
                          cost |-> e.cost, minutes |-> e.total] : e \in access.rail}
  <2>1. reached = ReachFrom(place.graph, entries) /\ IsFiniteSet(place.graph.active)
    BY TransitAssumption DEF ReachOf
  <2>2. entries # {} => entered
    OBVIOUS
  <2> HIDE DEF reached, entries, entered
  <2> QED
    BY <2>1, <2>2, ReachTyped
<1>5. score \in 0..1000
  <2> HIDE DEF covered
  <2> QED
    BY <1>3, ResilienceTyped
<1> HIDE DEF covered, reached, score, entered
<1>6. /\ IsPart(bus, 25, 0, 1000) /\ (IsAssessed(bus) => entered)
      /\ IsPart(rail, 30, 0, 1000) /\ (IsAssessed(rail) => entered)
      /\ IsPart(resilience, 15, 0, 1000)
  <2>1. IsPart(bus, 25, 0, 1000) /\ (IsAssessed(bus) => entered)
    BY <1>3 DEF Part, Calculated, NotAssessed, Unavailable, IsPart, IsAssessed
  <2>2. IsPart(rail, 30, 0, 1000) /\ (IsAssessed(rail) => entered)
    BY <1>4 DEF Part, Calculated, NotAssessed, Unavailable, IsPart, IsAssessed
  <2>3. IsPart(resilience, 15, 0, 1000)
    BY <1>5 DEF Calculated, IsPart, IsAssessed
  <2> QED
    BY <2>1, <2>2, <2>3
<1>7. entered \in BOOLEAN
  BY DEF entered
<1> HIDE DEF bus, rail, resilience
<1>8. entered /\ TransitModel(place, walks, feeders).overall \in 0..1000
  BY <1>1, <1>2, <1>6, <1>7, RollupNeedsAnEntry
<1>9. \E t \in Targets(place) : InTime(place, walks, t)
  <2>1. CASE WalkedStops(place, walks) # {}
    <3>1. PICK s \in WalkedStops(place, walks) : TRUE
      BY <2>1
    <3>2. s \in Targets(place) /\ walks[s] # CallFailed /\ walks[s].minutes <= StopWalk
      BY <3>1 DEF WalkedStops, Targets
    <3>3. walks[s].minutes \in Nat
      BY <3>2, WalksTyped
    <3> QED
      BY <3>2, <3>3 DEF InTime, StopWalk, StationWalk
  <2>2. CASE WalkedRail(place, walks) # {}
    <3>1. PICK t \in Range(place.stations) : walks[t] # CallFailed /\ walks[t].minutes <= StationWalk
      BY <2>2 DEF WalkedRail
    <3> QED
      BY <3>1 DEF InTime, Targets
  <2> QED
    BY <1>1, <1>8, <2>1, <2>2
<1> QED
  BY <1>8, <1>9 DEF entered, access

\* The calls that each stage is the outcome of.
TransitInv ==
  /\ transit.stage \in {"none", "walked", "scored"}
  /\ transit.stage # "none" => transit.place \in Places /\ transit.walks \in WalksOf(transit.place)
  /\ transit.stage = "scored" =>
       /\ transit.feeders \in FeedersOf(transit.place, transit.walks)
       /\ transit.model = TransitModel(transit.place, transit.walks, transit.feeders)

LEMMA TransitTyped ==
  ASSUME TransitInv
  PROVE  TransitScoreHasEvidence
<1> SUFFICES ASSUME transit.stage = "scored" PROVE TransitScoreHasEvidence
  BY DEF TransitScoreHasEvidence
<1> DEFINE place == transit.place
           walks == transit.walks
           access == AccessFrom(place, walks, transit.feeders)
<1>1. /\ place \in Places /\ walks \in WalksOf(place) /\ transit.feeders \in FeedersOf(place, walks)
      /\ transit.model = TransitModel(place, walks, transit.feeders)
  BY DEF TransitInv
<1>2. StartsNear(access, ReachOf(place, access))
  <2>1. IsFiniteSet(access.rail) /\ \A e \in access.rail : IsRail(place, e)
    BY <1>1, AccessTyped
  <2> HIDE DEF access
  <2> QED
    BY <1>1, <2>1, ReachStartsAtPrimary
<1>3. transit.model.overall # NoScore =>
        /\ transit.model.overall \in 0..1000
        /\ \E t \in Targets(place) : InTime(place, walks, t)
        /\ access.rail # {} \/ access.bus # {}
  BY <1>1, ModelsRestOnWalks
<1> QED
  BY <1>2, <1>3 DEF TransitScoreHasEvidence, EntersTheNetwork, InTime

\* A public-transport score that the recommendation may read is a score, and
\* rests on a walk that was answered and short enough; reach starts where
\* Access entered the rail network (compute_public_transport_model).
THEOREM TransitScoresHaveEvidence == TransitSpec => []TransitScoreHasEvidence
<1>1. TransitInit => TransitInv
  BY DEF TransitInit, TransitInv, NotStarted
<1>2. TransitInv /\ [TransitNext]_transit => TransitInv'
  <2> SUFFICES ASSUME TransitInv, [TransitNext]_transit PROVE TransitInv'
    OBVIOUS
  <2>1. ASSUME NEW place \in Places, NEW walks \in [Targets(place) -> WalkAnswers \cup {CallFailed}],
               RouteWalks(place, walks)
        PROVE  TransitInv'
    BY <2>1 DEF RouteWalks, TransitInv, WalksOf
  <2>2. ASSUME transit.stage = "walked",
               NEW feeders \in [DOMAIN FeederPairs(transit.place, transit.walks)
                                  -> FeederAnswers \cup {CallFailed}],
               RouteFeeders(feeders)
        PROVE  TransitInv'
    BY <2>2 DEF RouteFeeders, TransitInv, FeedersOf
  <2>3. CASE UNCHANGED transit
    BY <2>3 DEF TransitInv
  <2> QED
    BY <2>1, <2>2, <2>3 DEF TransitNext
<1>3. TransitInv => TransitScoreHasEvidence
  BY TransitTyped
<1> QED
  BY <1>1, <1>2, <1>3, PTL DEF TransitSpec

-----------------------------------------------------------------------------
(***************************************************************************)
(* The catalogue of entries onto major roads.                              *)
(***************************************************************************)

\* The index and the distance on the plane hide nothing that the strict rules
\* accept: an accepted edge has a point within the widest tolerance.
LEMMA MatchesAreThoseOfTheStrictRules ==
  ASSUME NEW survey \in Surveys, NEW road
  PROVE  MatchedEdges(survey, road) =
           {e \in survey.edges : road \in DOMAIN e.fits /\ StrictlyMatches(e.fits[road])}
<1> SUFFICES ASSUME NEW e \in survey.edges, road \in DOMAIN e.fits, StrictlyMatches(e.fits[road])
             PROVE  e.fits[road].planar <= SearchRadius /\ e.fits[road].planar <= MatchTolerance
  BY DEF MatchedEdges
<1> DEFINE fit == e.fits[road]
           tolerance == IF fit.named THEN MatchTolerance ELSE SpatialOnlyTolerance
           close == {i \in DOMAIN fit.offsets : fit.offsets[i] <= tolerance}
<1>1. /\ fit.planar \in Int
      /\ \A i \in DOMAIN fit.offsets : fit.offsets[i] \in Int /\ fit.planar <= fit.offsets[i]
  BY SurveyAssumption
<1>2. Cardinality(close) >= 2
  BY DEF StrictlyMatches
<1>3. close # {}
  BY <1>2, FS_EmptySet
<1>4. PICK i \in DOMAIN fit.offsets : fit.offsets[i] <= tolerance
  BY <1>3
<1>5. tolerance \in Int /\ tolerance <= 35
  BY DEF MatchTolerance, SpatialOnlyTolerance
<1> HIDE DEF fit, tolerance
<1>6. fit.planar <= 35
  BY <1>1, <1>4, <1>5
<1>7. fit.planar <= SearchRadius
  BY <1>1, <1>6, SearchRadiusAssumption
<1> QED
  BY <1>6, <1>7 DEF MatchTolerance, fit

\* The loop over the junctions keeps some set of them: a smallest set of
\* junctions for which there is none loses it without its last one.
LEMMA LoopKeepsSome ==
  ASSUME NEW survey, NEW matched, NEW junctions, IsFiniteSet(junctions), junctions \subseteq Int
  PROVE  \E kept \in SUBSET junctions : \A node \in junctions :
           node \in kept <=> Keeps(survey, matched, {m \in kept : m < node}, node)
<1> DEFINE Loop(T, kept) == \A node \in T : node \in kept <=> Keeps(survey, matched, {m \in kept : m < node}, node)
           Bad == {T \in SUBSET junctions : ~(\E kept \in SUBSET T : Loop(T, kept))}
<1> SUFFICES ASSUME junctions \in Bad PROVE FALSE
  OBVIOUS
<1>1. IsWellFoundedOn(StrictSubsetOrdering(junctions), FiniteSubsetsOf(junctions))
  BY FS_StrictSubsetOrderingWellFounded
<1>2. Bad \subseteq FiniteSubsetsOf(junctions) /\ Bad # {}
  BY FS_FiniteSubsetsOfFinite
<1>3. PICK T \in Bad : \A U \in Bad : <<U, T>> \notin StrictSubsetOrdering(junctions)
  <2> HIDE DEF Bad
  <2> QED
    BY <1>1, <1>2, WFMin, Zenon
<1>4. T \in SUBSET junctions /\ ~(\E kept \in SUBSET T : Loop(T, kept))
  BY <1>3
<1>5. T # {}
  <2>1. T = {} => Loop(T, {}) /\ {} \in SUBSET T
    OBVIOUS
  <2> HIDE DEF Loop
  <2> QED
    BY <1>4, <2>1
<1>6. PICK last \in T : \A n \in T : last >= n
  <2>1. T \in SUBSET Int /\ IsFiniteSet(T)
    BY <1>4, FS_Subset
  <2>2. Max(T) \in T /\ \A y \in T : Max(T) >= y
    BY <1>5, <2>1, GreatestOf
  <2> QED
    BY <2>2
<1> DEFINE earlier == T \ {last}
<1>7. \E kept \in SUBSET earlier : Loop(earlier, kept)
  <2>1. earlier \in SUBSET junctions
    BY <1>4
  <2>2. <<earlier, T>> \in StrictSubsetOrdering(junctions)
    BY <1>4, <1>6, <2>1 DEF StrictSubsetOrdering
  <2> QED
    BY <1>3, <2>1, <2>2
<1>8. PICK before \in SUBSET earlier : Loop(earlier, before)
  BY <1>7
<1> DEFINE kept == IF Keeps(survey, matched, before, last) THEN before \cup {last} ELSE before
<1>9. kept \in SUBSET T
  BY <1>6, <1>8
<1>10. last \in Int /\ \A n \in earlier : n \in Int /\ n < last
  BY <1>4, <1>6
<1>11. ASSUME NEW node \in T
       PROVE  node \in kept <=> Keeps(survey, matched, {m \in kept : m < node}, node)
  <2>1. CASE node = last
    <3>1. {m \in kept : m < last} = before
      <4>1. before \subseteq kept /\ kept \subseteq before \cup {last}
        OBVIOUS
      <4>2. (\A m \in before : m < last) /\ ~(last < last)
        BY <1>8, <1>10
      <4> HIDE DEF kept
      <4> QED
        BY <4>1, <4>2
    <3>2. last \in kept <=> Keeps(survey, matched, before, last)
      BY <1>8
    <3> QED
      BY <2>1, <3>1, <3>2
  <2>2. CASE node # last
    <3>1. node \in earlier
      BY <2>2
    <3>2. {m \in kept : m < node} = {m \in before : m < node}
      BY <1>10, <3>1
    <3>3. node \in kept <=> node \in before
      BY <2>2
    <3> HIDE DEF kept
    <3> QED
      BY <1>8, <3>1, <3>2, <3>3
  <2> QED
    BY <2>1, <2>2
<1> HIDE DEF kept
<1>12. Loop(T, kept)
  BY <1>11
<1> QED
  BY <1>4, <1>9, <1>12

LEMMA EntriesOfALoop ==
  ASSUME NEW survey \in Surveys, NEW matched, matched \subseteq survey.edges
  PROVE  LET junctions == {e.from : e \in matched}
             kept == EntryNodes(survey, matched)
         IN /\ IsFiniteSet(junctions) /\ junctions \subseteq Int /\ kept \subseteq junctions
            /\ \A node \in junctions : survey.at[node] \in Int
            /\ \A node \in junctions :
                 node \in kept <=> Keeps(survey, matched, {m \in kept : m < node}, node)
<1> DEFINE junctions == {e.from : e \in matched}
           from == [e \in matched |-> e.from]
<1>1. IsFiniteSet(matched) /\ \A e \in matched : e.from \in Int /\ survey.at[e.from] \in Int
  BY SurveyAssumption, FS_Subset
<1>2. IsFiniteSet({from[e] : e \in matched})
  <2> HIDE DEF from
  <2> QED
    BY <1>1, ValuesOf
<1>3. junctions = {from[e] : e \in matched}
  OBVIOUS
<1>4. IsFiniteSet(junctions)
  <2> HIDE DEF from, junctions
  <2> QED
    BY <1>2, <1>3
<1>5. junctions \subseteq Int /\ \A node \in junctions : survey.at[node] \in Int
  BY <1>1
<1> DEFINE Loop(kept) == \A node \in junctions :
                           node \in kept <=> Keeps(survey, matched, {m \in kept : m < node}, node)
<1>6. \E kept \in SUBSET junctions : Loop(kept)
  <2> HIDE DEF junctions
  <2> QED
    BY <1>4, <1>5, LoopKeepsSome
<1>7. EntryNodes(survey, matched) = CHOOSE kept \in SUBSET junctions : Loop(kept)
  BY DEF EntryNodes
<1>8. EntryNodes(survey, matched) \in SUBSET junctions /\ Loop(EntryNodes(survey, matched))
  <2> HIDE DEF Loop, junctions
  <2> QED
    BY <1>6, <1>7
<1> QED
  BY <1>4, <1>5, <1>8

\* Entries can be entered, lie apart, are few, and unless there are as many as
\* there may be every junction that can be entered is close to one.
LEMMA EntriesCover ==
  ASSUME NEW survey \in Surveys, NEW matched, matched \subseteq survey.edges
  PROVE  LET junctions == {e.from : e \in matched}
             legal == {n \in junctions : Approaches(survey, matched, n) # {}}
             kept == EntryNodes(survey, matched)
         IN /\ kept \subseteq legal /\ Cardinality(kept) <= MaxEntries
            /\ \A m, n \in kept : m # n => ~Together(survey, m, n)
            /\ Cardinality(kept) < MaxEntries =>
                 \A n \in legal : \E m \in kept : Together(survey, m, n)
<1> DEFINE junctions == {e.from : e \in matched}
           legal == {n \in junctions : Approaches(survey, matched, n) # {}}
           kept == EntryNodes(survey, matched)
           Earlier(n) == {m \in kept : m < n}
<1>1. /\ IsFiniteSet(junctions) /\ junctions \subseteq Int /\ kept \subseteq junctions
      /\ \A node \in junctions : survey.at[node] \in Int
      /\ \A node \in junctions : node \in kept <=> Keeps(survey, matched, Earlier(node), node)
  BY EntriesOfALoop
<1>2. IsFiniteSet(kept) /\ Cardinality(kept) \in Nat /\ MaxEntries \in Nat
  BY <1>1, ManyInSubset, SurveyAssumption
<1> HIDE DEF junctions, kept
<1>3. \A n \in kept : n \in legal
  BY <1>1 DEF Keeps
<1>4. ASSUME NEW m \in kept, NEW n \in kept, m # n PROVE ~Together(survey, m, n)
  <2>1. m \in Int /\ n \in Int /\ survey.at[m] \in Int /\ survey.at[n] \in Int
    BY <1>1
  <2>2. CASE m < n
    BY <1>1, <2>2 DEF Keeps
  <2>3. CASE n < m
    <3>1. ~Together(survey, n, m)
      BY <1>1, <2>3 DEF Keeps
    <3> QED
      BY <2>1, <3>1 DEF Together, EntryDedup
  <2> QED
    BY <1>4, <2>1, <2>2, <2>3
<1>5. Cardinality(kept) <= MaxEntries
  <2>1. CASE kept = {}
    BY <1>2, <2>1, FS_EmptySet
  <2>2. CASE kept # {}
    <3>1. kept \in SUBSET Int
      BY <1>1
    <3>2. PICK last \in kept : \A n \in kept : last >= n
      <4>1. Max(kept) \in kept /\ \A y \in kept : Max(kept) >= y
        BY <1>2, <2>2, <3>1, GreatestOf
      <4> QED
        BY <4>1
    <3> DEFINE E == Earlier(last)
    <3>3. kept = E \cup {last} /\ last \notin E /\ E \subseteq kept
      <4>1. (\A n \in kept : n < last \/ n = last) /\ ~(last < last)
        BY <3>1, <3>2
      <4> QED
        BY <3>2, <4>1
    <3>4. Cardinality(E) < MaxEntries
      BY <1>1, <3>2 DEF Keeps
    <3> HIDE DEF E
    <3>5. IsFiniteSet(E) /\ Cardinality(E) \in Nat
      BY <1>2, <3>3, ManyInSubset
    <3>6. Cardinality(E \cup {last}) = Cardinality(E) + 1
      BY <3>3, <3>5, FS_AddElement
    <3> QED
      BY <1>2, <3>3, <3>4, <3>5, <3>6
  <2> QED
    BY <2>1, <2>2
<1>6. ASSUME Cardinality(kept) < MaxEntries, NEW n \in legal
      PROVE  \E m \in kept : Together(survey, m, n)
  <2>1. n \in junctions /\ Approaches(survey, matched, n) # {} /\ survey.at[n] \in Int
    BY <1>1
  <2>2. CASE n \in kept
    <3>1. Together(survey, n, n)
      BY <2>1 DEF Together, EntryDedup
    <3> QED
      BY <2>2, <3>1
  <2>3. CASE n \notin kept
    <3>1. ~Keeps(survey, matched, Earlier(n), n)
      BY <1>1, <2>1, <2>3
    <3>2. Cardinality(Earlier(n)) < MaxEntries
      <4> DEFINE E == Earlier(n)
      <4>1. E \subseteq kept
        OBVIOUS
      <4> HIDE DEF E
      <4>2. Cardinality(E) \in Nat /\ Cardinality(E) <= Cardinality(kept)
        BY <1>2, <4>1, ManyInSubset
      <4>3. Cardinality(E) < MaxEntries
        BY <1>2, <1>6, <4>2
      <4> QED
        BY <4>3 DEF E
    <3>3. PICK m \in Earlier(n) : Together(survey, m, n)
      BY <2>1, <3>1, <3>2 DEF Keeps
    <3> QED
      BY <3>3
  <2> QED
    BY <2>2, <2>3
<1> QED
  BY <1>3, <1>4, <1>5, <1>6 DEF junctions, kept

EntriesOf(survey, mapping) ==
  UNION {{[road |-> r, node |-> n] : n \in mapping[r]} : r \in NearbyRoads(survey) \cap DOMAIN mapping}

\* What each stage holds: the catalogue is that of the survey it was built
\* from, and the entries found are those of the nearby roads in it.
CatalogueInv ==
  /\ catalogue.stage \in {"none", "built", "serving", "refused", "found"}
  /\ catalogue.stage \in {"built", "serving", "refused"} =>
       /\ catalogue.survey \in Surveys
       /\ catalogue = [stage |-> catalogue.stage, survey |-> catalogue.survey,
                       mapping |-> Mapping(catalogue.survey)]
  /\ catalogue.stage = "found" =>
       /\ catalogue.survey \in Surveys
       /\ catalogue.entries = EntriesOf(catalogue.survey, Mapping(catalogue.survey))

\* What is found of a nearby road are the entries that its loop kept.
LEMMA FoundOfARoad ==
  ASSUME NEW survey \in Surveys, NEW r \in NearbyRoads(survey)
  PROVE  {x.node : x \in {y \in EntriesOf(survey, Mapping(survey)) : y.road = r}} =
           IF MatchedEdges(survey, r) = {} THEN {} ELSE EntryNodes(survey, MatchedEdges(survey, r))
<1> DEFINE mapping == Mapping(survey)
           found == EntriesOf(survey, mapping)
<1>1. r \in Roads(survey)
  BY DEF NearbyRoads
<1>2. r \in DOMAIN mapping <=> MatchedEdges(survey, r) # {}
  BY <1>1 DEF Mapping
<1>3. MatchedEdges(survey, r) # {} => mapping[r] = EntryNodes(survey, MatchedEdges(survey, r))
  BY <1>1 DEF Mapping
<1> HIDE DEF mapping
<1>4. \A y : y \in found <=> \E q \in NearbyRoads(survey) \cap DOMAIN mapping :
                               \E n \in mapping[q] : y = [road |-> q, node |-> n]
  BY DEF EntriesOf
<1> HIDE DEF found
<1>5. \A n : n \in {x.node : x \in {y \in found : y.road = r}} <=> r \in DOMAIN mapping /\ n \in mapping[r]
  <2> TAKE n
  <2>1. ASSUME n \in {x.node : x \in {y \in found : y.road = r}}
        PROVE  r \in DOMAIN mapping /\ n \in mapping[r]
    <3>1. PICK x \in found : x.road = r /\ x.node = n
      BY <2>1
    <3>2. PICK q \in NearbyRoads(survey) \cap DOMAIN mapping :
            \E k \in mapping[q] : x = [road |-> q, node |-> k]
      BY <1>4
    <3> QED
      BY <3>1, <3>2
  <2>2. ASSUME r \in DOMAIN mapping, n \in mapping[r]
        PROVE  n \in {x.node : x \in {y \in found : y.road = r}}
    <3>1. [road |-> r, node |-> n] \in found
      BY <1>4, <2>2
    <3>2. [road |-> r, node |-> n].road = r /\ [road |-> r, node |-> n].node = n
      OBVIOUS
    <3> QED
      BY <3>1, <3>2
  <2> QED
    BY <2>1, <2>2
<1> QED
  BY <1>2, <1>3, <1>5 DEF found, mapping

LEMMA FoundCoverTheRoad ==
  ASSUME CatalogueInv
  PROVE  EntriesCoverTheRoad
<1> SUFFICES ASSUME catalogue.stage = "found", NEW r \in NearbyRoads(catalogue.survey)
             PROVE  LET survey == catalogue.survey
                        onRoad == {e \in survey.edges : r \in DOMAIN e.fits /\ StrictlyMatches(e.fits[r])}
                        legal == {e.from : e \in {f \in onRoad : \E g \in survey.edges \ onRoad : g.to = f.from}}
                        kept == {x.node : x \in {y \in catalogue.entries : y.road = r}}
                    IN /\ kept \subseteq legal /\ Cardinality(kept) <= MaxEntries
                       /\ \A m, n \in kept : m # n => ~Together(survey, m, n)
                       /\ Cardinality(kept) < MaxEntries =>
                            \A n \in legal : \E m \in kept : Together(survey, m, n)
  BY DEF EntriesCoverTheRoad
<1> DEFINE survey == catalogue.survey
           onRoad == {e \in survey.edges : r \in DOMAIN e.fits /\ StrictlyMatches(e.fits[r])}
           legal == {e.from : e \in {f \in onRoad : \E g \in survey.edges \ onRoad : g.to = f.from}}
           kept == {x.node : x \in {y \in catalogue.entries : y.road = r}}
<1>1. survey \in Surveys /\ catalogue.entries = EntriesOf(survey, Mapping(survey))
  BY DEF CatalogueInv
<1>2. MatchedEdges(survey, r) = onRoad /\ onRoad \subseteq survey.edges
  BY <1>1, MatchesAreThoseOfTheStrictRules
<1>3. legal = {n \in {e.from : e \in onRoad} : Approaches(survey, onRoad, n) # {}}
  BY DEF Approaches
<1>4. kept = IF onRoad = {} THEN {} ELSE EntryNodes(survey, onRoad)
  <2> HIDE DEF onRoad
  <2> QED
    BY <1>1, <1>2, FoundOfARoad
<1>5. MaxEntries \in Nat
  BY SurveyAssumption
<1>6. CASE onRoad = {}
  <2>1. kept = {} /\ legal = {}
    BY <1>4, <1>6
  <2> HIDE DEF kept, legal
  <2>2. Cardinality(kept) = 0
    BY <2>1, FS_EmptySet
  <2>3. /\ kept \subseteq legal /\ Cardinality(kept) <= MaxEntries
        /\ \A m, n \in kept : m # n => ~Together(survey, m, n)
        /\ Cardinality(kept) < MaxEntries => \A n \in legal : \E m \in kept : Together(survey, m, n)
    BY <1>5, <2>1, <2>2
  <2> QED
    BY <2>3 DEF kept, legal
<1>7. CASE onRoad # {}
  <2>1. kept = EntryNodes(survey, onRoad)
    BY <1>4, <1>7
  <2> HIDE DEF kept, legal, onRoad, survey
  <2>2. /\ kept \subseteq legal /\ Cardinality(kept) <= MaxEntries
        /\ \A m, n \in kept : m # n => ~Together(survey, m, n)
        /\ Cardinality(kept) < MaxEntries => \A n \in legal : \E m \in kept : Together(survey, m, n)
    BY <1>1, <1>2, <1>3, <2>1, EntriesCover
  <2> QED
    BY <2>2 DEF kept, legal, onRoad, survey
<1> QED
  BY <1>6, <1>7

\* The catalogue of a served build loses no legal access to a road that the
\* lookup considers (build_major_road_mapping, compute_major_road_access).
THEOREM EntriesCoverTheirRoad == CatalogueSpec => []EntriesCoverTheRoad
<1>1. CatalogueInit => CatalogueInv
  BY DEF CatalogueInit, CatalogueInv, NotBuilt
<1>2. CatalogueInv /\ [CatalogueNext]_catalogue => CatalogueInv'
  <2> SUFFICES ASSUME CatalogueInv, [CatalogueNext]_catalogue PROVE CatalogueInv'
    OBVIOUS
  <2>1. ASSUME NEW survey \in Surveys, BuildCatalogue(survey) PROVE CatalogueInv'
    BY <2>1 DEF BuildCatalogue, CatalogueInv
  <2>2. ASSUME NEW g \in BOOLEAN, NEW s \in BOOLEAN, NEW v \in BOOLEAN, LoadCatalogue(g, s, v)
        PROVE  CatalogueInv'
    BY <2>2 DEF LoadCatalogue, CatalogueInv
  <2>3. ASSUME FindEntries PROVE CatalogueInv'
    <3>1. catalogue.survey \in Surveys /\ catalogue.mapping = Mapping(catalogue.survey)
      BY <2>3 DEF FindEntries, CatalogueInv
    <3>2. catalogue' = [stage |-> "found", survey |-> catalogue.survey,
                        entries |-> EntriesOf(catalogue.survey, catalogue.mapping)]
      BY <2>3 DEF FindEntries, EntriesOf
    <3> QED
      BY <3>1, <3>2 DEF CatalogueInv
  <2>4. CASE UNCHANGED catalogue
    BY <2>4 DEF CatalogueInv
  <2> QED
    BY <2>1, <2>2, <2>3, <2>4 DEF CatalogueNext
<1>3. CatalogueInv => EntriesCoverTheRoad
  BY FoundCoverTheRoad
<1> QED
  BY <1>1, <1>2, <1>3, PTL DEF CatalogueSpec

=============================================================================
