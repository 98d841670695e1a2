----------------------------- MODULE Comparison -----------------------------
(***************************************************************************)
(* What get_comparison computes for a shortlist: a verdict per requirement *)
(* and flat, the group of each flat, the fit of each flat to the buyer's   *)
(* priorities, the ranks, and the recommendation.  Scores are integers in  *)
(* hundredths of a point, the precision the code rounds sub-scores to.     *)
(* The code compares floats: a difference that equals a threshold exactly  *)
(* is on either side of it, and the model chooses.  A half is rounded up   *)
(* here and either way there, within the bounds every property states.     *)
(*                                                                         *)
(* A flat is a record [price, area, type, leaseMonths, leaseYears,         *)
(* journeys, transit, driving, schools, estimate, confidence]: what was    *)
(* confirmed and what enrichment has stored, Unknown where there is none.  *)
(***************************************************************************)
EXTENDS Integers, Sequences, FiniteSets, FiniteSetsExt

CONSTANTS
    Shortlists,     \* sequences of flats, at most five
    Profiles        \* [budget, limits, priorities]

Unknown == -1

Priorities == {"AFFORDABILITY", "SPACE", "LEASE", "IMPORTANT_LOCATION_JOURNEY",
               "PUBLIC_TRANSPORT", "DRIVING", "SCHOOLS", "FAIR_PRICE"}

IsFlat(flat) ==
    /\ flat.price \in Nat \ {0} /\ flat.area \in Nat \ {0}
    /\ {flat.leaseMonths, flat.leaseYears, flat.transit, flat.driving, flat.schools, flat.estimate}
          \subseteq Nat \cup {Unknown}
    /\ flat.estimate # 0
    /\ IsFiniteSet(flat.journeys) /\ \A j \in flat.journeys : j.seconds \in Nat

ASSUME ComparisonAssumption ==
    /\ \A list \in Shortlists :
          /\ Len(list) \in 0..5 /\ DOMAIN list = 1..Len(list)
          /\ \A i \in DOMAIN list : IsFlat(list[i])
    /\ \A p \in Profiles :
          /\ p.budget \in Nat \ {0} /\ IsFiniteSet(DOMAIN p.limits)
          /\ DOMAIN p.priorities \subseteq 1..3
          /\ \A k \in DOMAIN p.priorities : p.priorities[k] \in Priorities

VARIABLE comparisonMade     \* the last comparison: its inputs and its answer

NotCompared == [listings |-> <<>>]

ComparisonInit == comparisonMade = NotCompared

-----------------------------------------------------------------------------
(***************************************************************************)
(* RequirementEngine.  A limit is [metric, op, threshold]; the threshold   *)
(* of a lease is in years, and the id of a driving limit was validated.    *)
(***************************************************************************)
Months(flat) ==
    IF flat.leaseMonths # Unknown THEN flat.leaseMonths
    ELSE IF flat.leaseYears # Unknown THEN flat.leaseYears * 12 ELSE Unknown

Shortest(times) == IF times = {} THEN Unknown ELSE Min(times)

DrivingSeconds(flat) == Shortest({j.seconds : j \in {k \in flat.journeys : k.mode = "DRIVING"}})

\* [value, threshold] in one unit; a journey's minutes are compared as seconds
Measured(limit, flat) ==
    CASE limit.metric = "FLOOR_AREA_SQM" -> <<flat.area, limit.threshold>>
      [] limit.metric = "REMAINING_LEASE_YEARS" -> <<Months(flat), limit.threshold * 12>>
      [] limit.metric = "MAX_DRIVING_JOURNEY_MINUTES" -> <<DrivingSeconds(flat), limit.threshold * 60>>

Meets(op, value, threshold) ==
    \/ op = "LTE" /\ value <= threshold
    \/ op = "GTE" /\ value >= threshold
    \/ op = "EQ" /\ value = threshold

Verdict(limit, flat) ==
    IF limit.metric = "FLAT_TYPE"
    THEN IF flat.type = limit.threshold THEN "PASS" ELSE "FAIL"
    ELSE LET measured == Measured(limit, flat) IN
         IF measured[1] = Unknown THEN "CANNOT_DETERMINE"
         ELSE IF Meets(limit.op, measured[1], measured[2]) THEN "PASS" ELSE "FAIL"

Group(limits, flat) ==
    LET With(v) == Cardinality({i \in DOMAIN limits : Verdict(limits[i], flat) = v}) IN
    CASE With("FAIL") > 1 -> "FAILS_MULTIPLE"
      [] With("FAIL") = 1 -> "FAILS_ONE"
      [] With("FAIL") = 0 /\ With("CANNOT_DETERMINE") > 0 -> "CANNOT_DETERMINE"
      [] OTHER -> "PASSES_ALL"

\* the flats of the best group there is
Eligible(groups) ==
    LET In(g) == {i \in DOMAIN groups : groups[i] = g} IN
    IF In("PASSES_ALL") # {} THEN In("PASSES_ALL")
    ELSE IF In("CANNOT_DETERMINE") # {} THEN In("CANNOT_DETERMINE")
    ELSE DOMAIN groups

-----------------------------------------------------------------------------
(***************************************************************************)
(* PreferenceScoringEngine.                                                *)
(***************************************************************************)
Within(low, x, high) == IF x < low THEN low ELSE IF x > high THEN high ELSE x

\* round(n / d), d > 0
Rounded(n, d) == (2 * n + d) \div (2 * d)

RawValue(priority, flat) ==
    CASE priority = "AFFORDABILITY" -> flat.price
      [] priority = "SPACE" -> flat.area
      [] priority = "LEASE" -> Months(flat)
      [] priority = "IMPORTANT_LOCATION_JOURNEY" -> Shortest({j.seconds : j \in flat.journeys})
      [] priority = "PUBLIC_TRANSPORT" -> flat.transit
      [] priority = "DRIVING" -> flat.driving
      [] priority = "SCHOOLS" -> flat.schools
      [] priority = "FAIR_PRICE" -> flat.estimate

Multiplier(confidence) ==
    CASE confidence = "HIGH" -> 100 [] confidence = "MEDIUM" -> 80 [] confidence = "LOW" -> 50
      [] OTHER -> 25

Points(priority, flat, budget) ==
    LET value == RawValue(priority, flat) IN
    CASE priority = "AFFORDABILITY" ->
             10000 - Max({0, Rounded(20000 * value, budget) - 15000})
      [] priority = "SPACE" -> Rounded((value - 60) * 10000, 60)
      [] priority = "LEASE" -> Rounded((value - 480) * 10000, 480)
      [] priority = "IMPORTANT_LOCATION_JOURNEY" -> Rounded(36000000 - (value - 900) * 10000, 3600)
      [] priority = "FAIR_PRICE" ->
             5000 + Rounded((value - flat.price) * 500 * Multiplier(flat.confidence), value)
      [] OTHER -> value * 100

FullScore == 10000

SubScore(priority, flat, budget) ==
    IF RawValue(priority, flat) = Unknown THEN Unknown
    ELSE Within(0, Points(priority, flat, budget), FullScore)

Weight == <<45, 35, 20>>

Assessed(p, flat) == {k \in DOMAIN p.priorities : SubScore(p.priorities[k], flat, p.budget) # Unknown}

WeightAt(p, flat, k) == IF k \in Assessed(p, flat) THEN Weight[k] ELSE 0
PointsAt(p, flat, k) ==
    IF k \in Assessed(p, flat) THEN Weight[k] * SubScore(p.priorities[k], flat, p.budget) ELSE 0

\* The weighted mean over the assessed priorities, before rounding: a fraction.
Total(p, flat) ==
    IF Assessed(p, flat) = {} THEN [sum |-> 0, of |-> 1]
    ELSE [sum |-> PointsAt(p, flat, 1) + PointsAt(p, flat, 2) + PointsAt(p, flat, 3),
          of |-> WeightAt(p, flat, 1) + WeightAt(p, flat, 2) + WeightAt(p, flat, 3)]

Fit(p, flat) ==
    IF Assessed(p, flat) = {} THEN Unknown ELSE Rounded(Total(p, flat).sum, Total(p, flat).of)

\* a - b <= 3 points, where above says that a difference of three is not.
WithinThree(a, b, above) ==
    LET lead == a.sum * b.of - b.sum * a.of
        three == 300 * a.of * b.of
    IN lead < three \/ (lead = three /\ ~above)

\* All totals, unassessed flats' zeros included, lie within three points.
AllTie(p, listings, above) ==
    LET totals == {Total(p, listings[i]) : i \in DOMAIN listings} IN
    /\ Len(listings) >= 2
    /\ \A a, b \in totals : WithinThree(a, b, above)
    /\ \E a \in totals : a.sum > 0

\* Stable sort, best first; an unassessed flat sorts as -1.
Ahead(fit, i, j) == fit[i] > fit[j] \/ (fit[i] = fit[j] /\ i < j)
Position(fit, i) == 1 + Cardinality({j \in DOMAIN fit : Ahead(fit, j, i)})
InOrder(fit) == [k \in DOMAIN fit |-> CHOOSE i \in DOMAIN fit : Position(fit, i) = k]

\* neighbours compared to the nearest whole point
RanksByPoint(fit, apart) ==
    LET order == InOrder(fit)
        NewRank(k) == k = 1 \/ fit[order[k]] \div 100 # fit[order[k-1]] \div 100
    IN [i \in DOMAIN fit |-> Max({k \in 1..Position(fit, i) : NewRank(k)})]

(***************************************************************************)
(* A flat shares the rank of the one before it unless their scores differ  *)
(* by more than 0.01, so its rank is the last place up to its own at which *)
(* a new rank starts.  A difference of one hundredth is on either side of  *)
(* 0.01 as the floats fall: apart is the set of places where it is above.  *)
(***************************************************************************)
NewRank(fit, apart, k) ==
    LET order == InOrder(fit) IN
    \/ k = 1 \/ fit[order[k]] = Unknown \/ fit[order[k-1]] = Unknown
    \/ fit[order[k-1]] - fit[order[k]] > 1
    \/ fit[order[k-1]] - fit[order[k]] = 1 /\ k \in apart

Ranks(fit, apart) ==
    [i \in DOMAIN fit |-> Max({k \in 1..Position(fit, i) : NewRank(fit, apart, k)})]

-----------------------------------------------------------------------------
(***************************************************************************)
(* RecommendationEngine.  above names the comparisons with three points    *)
(* that come out above although the difference is three: that of all the   *)
(* totals, and that of the two best fits (65.40 - 62.40 > 3.0 in floats).  *)
(***************************************************************************)
NoWinner(reason, provisional) ==
    [winner |-> 0, reason |-> reason, provisional |-> provisional]

CandidatesUngrouped(groups, fit) == {i \in DOMAIN groups : fit[i] # Unknown}

\* the eligible assessed flats
Candidates(groups, fit) == {i \in Eligible(groups) : fit[i] # Unknown}

\* the first of them in the order of the scores
BestOf(fit, flats) == CHOOSE i \in flats : \A j \in flats \ {i} : Ahead(fit, i, j)

\* the tie looked for among the totals of all flats only
RecommendTieOverall(p, listings, groups, fit, above) ==
    LET onlyFails == \A i \in DOMAIN groups : groups[i] \in {"FAILS_ONE", "FAILS_MULTIPLE"}
        candidates == Candidates(groups, fit)
        leader == BestOf(fit, candidates) IN
    IF p.priorities = <<>> \/ onlyFails \/ candidates = {} THEN NoWinner("NO_PRIORITIES", TRUE)
    ELSE IF candidates # {leader} /\ AllTie(p, listings, "totals" \in above) THEN NoWinner("PRACTICAL_TIE", FALSE)
    ELSE [winner |-> leader, reason |-> "PREFERENCE_LEADER", provisional |-> FALSE]

Recommend(p, listings, groups, fit, above) ==
    LET onlyFails == \A i \in DOMAIN groups : groups[i] \in {"FAILS_ONE", "FAILS_MULTIPLE"}
        candidates == Candidates(groups, fit)
        leader == BestOf(fit, candidates)
        lead == fit[leader] - fit[BestOf(fit, candidates \ {leader})]
        close == lead < 300 \/ (lead = 300 /\ "fits" \notin above) IN
    IF p.priorities = <<>>
    THEN NoWinner(IF onlyFails THEN "NO_PASSING_LISTINGS" ELSE "NO_PRIORITIES", TRUE)
    ELSE IF onlyFails THEN NoWinner("ALL_FAIL_REQUIREMENTS", FALSE)
    ELSE IF candidates = {} THEN NoWinner("NO_ASSESSED_PRIORITY_DATA", TRUE)
    ELSE IF candidates # {leader} /\ (AllTie(p, listings, "totals" \in above) \/ close)
    THEN NoWinner("PRACTICAL_TIE", FALSE)
    ELSE [winner |-> leader, reason |-> "PREFERENCE_LEADER",
          provisional |-> Assessed(p, listings[leader]) # DOMAIN p.priorities]

CompareFlats(listings, p) ==
    /\ comparisonMade = NotCompared
    /\ \E apart \in SUBSET (2..Len(listings)), above \in SUBSET {"totals", "fits"} :
           LET groups == [i \in DOMAIN listings |-> Group(p.limits, listings[i])]
               fit == [i \in DOMAIN listings |-> Fit(p, listings[i])] IN
           comparisonMade' = [listings |-> listings, profile |-> p, groups |-> groups, fit |-> fit,
                              ranks |-> Ranks(fit, apart),
                              answer |-> Recommend(p, listings, groups, fit, above)]

ComparisonNext == \E listings \in Shortlists, p \in Profiles : CompareFlats(listings, p)

ComparisonSpec == ComparisonInit /\ [][ComparisonNext]_comparisonMade

-----------------------------------------------------------------------------
Compared == comparisonMade.listings # <<>>
Flats == DOMAIN comparisonMade.listings
Winner == comparisonMade.answer.winner

(***************************************************************************)
(* The recommended flat fails no requirement, and when some assessed flat  *)
(* meets them all, so does the recommended one (classify_listings,         *)
(* eligible_listing_ids and _rank: the group comes before the score).      *)
(***************************************************************************)
NoFailingFlatWins ==
    Compared /\ Winner # 0 =>
        LET limits == comparisonMade.profile.limits
            Gets(i) == {Verdict(limits[k], comparisonMade.listings[i]) : k \in DOMAIN limits} IN
        /\ "FAIL" \notin Gets(Winner)
        /\ (\E i \in Flats : Gets(i) \subseteq {"PASS"}) => Gets(Winner) \subseteq {"PASS"}

(***************************************************************************)
(* A recommended flat leads every other eligible assessed flat by at least *)
(* three points, and no eligible flat with the same evidence is at least   *)
(* as good in every priority (_rank's tie rule and the weighting).  The    *)
(* rule calls a lead of three a tie, but a lead that prints as 3.00 may be *)
(* recommended, as the floats fall: more than three cannot be claimed.     *)
(***************************************************************************)
ClearLead ==
    Compared /\ Winner # 0 =>
        LET p == comparisonMade.profile
            Scores(i) == [k \in DOMAIN p.priorities |->
                             SubScore(p.priorities[k], comparisonMade.listings[i], p.budget)] IN
        \A i \in Eligible(comparisonMade.groups) \ {Winner} :
            comparisonMade.fit[i] # Unknown =>
                /\ comparisonMade.fit[Winner] >= comparisonMade.fit[i] + 300
                /\ Assessed(p, comparisonMade.listings[i]) = Assessed(p, comparisonMade.listings[Winner])
                      => \E k \in DOMAIN p.priorities : Scores(Winner)[k] > Scores(i)[k]

(***************************************************************************)
(* The displayed ranks follow the displayed fits: a better fit never ranks *)
(* lower, equal fits share a rank, and a shared rank spans at most one     *)
(* hundredth per flat (neighbours are compared, so a chain of near-equal   *)
(* fits can drift); unassessed flats come last and share no rank.  And     *)
(* missing evidence moves no flat by itself: its fit lies between its      *)
(* worst and its best assessed sub-score (score renormalises the weights). *)
(***************************************************************************)
RanksFollowFit ==
    Compared =>
        LET fit == comparisonMade.fit
            ranks == comparisonMade.ranks
            p == comparisonMade.profile
            Known(i) == {SubScore(p.priorities[k], comparisonMade.listings[i], p.budget) :
                            k \in Assessed(p, comparisonMade.listings[i])} IN
        /\ \A i, j \in Flats : i # j =>
              /\ fit[i] > fit[j] => ranks[i] <= ranks[j]
              /\ fit[i] = fit[j] /\ fit[i] # Unknown => ranks[i] = ranks[j]
              /\ ranks[i] = ranks[j] =>
                     fit[i] # Unknown /\ fit[j] # Unknown /\ fit[i] - fit[j] < Cardinality(Flats)
        /\ \A i \in Flats :
              IF Known(i) = {} THEN fit[i] = Unknown ELSE fit[i] \in Min(Known(i))..Max(Known(i))

=============================================================================
