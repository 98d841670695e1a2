----------------------------- MODULE FairPrice -----------------------------
(***************************************************************************)
(* The valuation of one confirmed flat: engines/fair_price.py and          *)
(* engines/fair_price_comparables.py, with the address evidence that       *)
(* services/enrichment_service.py draws from the same sales before it      *)
(* calls the engine.  The engine is a pure function, so the only state is  *)
(* the last call and its answer.                                           *)
(*                                                                         *)
(* A month is counted from the valuation month: 0 is the valuation month,  *)
(* -1 the month before.  "likeness" is the product of the similarity       *)
(* components of a sale (percent, at least 1): the exponentials behind it  *)
(* are data here.  "id" is the canonical key of a sale.                    *)
(***************************************************************************)
EXTENDS Integers, Sequences, FiniteSets, FiniteSetsExt

CONSTANTS
  Ledgers,        \* the transaction snapshots offered, sequences of sales
  Subjects,       \* the flats valued: area, lease in months, type, block
  Forecasts,      \* what predict_catboost may return or raise
  Unstated        \* None

ASSUME FairPriceAssumption ==
  /\ \A ledger \in Ledgers :
       /\ Len(ledger) \in Nat /\ DOMAIN ledger = 1..Len(ledger)
       /\ \A i \in DOMAIN ledger :
            ledger[i].month \in Int /\ ledger[i].area \in Nat /\ ledger[i].lease \in Int \cup {Unstated}
  /\ \A flat \in Subjects : flat.area \in Nat /\ flat.lease \in Int \cup {Unstated}

VARIABLE valuation

fairPriceVars == <<valuation>>

HistoryMonths == 24
MinComparables == 3
TargetComparables == 8
AreaTolerance == <<10, 10, 20, 25, 30, 35>>
LeaseTolerance == <<8, 12, 12, 20, 25, 35>>
Levels == 1..6

Apart(a, b) == IF a >= b THEN a - b ELSE b - a

-----------------------------------------------------------------------------
(* The sales that may be compared. *)

\* _deduplicate_records: the first row of each canonical sale.
IsFirstOfSale(ledger, i) == \A j \in DOMAIN ledger : j < i => ledger[j].id # ledger[i].id

Distinct(ledger) == {ledger[i] : i \in {j \in DOMAIN ledger : IsFirstOfSale(ledger, j)}}

\* The historical pool: strictly before the valuation month, inside the window.
HistoricalLeaky(ledger) ==
  {sale \in Distinct(ledger) :
     -HistoryMonths <= sale.month /\ sale.month <= 0 /\ sale.area > 0 /\ sale.rate > 0}

Historical(ledger) ==
  {sale \in Distinct(ledger) :
     -HistoryMonths <= sale.month /\ sale.month < 0 /\ sale.area > 0 /\ sale.rate > 0}

\* One relaxation level: type always, area and lease by tolerance, and the
\* town until the two broadest levels.
EligibleSales(sale, flat, town, level) ==
  /\ sale.type = flat.type
  /\ 100 * Apart(sale.area, flat.area) <= AreaTolerance[level] * flat.area
  /\ sale.lease # Unstated
  /\ Apart(sale.lease, flat.lease) <= 12 * LeaseTolerance[level]
  /\ level >= 5 \/ town = Unstated \/ sale.town = town

Pool(ledger, flat, town, level) ==
  {sale \in Historical(ledger) : EligibleSales(sale, flat, town, level)}

Enough(n, level) ==
  n >= TargetComparables \/ (n >= MinComparables /\ level = 6)

\* select_comparables: the tightest level with enough sales, or nothing.
LevelsWithEnough(ledger, flat, town) ==
  {level \in Levels : Enough(Cardinality(Pool(ledger, flat, town, level)), level)}

-----------------------------------------------------------------------------
(* Weighting. *)

Likeness(rows) == MapThenSumSet(LAMBDA sale : sale.likeness, rows)

SquaredLikeness(rows) == MapThenSumSet(LAMBDA sale : sale.likeness * sale.likeness, rows)

\* _weighted_quantile: the least rate whose cumulative weight reaches the share.
Quantile(rows, percent) ==
  LET upTo(p) == {sale \in rows : sale.rate <= p}
  IN Min({p \in {sale.rate : sale \in rows} :
            100 * Likeness(upTo(p)) >= percent * Likeness(rows)})

AtLeastEffective(rows, n) == Likeness(rows) * Likeness(rows) >= n * SquaredLikeness(rows)

AtLeastAlike(rows, percent) == Likeness(rows) >= percent * Cardinality(rows)

NarrowSpread(rows) ==
  100 * (Quantile(rows, 85) - Quantile(rows, 15)) <= 35 * Quantile(rows, 50)

\* _confidence without its test of the relaxation level.
GradeByCount(rows, level) ==
  CASE AtLeastEffective(rows, 8) /\ AtLeastAlike(rows, 35) /\ NarrowSpread(rows) -> "HIGH"
    [] AtLeastEffective(rows, 3) /\ AtLeastAlike(rows, 18) /\ level <= 4 -> "MEDIUM"
    [] OTHER -> "LOW"

\* _confidence
Grade(rows, level) ==
  CASE AtLeastEffective(rows, 8) /\ AtLeastAlike(rows, 35) /\ level <= 2 /\ NarrowSpread(rows) -> "HIGH"
    [] AtLeastEffective(rows, 3) /\ AtLeastAlike(rows, 18) /\ level <= 4 -> "MEDIUM"
    [] OTHER -> "LOW"

NoSelection == [grade |-> "NONE", level |-> 0, central |-> 0, low |-> 0, high |-> 0]

\* ComparableSelection, per square metre.
Selection(ledger, flat, town) ==
  IF LevelsWithEnough(ledger, flat, town) = {} THEN NoSelection
  ELSE LET level == Min(LevelsWithEnough(ledger, flat, town))
           rows == Pool(ledger, flat, town, level)
       IN [grade |-> Grade(rows, level), level |-> level,
           central |-> Quantile(rows, 50), low |-> Quantile(rows, 15), high |-> Quantile(rows, 85)]

-----------------------------------------------------------------------------
(* What the enrichment run reads from the sales of the flat's own block. *)

SameBlock(ledger, flat) == {i \in DOMAIN ledger : ledger[i].block = flat.block}

Sole(values) == IF Cardinality(values) = 1 THEN CHOOSE v \in values : TRUE ELSE Unstated

\* derive_town_match_evidence
TownOf(ledger, flat) == Sole({ledger[i].town : i \in SameBlock(ledger, flat)})

\* The geocoder's town, or that of the block's sales where it names none, or
\* none when geocoding failed.
TownsFor(ledger, flat) ==
  {TownOf(ledger, flat), Unstated} \cup {ledger[i].town : i \in DOMAIN ledger}

\* derive_lease_commencement_from_transactions
CommencementOf(ledger, flat) ==
  Sole({ledger[i].commenced : i \in SameBlock(ledger, flat)} \ {0})

\* infer_flat_model_from_transactions: five sales, nine in ten of one model.
FlatModelOf(ledger, flat) ==
  LET known == {i \in SameBlock(ledger, flat) :
                  ledger[i].type = flat.type /\ ledger[i].model # Unstated}
      of(m) == {i \in known : ledger[i].model = m}
      common == {m \in {ledger[i].model : i \in known} :
                   10 * Cardinality(of(m)) >= 9 * Cardinality(known)}
  IN IF Cardinality(known) < 5 \/ common = {} THEN Unstated ELSE CHOOSE m \in common : TRUE

-----------------------------------------------------------------------------
(* FairPriceEngine.estimate *)

Insufficient == [method |-> "INSUFFICIENT_EVIDENCE", grade |-> "NONE", level |-> 0,
                 central |-> 0, low |-> 0, high |-> 0]

Modelled(forecast, chosen) ==
  [method |-> "CATBOOST",
   grade |-> CASE chosen # NoSelection -> chosen.grade
               [] forecast.calibrated >= 100 -> "MEDIUM"
               [] OTHER -> "LOW",
   level |-> chosen.level,
   central |-> forecast.central, low |-> forecast.low, high |-> forecast.high]

FromComparables(chosen) ==
  [method |-> "WEIGHTED_COMPARABLES_FALLBACK", grade |-> chosen.grade, level |-> chosen.level,
   central |-> chosen.central, low |-> chosen.low, high |-> chosen.high]

Usable(flat) == flat.lease # Unstated /\ flat.lease > 0 /\ flat.area > 0

\* An unusable lease or area ends it; a forecast wins; a forecast that is
\* missing or raised leaves the comparables, and without those nothing.
Estimate(ledger, flat, town, forecast) ==
  LET chosen == Selection(ledger, flat, town)
  IN CASE ~Usable(flat) -> Insufficient
       [] Usable(flat) /\ forecast.made -> Modelled(forecast, chosen)
       [] Usable(flat) /\ ~forecast.made /\ chosen = NoSelection -> Insufficient
       [] OTHER -> FromComparables(chosen)

NotValued == [valued |-> FALSE]

FairPriceInit == valuation = NotValued

\* One pricing step of an enrichment run.
PriceFlat(ledger, flat, forecast) ==
  /\ ~valuation.valued
  /\ \E town \in TownsFor(ledger, flat) :
       valuation' =
         [valued |-> TRUE, ledger |-> ledger, flat |-> flat, forecast |-> forecast,
          town |-> town, commenced |-> CommencementOf(ledger, flat),
          model |-> FlatModelOf(ledger, flat),
          answer |-> Estimate(ledger, flat, town, forecast)]

FairPriceNext ==
  \E ledger \in Ledgers, flat \in Subjects, forecast \in Forecasts :
    PriceFlat(ledger, flat, forecast)

FairPriceSpec == FairPriceInit /\ [][FairPriceNext]_fairPriceVars

-----------------------------------------------------------------------------
(* Properties. *)

FairPriceTypeOK ==
  valuation.valued =>
    /\ valuation.answer.grade \in {"HIGH", "MEDIUM", "LOW", "NONE"}
    /\ valuation.answer.level \in 0..6
    /\ valuation.answer.method
         \in {"CATBOOST", "WEIGHTED_COMPARABLES_FALLBACK", "INSUFFICIENT_EVIDENCE"}

\* Sold before the valuation month, in the twenty-four months up to it.
SoldRecently(sale) == sale.month \in -24..-1

\* A valuation cannot see its own month or the future, nor a sale older than
\* the window, and a repeated row weighs nothing: dropping every such row from
\* the snapshot, whatever the levels, quantiles and grades made of it, leaves
\* the answer as it is.  (The town and the forecast are given.)
OnlyThePastCounts ==
  valuation.valued =>
    LET ledger == valuation.ledger
        counts == {i \in DOMAIN ledger : SoldRecently(ledger[i]) /\ IsFirstOfSale(ledger, i)}
        kept == [i \in counts |-> ledger[i]]
    IN Estimate(kept, valuation.flat, valuation.town, valuation.forecast) = valuation.answer

\* HIGH is earned by eight different sales of the past two years and the flat's
\* own town (when the town is known), within a tenth of its area and twelve
\* years of its lease: a broad pool is never HIGH merely because it has many rows, with a
\* model forecast or without.
HighNeedsCloseSales ==
  valuation.valued /\ valuation.answer.grade = "HIGH" =>
    LET flat == valuation.flat
        close == {sale \in {valuation.ledger[i] : i \in DOMAIN valuation.ledger} :
                    /\ SoldRecently(sale)
                    /\ sale.type = flat.type
                    /\ valuation.town \in {Unstated, sale.town}
                    /\ 10 * Apart(sale.area, flat.area) <= flat.area
                    /\ sale.lease # Unstated /\ Apart(sale.lease, flat.lease) <= 144}
    IN Cardinality({sale.id : sale \in close}) >= 8

=============================================================================
