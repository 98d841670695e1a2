--------------------------- MODULE DecisionProofs ---------------------------
(***************************************************************************)
(* Theorems about the decisions the buyer sees: the lease that is left, the *)
(* fair price and the comparison of the shortlist.                         *)
(***************************************************************************)
EXTENDS LeaseEstimate, FairPrice, Comparison, OrderFacts

-----------------------------------------------------------------------------
(* LeaseEstimate: the lease of a flat follows the sales of its own block.  *)

\* A key names one block: what it holds is what its own block would say.
EvidenceIsOfItsBlock ==
  \A key \in DOMAIN leaseEvidence : \A d \in Dwellings :
    CacheKey(d) = key => leaseEvidence[key] = NewestRows(d)

LeaseInv == LeaseTypeOK /\ EvidenceIsOfItsBlock /\ LeaseFollowsItsBlock

LEMMA NewestRowsTyped ==
  ASSUME NEW d
  PROVE  /\ NewestRows(d) \subseteq DOMAIN BlockSales
         /\ IsFiniteSet(NewestRows(d))
         /\ \A i \in NewestRows(d) : i \in Nat /\ Expiry(i) \in Int
<1>1. NewestRows(d) \subseteq BlockRows(d) /\ BlockRows(d) \subseteq DOMAIN BlockSales
  BY DEF NewestRows, BlockRows
<1>2. \A i \in BlockRows(d) : BlockSales[i].left # NotKnown
  BY DEF BlockRows
<1>3. IsFiniteSet(DOMAIN BlockSales) /\ DOMAIN BlockSales \subseteq Nat
  BY LeaseAssumption, FS_Interval
<1>4. IsFiniteSet(NewestRows(d))
  BY <1>1, <1>3, ManyInSubset
<1>5. ASSUME NEW i \in NewestRows(d) PROVE i \in Nat /\ Expiry(i) \in Int
  BY <1>1, <1>2, <1>3, LeaseAssumption DEF Expiry
<1> QED
  BY <1>1, <1>4, <1>5

\* The n-th earliest expiry is one of the expiries.
LEMMA NthIsOne ==
  ASSUME NEW rows, IsFiniteSet(rows), \A i \in rows : i \in Nat /\ Expiry(i) \in Int,
         NEW n \in 1 .. Cardinality(rows)
  PROVE  \E i \in rows : NthExpiry(rows, n) = Expiry(i)
<1> DEFINE before == {p \in rows \X rows : Sooner(p[1], p[2])}
<1>1. \A i, j \in rows : <<i, j>> \in before <=> Sooner(i, j)
  OBVIOUS
<1>2. /\ \A x, y \in rows : x # y => (Sooner(x, y) <=> ~Sooner(y, x))
      /\ \A x \in rows : ~Sooner(x, x)
      /\ \A x, y, z \in rows : Sooner(x, y) /\ Sooner(y, z) => Sooner(x, z)
  <2> DEFINE e == [i \in rows |-> Expiry(i)]
  <2>1. \A i \in rows : i \in Nat /\ e[i] \in Int
    OBVIOUS
  <2>2. \A i, j \in rows : Sooner(i, j) <=> e[i] < e[j] \/ (e[i] = e[j] /\ i < j)
    BY DEF Sooner
  <2> HIDE DEF e
  <2>3. \A x, y \in rows : x # y => (Sooner(x, y) <=> ~Sooner(y, x))
    BY <2>1, <2>2
  <2>4. \A x \in rows : ~Sooner(x, x)
    BY <2>1, <2>2
  <2>5. \A x, y, z \in rows : Sooner(x, y) /\ Sooner(y, z) => Sooner(x, z)
    BY <2>1, <2>2
  <2> QED
    BY <2>3, <2>4, <2>5
<1>3. n - 1 \in 0 .. Cardinality(rows) - 1
  BY FS_CardinalityType
<1> DEFINE sooner == [i \in rows |-> Cardinality({j \in rows : <<j, i>> \in before})]
<1>4. PICK i \in rows : Cardinality({j \in rows : <<j, i>> \in before}) = n - 1
  <2>0. \A i \in rows : sooner[i] = Cardinality({j \in rows : <<j, i>> \in before})
    OBVIOUS
  <2> HIDE DEF before, sooner
  <2>1. \A x, y \in rows : x # y => (<<x, y>> \in before <=> <<y, x>> \notin before)
    BY <1>1, <1>2, Zenon
  <2>2. \A x \in rows : <<x, x>> \notin before
    BY <1>1, <1>2, Zenon
  <2>3. \A x, y, z \in rows : <<x, y>> \in before /\ <<y, z>> \in before => <<x, z>> \in before
    BY <1>1, <1>2
  <2>4. /\ \A k \in 0 .. Cardinality(rows) - 1 : \E i \in rows : sooner[i] = k
        /\ \A i \in rows : sooner[i] \in 0 .. Cardinality(rows) - 1
        /\ \A i, j \in rows : <<i, j>> \in before => sooner[i] < sooner[j]
    BY <2>0, <2>1, <2>2, <2>3, EveryPlaceIsTaken
  <2> QED
    BY <2>0, <2>4, <1>3
<1>5. {j \in rows : Sooner(j, i)} = {j \in rows : <<j, i>> \in before}
  BY <1>1
<1>6. Cardinality({j \in rows : Sooner(j, i)}) = n - 1
  BY <1>4, <1>5
<1> QED
  BY <1>6 DEF NthExpiry

\* The median lies between the earliest and the latest expiry.
LEMMA MedianBetween ==
  ASSUME NEW rows, IsFiniteSet(rows), rows # {},
         \A i \in rows : i \in Nat /\ Expiry(i) \in Int,
         NEW low \in Int, NEW high \in Int, \A i \in rows : low <= Expiry(i) /\ Expiry(i) <= high
  PROVE  MedianExpiry(rows) \in low .. high
<1> DEFINE n == Cardinality(rows)
           upper == NthExpiry(rows, n \div 2 + 1)
           lower == NthExpiry(rows, (n + 1) \div 2)
<1>1. n \in Nat /\ n > 0
  BY FS_CardinalityType, FS_EmptySet
<1>2. n \div 2 + 1 \in 1 .. n /\ (n + 1) \div 2 \in 1 .. n
  <2> HIDE DEF n
  <2> QED
    BY <1>1
<1>3. upper \in low .. high /\ lower \in low .. high
  <2>1. PICK i \in rows : upper = Expiry(i)
    BY <1>2, NthIsOne
  <2>2. PICK j \in rows : lower = Expiry(j)
    BY <1>2, NthIsOne
  <2> QED
    BY <2>1, <2>2
<1> DEFINE half == (lower + upper) \div 2
<1>4. MedianExpiry(rows) = IF (lower + upper) % 2 = 0 THEN half ELSE half + (half % 2)
  BY DEF MedianExpiry
<1> HIDE DEF n, upper, lower
<1> QED
  BY <1>3, <1>4

\* What the sales of a block say, read from all of its newest rows.
LEMMA SalesSayTheirBlock ==
  ASSUME NEW d, NewestRows(d) # {}
  PROVE  LET own == NewestRows(d)
             expiries == {Expiry(i) : i \in own}
             implied == FromSales(own).months + AsOfMonth
         IN /\ implied <= Max(expiries \cup {AsOfMonth})
            /\ implied >= Min(expiries)
            /\ FromSales(own).confidence = "high" => \A a, b \in expiries : a - b <= 6
<1> DEFINE own == NewestRows(d)
           e == [i \in own |-> Expiry(i)]
           expiries == {Expiry(i) : i \in own}
<1>1. IsFiniteSet(own) /\ \A i \in own : i \in Nat /\ Expiry(i) \in Int
  BY NewestRowsTyped
<1>2. expiries = {e[i] : i \in own}
  OBVIOUS
<1>3. expiries \in SUBSET Int /\ IsFiniteSet(expiries) /\ expiries # {}
  <2>1. IsFiniteSet({e[i] : i \in own})
    <3> HIDE DEF e, own
    <3> QED
      BY <1>1, ValuesOf
  <2> QED
    BY <1>1, <1>2, <2>1
<1>4. expiries \cup {AsOfMonth} \in SUBSET Int /\ IsFiniteSet(expiries \cup {AsOfMonth})
  <2> HIDE DEF expiries
  <2> QED
    BY <1>3, LeaseAssumption, FS_AddElement
<1> DEFINE least == Min(expiries)
           most == Max(expiries)
           bound == Max(expiries \cup {AsOfMonth})
<1>5. /\ least \in Int /\ most \in Int /\ bound \in Int
      /\ \A a \in expiries : least <= a /\ a <= most /\ a <= bound
      /\ most \in expiries /\ AsOfMonth <= bound
  <2> HIDE DEF expiries
  <2>1. least \in expiries /\ \A a \in expiries : least <= a
    BY <1>3, LeastOf
  <2>2. most \in expiries /\ \A a \in expiries : most >= a
    BY <1>3, GreatestOf
  <2>3. expiries \cup {AsOfMonth} # {}
    OBVIOUS
  <2>4. bound \in expiries \cup {AsOfMonth} /\ \A a \in expiries \cup {AsOfMonth} : bound >= a
    BY <1>4, <2>3, GreatestOf
  <2> QED
    BY <1>3, <1>4, <2>1, <2>2, <2>4
<1>6. \A i \in own : least <= Expiry(i) /\ Expiry(i) <= most
  <2>1. \A i \in own : Expiry(i) \in expiries
    OBVIOUS
  <2> HIDE DEF expiries
  <2> QED
    BY <1>5, <2>1
<1>7. MedianExpiry(own) \in least .. most
  <2> HIDE DEF own, least, most
  <2> QED
    BY <1>1, <1>5, <1>6, MedianBetween
<1> DEFINE median == MedianExpiry(own)
           said == FromSales(own)
<1>8. said.months = AtLeastNone(median - AsOfMonth)
  BY DEF FromSales
<1>9. said.confidence = "high" => most - least <= 6
  BY DEF FromSales, Disagreement
<1> HIDE DEF own, expiries, least, most, bound, median, said
<1>10. most <= bound /\ median \in Int /\ least <= median /\ median <= most
  BY <1>5, <1>7 DEF median
<1>11. said.months + AsOfMonth <= bound /\ said.months + AsOfMonth >= least
  BY <1>5, <1>8, <1>10, LeaseAssumption DEF AtLeastNone
<1>12. said.confidence = "high" => \A a, b \in expiries : a - b <= 6
  BY <1>3, <1>5, <1>9
<1> QED
  BY <1>11, <1>12 DEF own, expiries, least, most, bound, said

LEMMA LeaseStarts == LeaseInit => LeaseInv
  BY LeaseAssumption
  DEF LeaseInit, LeaseInv, LeaseTypeOK, EvidenceIsOfItsBlock, LeaseFollowsItsBlock, Unasked

LEMMA LeaseKeeps ==
  ASSUME LeaseInv, NEW d \in Dwellings, ResolveLease(d)
  PROVE  LeaseInv'
<1> DEFINE key == CacheKey(d)
           rows == IF Cached(d) THEN leaseEvidence[key] ELSE NewestRows(d)
<1>1. /\ leasesAsked < MaxEstimates /\ leasesAsked' = leasesAsked + 1
      /\ leaseAnswer' = [asked |-> TRUE, dwelling |-> d, estimate |-> Resolved(d, rows)]
      /\ leaseEvidence' = IF Official(d) \/ rows = {} THEN leaseEvidence
                          ELSE [k \in DOMAIN leaseEvidence \cup {key} |->
                                  IF k = key THEN rows ELSE leaseEvidence[k]]
  BY DEF ResolveLease
<1>2. rows = NewestRows(d)
  BY DEF LeaseInv, EvidenceIsOfItsBlock, Cached
<1>3. LeaseTypeOK'
  <2>1. rows \subseteq DOMAIN BlockSales
    BY <1>2, NewestRowsTyped
  <2> HIDE DEF rows, key
  <2> QED
    BY <1>1, <2>1, LeaseAssumption DEF LeaseInv, LeaseTypeOK
<1>4. EvidenceIsOfItsBlock'
  <2>1. ASSUME NEW e \in Dwellings, CacheKey(e) = key PROVE NewestRows(e) = NewestRows(d)
    <3>1. e.block = d.block /\ e.street = d.street
      BY <2>1 DEF CacheKey
    <3>2. BlockRows(e) = BlockRows(d)
      BY <3>1 DEF BlockRows
    <3> QED
      BY <3>2 DEF NewestRows
  <2> HIDE DEF rows, key
  <2> QED
    BY <1>1, <1>2, <2>1 DEF LeaseInv, EvidenceIsOfItsBlock
<1>5. LeaseFollowsItsBlock'
  <2> SUFFICES ASSUME Resolved(d, rows).source = "hdb_same_block_transactions"
               PROVE  rows # {} /\ Resolved(d, rows) = FromSales(rows)
    <3>1. leaseAnswer'.dwelling = d /\ leaseAnswer'.estimate = Resolved(d, rows)
      BY <1>1
    <3>2. NewestRows(d) # {} => LET own == NewestRows(d)
             expiries == {Expiry(i) : i \in own}
             implied == FromSales(own).months + AsOfMonth
         IN /\ implied <= Max(expiries \cup {AsOfMonth})
            /\ implied >= Min(expiries)
            /\ FromSales(own).confidence = "high" => \A a, b \in expiries : a - b <= 6
      BY SalesSayTheirBlock
    <3> HIDE DEF rows
    <3> QED
      BY <1>2, <3>1, <3>2 DEF LeaseFollowsItsBlock
  <2> HIDE DEF rows
  <2> QED
    BY DEF Resolved, FromSales, FromCommencement, NoLease
<1> QED
  BY <1>3, <1>4, <1>5 DEF LeaseInv

LEMMA LeaseInvHolds == LeaseSpec => []LeaseInv
<1>1. LeaseInv /\ [LeaseNext]_leaseVars => LeaseInv'
  <2>1. LeaseInv /\ UNCHANGED leaseVars => LeaseInv'
    BY DEF leaseVars, LeaseInv, LeaseTypeOK, EvidenceIsOfItsBlock, LeaseFollowsItsBlock
  <2> QED
    BY <2>1, LeaseKeeps DEF LeaseNext
<1> QED
  BY <1>1, LeaseStarts, PTL DEF LeaseSpec

\* LeaseFollowsItsBlock: for any sales and any order of listings, a lease read
\* from sales follows those of the flat's own block, cached or not.
THEOREM LeasesFollowTheirBlock == LeaseSpec => []LeaseFollowsItsBlock
<1>1. LeaseInv => LeaseFollowsItsBlock
  BY DEF LeaseInv
<1> QED
  BY <1>1, LeaseInvHolds, PTL

\* LeaseTypeOK: the cache of lease evidence names sales that exist.
THEOREM LeaseTypeCorrect == LeaseSpec => []LeaseTypeOK
<1>1. LeaseInv => LeaseTypeOK
  BY DEF LeaseInv
<1> QED
  BY <1>1, LeaseInvHolds, PTL

-----------------------------------------------------------------------------
(***************************************************************************)
(* FairPrice: later sales and repeated rows change no valuation, and a high *)
(* grade needs close sales.  The argument: a valuation that was made is the *)
(* engine's answer for an offered snapshot and flat, and the engine first  *)
(* reduces the snapshot to a set of sales that those rows are not part of. *)
(***************************************************************************)

\* A valuation was made of an offered snapshot and flat, and says what the
\* engine says of them.
ValuationIsTheEngines ==
  valuation.valued =>
    /\ valuation.ledger \in Ledgers /\ valuation.flat \in Subjects
    /\ valuation.answer = Estimate(valuation.ledger, valuation.flat, valuation.town, valuation.forecast)

\* The pool's months are the past twenty-four.
LEMMA PoolIsRecent ==
  ASSUME NEW ledger \in Ledgers, NEW i \in DOMAIN ledger
  PROVE  SoldRecently(ledger[i]) <=> -HistoryMonths <= ledger[i].month /\ ledger[i].month < 0
<1>1. ledger[i].month \in Int
  BY FairPriceAssumption
<1> QED
  BY <1>1 DEF SoldRecently, HistoryMonths

\* Rows of the valuation month or later, rows older than the window and
\* repeated rows are not in the historical pool anyway.
LEMMA DroppedRowsDoNotCount ==
  ASSUME NEW ledger \in Ledgers
  PROVE  LET counts == {i \in DOMAIN ledger : SoldRecently(ledger[i]) /\ IsFirstOfSale(ledger, i)}
         IN Historical([i \in counts |-> ledger[i]]) = Historical(ledger)
<1> DEFINE counts == {i \in DOMAIN ledger : SoldRecently(ledger[i]) /\ IsFirstOfSale(ledger, i)}
           kept == [i \in counts |-> ledger[i]]
<1>1. \A i \in counts : i \in DOMAIN ledger /\ kept[i] = ledger[i] /\ IsFirstOfSale(kept, i)
  BY DEF IsFirstOfSale
<1>2. DOMAIN kept = counts
  OBVIOUS
<1>3. ASSUME NEW sale \in Historical(kept) PROVE sale \in Historical(ledger)
  <2>1. PICK i \in counts : sale = kept[i]
    BY <1>2 DEF Historical, Distinct
  <2>2. sale \in Distinct(ledger)
    BY <1>1, <2>1 DEF Distinct
  <2> QED
    BY <2>2 DEF Historical
<1>4. ASSUME NEW sale \in Historical(ledger) PROVE sale \in Historical(kept)
  <2>1. PICK i \in DOMAIN ledger : IsFirstOfSale(ledger, i) /\ sale = ledger[i]
                                       /\ -HistoryMonths <= sale.month /\ sale.month < 0
    BY DEF Historical, Distinct
  <2>2. i \in counts
    BY <2>1, PoolIsRecent
  <2>3. sale \in Distinct(kept)
    <3> HIDE DEF kept, counts
    <3> QED
      BY <1>1, <1>2, <2>1, <2>2 DEF Distinct
  <2> HIDE DEF kept
  <2> QED
    BY <2>3 DEF Historical
<1> QED
  BY <1>3, <1>4

\* The engine reads a ledger through its historical pool alone.
LEMMA EstimateReadsHistory ==
  ASSUME NEW a, NEW b, NEW flat, NEW town, NEW forecast, Historical(a) = Historical(b)
  PROVE  Estimate(a, flat, town, forecast) = Estimate(b, flat, town, forecast)
<1>1. \A level : Pool(a, flat, town, level) = Pool(b, flat, town, level)
  BY DEF Pool
<1>2. LevelsWithEnough(a, flat, town) = LevelsWithEnough(b, flat, town)
  BY <1>1 DEF LevelsWithEnough
<1>3. Selection(a, flat, town) = Selection(b, flat, town)
  BY <1>1, <1>2 DEF Selection
<1> QED
  BY <1>3 DEF Estimate

LEMMA LedgerRowsAreFinite ==
  ASSUME NEW ledger \in Ledgers
  PROVE  IsFiniteSet(DOMAIN ledger) /\ DOMAIN ledger \subseteq Nat
<1>1. Len(ledger) \in Nat /\ DOMAIN ledger = 1..Len(ledger)
  BY FairPriceAssumption
<1>2. IsFiniteSet(1..Len(ledger))
  BY <1>1, FS_Interval
<1> QED
  BY <1>1, <1>2

\* The first sales of different ids are different sales of those ids.
LEMMA PoolsCountSales ==
  ASSUME NEW ledger \in Ledgers, NEW flat, NEW town, NEW level
  PROVE  LET pool == Pool(ledger, flat, town, level)
         IN /\ IsFiniteSet(pool) /\ Cardinality(pool) \in Nat
            /\ \A a, b \in pool : a.id = b.id => a = b
<1> DEFINE pool == Pool(ledger, flat, town, level)
           rows == {ledger[i] : i \in DOMAIN ledger}
<1>1. IsFiniteSet(DOMAIN ledger) /\ DOMAIN ledger \subseteq Nat
  BY LedgerRowsAreFinite
<1>2. IsFiniteSet(rows)
  BY <1>1, ValuesOf
<1>3. pool \subseteq rows
  BY DEF Pool, Historical, Distinct
<1>4. IsFiniteSet(pool) /\ Cardinality(pool) \in Nat
  <2> HIDE DEF pool, rows
  <2> QED
    BY <1>2, <1>3, ManyInSubset
<1>5. ASSUME NEW a \in pool, NEW b \in pool, a.id = b.id PROVE a = b
  <2>1. PICK i \in DOMAIN ledger : a = ledger[i] /\ IsFirstOfSale(ledger, i)
    BY DEF Pool, Historical, Distinct
  <2>2. PICK j \in DOMAIN ledger : b = ledger[j] /\ IsFirstOfSale(ledger, j)
    BY DEF Pool, Historical, Distinct
  <2>3. ~(i < j) /\ ~(j < i)
    BY <1>5, <2>1, <2>2 DEF IsFirstOfSale
  <2> QED
    BY <1>1, <2>1, <2>2, <2>3
<1> QED
  BY <1>4, <1>5

\* What a selection is: a level that has enough, graded as such.
LEMMA SelectionIsOfALevel ==
  ASSUME NEW ledger, NEW flat, NEW town, Selection(ledger, flat, town) # NoSelection
  PROVE  \E level \in Levels :
           /\ Enough(Cardinality(Pool(ledger, flat, town, level)), level)
           /\ Selection(ledger, flat, town).level = level
           /\ Selection(ledger, flat, town).grade = Grade(Pool(ledger, flat, town, level), level)
<1> DEFINE levels == LevelsWithEnough(ledger, flat, town)
<1>1. levels # {}
  BY DEF Selection
<1>2. levels \subseteq Levels /\ IsFiniteSet(Levels) /\ Levels \subseteq Int
  <2>1. IsFiniteSet(Levels)
    <3>1. 1 \in Int /\ 6 \in Int
      OBVIOUS
    <3> QED
      BY <3>1, FS_Interval, Zenon DEF Levels
  <2> QED
    BY <2>1 DEF LevelsWithEnough, Levels
<1>3. levels \in SUBSET Int /\ IsFiniteSet(levels)
  <2> HIDE DEF levels
  <2> QED
    BY <1>2, ManyInSubset
<1>4. Min(levels) \in levels
  <2> HIDE DEF levels
  <2> QED
    BY <1>1, <1>3, LeastOf
<1>5. /\ Selection(ledger, flat, town).level = Min(levels)
      /\ Selection(ledger, flat, town).grade = Grade(Pool(ledger, flat, town, Min(levels)), Min(levels))
  BY <1>1 DEF Selection
<1>6. Min(levels) \in Levels /\ Enough(Cardinality(Pool(ledger, flat, town, Min(levels))), Min(levels))
  BY <1>4 DEF LevelsWithEnough
<1> QED
  BY <1>5, <1>6

LEMMA SelectionTyped ==
  ASSUME NEW ledger, NEW flat, NEW town
  PROVE  /\ Selection(ledger, flat, town).grade \in {"HIGH", "MEDIUM", "LOW", "NONE"}
         /\ Selection(ledger, flat, town).level \in 0..6
<1>1. CASE Selection(ledger, flat, town) = NoSelection
  BY <1>1 DEF NoSelection
<1>2. CASE Selection(ledger, flat, town) # NoSelection
  <2>1. PICK level \in Levels :
           /\ Selection(ledger, flat, town).level = level
           /\ Selection(ledger, flat, town).grade = Grade(Pool(ledger, flat, town, level), level)
    BY <1>2, SelectionIsOfALevel
  <2>2. Grade(Pool(ledger, flat, town, level), level) \in {"HIGH", "MEDIUM", "LOW"}
    BY DEF Grade
  <2> QED
    BY <2>1, <2>2 DEF Levels
<1> QED
  BY <1>1, <1>2

\* HIGH comes from a tight level alone, and for a flat that can be compared.
LEMMA HighComesFromATightLevel ==
  ASSUME NEW ledger, NEW flat, NEW town, NEW forecast,
         Estimate(ledger, flat, town, forecast).grade = "HIGH"
  PROVE  Usable(flat) /\ \E level \in {1, 2} : Cardinality(Pool(ledger, flat, town, level)) >= 8
<1> DEFINE chosen == Selection(ledger, flat, town)
<1>1. chosen # NoSelection /\ chosen.grade = "HIGH"
  BY DEF Estimate, Insufficient, Modelled, FromComparables, NoSelection
<1>2. PICK level \in Levels :
         /\ Enough(Cardinality(Pool(ledger, flat, town, level)), level)
         /\ Grade(Pool(ledger, flat, town, level), level) = "HIGH"
  BY <1>1, SelectionIsOfALevel
<1>3. level <= 2
  BY <1>2 DEF Grade
<1>4. level \in {1, 2}
  BY <1>2, <1>3 DEF Levels
<1>5. Usable(flat)
  BY DEF Estimate, Insufficient
<1> QED
  BY <1>2, <1>4, <1>5 DEF Enough, TargetComparables

LEMMA HighNeedsEightSales ==
  ASSUME ValuationIsTheEngines
  PROVE  HighNeedsCloseSales
<1> SUFFICES ASSUME valuation.valued, valuation.answer.grade = "HIGH"
             PROVE  LET flat == valuation.flat
        close == {sale \in {valuation.ledger[i] : i \in DOMAIN valuation.ledger} :
                    /\ SoldRecently(sale)
                    /\ sale.type = flat.type
                    /\ valuation.town \in {Unstated, sale.town}
                    /\ 10 * Apart(sale.area, flat.area) <= flat.area
                    /\ sale.lease # Unstated /\ Apart(sale.lease, flat.lease) <= 144}
    IN Cardinality({sale.id : sale \in close}) >= 8
  BY DEF HighNeedsCloseSales
<1> DEFINE ledger == valuation.ledger
           flat == valuation.flat
           town == valuation.town
           rows == {ledger[i] : i \in DOMAIN ledger}
           close == {sale \in rows :
                    /\ SoldRecently(sale)
                    /\ sale.type = flat.type
                    /\ town \in {Unstated, sale.town}
                    /\ 10 * Apart(sale.area, flat.area) <= flat.area
                    /\ sale.lease # Unstated /\ Apart(sale.lease, flat.lease) <= 144}
           ids == [sale \in rows |-> sale.id]
<1>1. ledger \in Ledgers /\ flat \in Subjects
  BY DEF ValuationIsTheEngines
<1>2. Usable(flat) /\ \E level \in {1, 2} : Cardinality(Pool(ledger, flat, town, level)) >= 8
  BY HighComesFromATightLevel DEF ValuationIsTheEngines
<1> PICK level \in {1, 2} : Cardinality(Pool(ledger, flat, town, level)) >= 8
  BY <1>2
<1> DEFINE pool == Pool(ledger, flat, town, level)
<1>3. IsFiniteSet(pool) /\ Cardinality(pool) \in Nat /\ \A a, b \in pool : a.id = b.id => a = b
  BY <1>1, PoolsCountSales
<1>4. IsFiniteSet(rows)
  <2>1. IsFiniteSet(DOMAIN ledger)
    BY <1>1, LedgerRowsAreFinite
  <2> HIDE DEF ledger
  <2> QED
    BY <2>1, ValuesOf
<1>5. pool \subseteq close
  <2> SUFFICES ASSUME NEW sale \in pool PROVE sale \in close
    OBVIOUS
  <2>0. /\ sale \in rows /\ -HistoryMonths <= sale.month /\ sale.month < 0
        /\ EligibleSales(sale, flat, town, level)
    BY DEF Pool, Historical, Distinct
  <2>1. sale \in rows /\ SoldRecently(sale) /\ EligibleSales(sale, flat, town, level)
    BY <1>1, <2>0, PoolIsRecent
  <2>2. sale.area \in Nat /\ sale.lease \in Int \cup {Unstated} /\ flat.area \in Nat
    BY <1>1, <2>1, FairPriceAssumption
  <2>3. AreaTolerance[level] = 10 /\ LeaseTolerance[level] \in {8, 12}
    BY <1>2 DEF AreaTolerance, LeaseTolerance
  <2>4. /\ sale.type = flat.type /\ town \in {Unstated, sale.town} /\ sale.lease # Unstated
        /\ 100 * Apart(sale.area, flat.area) <= 10 * flat.area
        /\ Apart(sale.lease, flat.lease) <= 12 * LeaseTolerance[level]
    BY <2>1, <2>3, <1>2 DEF EligibleSales
  <2>5. Apart(sale.area, flat.area) \in Int
    BY <2>2 DEF Apart
  <2>6. 10 * Apart(sale.area, flat.area) <= flat.area
    BY <2>2, <2>4, <2>5
  <2>7. Apart(sale.lease, flat.lease) <= 144
    <3>1. flat.lease \in Int /\ sale.lease \in Int
      BY <1>1, <2>2, <2>4, <1>2, FairPriceAssumption DEF Usable
    <3>2. Apart(sale.lease, flat.lease) \in Int
      BY <3>1 DEF Apart
    <3> QED
      BY <3>2, <2>3, <2>4
  <2> QED
    BY <2>1, <2>4, <2>6, <2>7
<1> DEFINE idOf == [sale \in pool |-> sale.id]
           poolIds == {idOf[sale] : sale \in pool}
           closeIds == {sale.id : sale \in close}
<1>6. IsFiniteSet(closeIds)
  <2> DEFINE g == [sale \in close |-> sale.id]
  <2>1. IsFiniteSet(close)
    <3>1. close \subseteq rows
      OBVIOUS
    <3> HIDE DEF close, rows
    <3> QED
      BY <3>1, <1>4, ManyInSubset
  <2>2. IsFiniteSet({g[sale] : sale \in close})
    <3> HIDE DEF g, close
    <3> QED
      BY <2>1, ValuesOf
  <2>3. {g[sale] : sale \in close} = closeIds
    <3> HIDE DEF close
    <3> QED
      OBVIOUS
  <2> QED
    BY <2>2, <2>3
<1>7. Cardinality(poolIds) = Cardinality(pool)
  <2>1. idOf \in Injection(pool, poolIds) /\ idOf \in Surjection(pool, poolIds)
    <3> HIDE DEF pool
    <3> QED
      BY <1>3 DEF Injection, Surjection, IsInjective
  <2> HIDE DEF pool, poolIds, idOf
  <2> QED
    BY <2>1, <1>3, FS_Surjection
<1>8. poolIds \subseteq closeIds
  <2> HIDE DEF pool, close
  <2> QED
    BY <1>5
<1>9. Cardinality(poolIds) <= Cardinality(closeIds) /\ Cardinality(closeIds) \in Nat
  <2> HIDE DEF poolIds, closeIds
  <2> QED
    BY <1>6, <1>8, ManyInSubset
<1>10. Cardinality(closeIds) >= 8
  <2> HIDE DEF poolIds, closeIds, pool
  <2> QED
    BY <1>3, <1>7, <1>9, <1>2 DEF pool
<1> QED
  BY <1>10

LEMMA ValuationsHold == FairPriceSpec => []ValuationIsTheEngines
<1>1. FairPriceInit => ValuationIsTheEngines
  BY DEF FairPriceInit, NotValued, ValuationIsTheEngines
<1>2. ValuationIsTheEngines /\ [FairPriceNext]_fairPriceVars => ValuationIsTheEngines'
  <2> SUFFICES ASSUME ValuationIsTheEngines, [FairPriceNext]_fairPriceVars
               PROVE  ValuationIsTheEngines'
    OBVIOUS
  <2>1. CASE UNCHANGED fairPriceVars
    BY <2>1 DEF fairPriceVars, ValuationIsTheEngines
  <2>2. ASSUME NEW ledger \in Ledgers, NEW flat \in Subjects, NEW forecast \in Forecasts,
               PriceFlat(ledger, flat, forecast)
        PROVE  ValuationIsTheEngines'
    BY <2>2 DEF PriceFlat, ValuationIsTheEngines
  <2> QED
    BY <2>1, <2>2 DEF FairPriceNext
<1> QED
  BY <1>1, <1>2, PTL DEF FairPriceSpec

\* OnlyThePastCounts: no snapshot, flat or forecast makes a valuation see its
\* own month, the future, a sale older than the window, or a row twice.
THEOREM ValuationsSeeThePast == FairPriceSpec => []OnlyThePastCounts
<1>1. ValuationIsTheEngines => OnlyThePastCounts
  BY DroppedRowsDoNotCount, EstimateReadsHistory DEF ValuationIsTheEngines, OnlyThePastCounts
<1> QED
  BY <1>1, ValuationsHold, PTL

\* HighNeedsCloseSales: HIGH rests on eight different sales of the past two
\* years close to the flat, for any snapshot, flat and forecast.
THEOREM HighGradesAreEarned == FairPriceSpec => []HighNeedsCloseSales
<1>1. ValuationIsTheEngines => HighNeedsCloseSales
  BY HighNeedsEightSales
<1> QED
  BY <1>1, ValuationsHold, PTL

\* FairPriceTypeOK: methods, grades and levels.
THEOREM ValuationsTyped == FairPriceSpec => []FairPriceTypeOK
<1>1. ValuationIsTheEngines => FairPriceTypeOK
  BY SelectionTyped
  DEF ValuationIsTheEngines, FairPriceTypeOK, Estimate, Insufficient, Modelled, FromComparables
<1> QED
  BY <1>1, ValuationsHold, PTL

-----------------------------------------------------------------------------
(***************************************************************************)
(* Comparison: the flat recommended passes, leads clearly, and the ranks   *)
(* follow the scores.  The argument: the places of the flats in the order of *)
(* their scores are taken once each, the scores fall along them, and between *)
(* two flats of one rank no step is above 0.01.                            *)
(***************************************************************************)

IsProfile(p) ==
  /\ p.budget \in Nat \ {0} /\ IsFiniteSet(DOMAIN p.limits)
  /\ DOMAIN p.priorities \subseteq 1..3
  /\ \A k \in DOMAIN p.priorities : p.priorities[k] \in Priorities

LEMMA RoundedIsWhole ==
  ASSUME NEW n \in Int, NEW d \in Nat, d > 0
  PROVE  Rounded(n, d) \in Int
<1>1. 2 * n + d \in Int /\ 2 * d \in Nat /\ 2 * d > 0
  OBVIOUS
<1> QED
  BY <1>1, Quotient DEF Rounded

LEMMA ShortestTyped ==
  ASSUME NEW times, IsFiniteSet(times), times \subseteq Nat
  PROVE  Shortest(times) \in Nat \cup {Unknown}
<1>1. CASE times = {}
  BY <1>1 DEF Shortest
<1>2. CASE times # {}
  <2>1. Min(times) \in times
    BY <1>2, LeastOf
  <2> QED
    BY <1>2, <2>1 DEF Shortest
<1> QED
  BY <1>1, <1>2

LEMMA RawValueTyped ==
  ASSUME NEW flat, IsFlat(flat), NEW priority \in Priorities
  PROVE  /\ RawValue(priority, flat) \in Nat \cup {Unknown}
         /\ priority = "FAIR_PRICE" => RawValue(priority, flat) # 0
<1>1. CASE priority = "IMPORTANT_LOCATION_JOURNEY"
  <2> DEFINE seconds == [j \in flat.journeys |-> j.seconds]
             times == {seconds[j] : j \in flat.journeys}
  <2>1. IsFiniteSet(flat.journeys) /\ \A j \in flat.journeys : j.seconds \in Nat
    BY DEF IsFlat
  <2>2. IsFiniteSet(times)
    <3> HIDE DEF seconds
    <3> QED
      BY <2>1, ValuesOf
  <2>3. times \subseteq Nat
    BY <2>1
  <2>4. times = {j.seconds : j \in flat.journeys}
    OBVIOUS
  <2> HIDE DEF times
  <2>5. Shortest(times) \in Nat \cup {Unknown}
    BY <2>2, <2>3, ShortestTyped
  <2> QED
    BY <1>1, <2>4, <2>5 DEF RawValue
<1>2. CASE priority = "AFFORDABILITY"
  BY <1>2 DEF RawValue, IsFlat
<1>3. CASE priority = "SPACE"
  BY <1>3 DEF RawValue, IsFlat
<1>4. CASE priority = "LEASE"
  <2>1. {flat.leaseMonths, flat.leaseYears} \subseteq Nat \cup {Unknown}
    BY DEF IsFlat
  <2>2. Months(flat) \in Nat \cup {Unknown}
    BY <2>1 DEF Months, Unknown
  <2> QED
    BY <1>4, <2>2 DEF RawValue
<1>5. CASE priority = "PUBLIC_TRANSPORT"
  BY <1>5 DEF RawValue, IsFlat
<1>6. CASE priority = "DRIVING"
  BY <1>6 DEF RawValue, IsFlat
<1>7. CASE priority = "SCHOOLS"
  BY <1>7 DEF RawValue, IsFlat
<1>8. CASE priority = "FAIR_PRICE"
  BY <1>8 DEF RawValue, IsFlat
<1> QED
  BY <1>1, <1>2, <1>3, <1>4, <1>5, <1>6, <1>7, <1>8 DEF Priorities

LEMMA SubScoreTyped ==
  ASSUME NEW flat, IsFlat(flat), NEW priority \in Priorities, NEW budget \in Nat \ {0}
  PROVE  SubScore(priority, flat, budget) = Unknown \/ SubScore(priority, flat, budget) \in 0..FullScore
<1> DEFINE value == RawValue(priority, flat)
           points == Points(priority, flat, budget)
<1>1. CASE value = Unknown
  BY <1>1 DEF SubScore
<1>2. CASE value # Unknown
  <2>1. value \in Nat /\ (priority = "FAIR_PRICE" => value > 0)
    BY <1>2, RawValueTyped
  <2>2. flat.price \in Nat /\ budget \in Nat /\ budget > 0
    BY DEF IsFlat
  <2> HIDE DEF value
  <2>3. points \in Int
    <3>1. CASE priority = "AFFORDABILITY"
      <4> DEFINE over == Rounded(20000 * value, budget) - 15000
      <4>1. over \in Int
        <5>1. 20000 * value \in Int
          BY <2>1
        <5> QED
          BY <2>2, <5>1, RoundedIsWhole
      <4> HIDE DEF over
      <4>2. Max({0, over}) \in Int
        <5>1. {0, over} = {0} \cup {over} /\ IsFiniteSet({0})
          BY FS_Singleton
        <5>2. IsFiniteSet({0, over})
          BY <5>1, FS_AddElement
        <5>3. {0, over} \subseteq Int /\ {0, over} # {}
          BY <4>1
        <5> HIDE <5>1
        <5> QED
          BY <5>2, <5>3, GreatestOf
      <4>3. points = 10000 - Max({0, over})
        BY <3>1 DEF Points, over, value
      <4> QED
        BY <4>2, <4>3
    <3>2. CASE priority = "SPACE"
      <4>1. points = Rounded((value - 60) * 10000, 60)
        BY <3>2 DEF Points, value
      <4> QED
        BY <2>1, <4>1, RoundedIsWhole
    <3>3. CASE priority = "LEASE"
      <4>1. points = Rounded((value - 480) * 10000, 480)
        BY <3>3 DEF Points, value
      <4> QED
        BY <2>1, <4>1, RoundedIsWhole
    <3>4. CASE priority = "IMPORTANT_LOCATION_JOURNEY"
      <4>1. points = Rounded(36000000 - (value - 900) * 10000, 3600)
        BY <3>4 DEF Points, value
      <4> QED
        BY <2>1, <4>1, RoundedIsWhole
    <3>5. CASE priority = "FAIR_PRICE"
      <4>1. points = 5000 + Rounded((value - flat.price) * 500 * Multiplier(flat.confidence), value)
        BY <3>5 DEF Points, value
      <4>2. Multiplier(flat.confidence) \in Int
        BY DEF Multiplier
      <4>3. (value - flat.price) * 500 * Multiplier(flat.confidence) \in Int
        BY <2>1, <2>2, <4>2
      <4>4. Rounded((value - flat.price) * 500 * Multiplier(flat.confidence), value) \in Int
        BY <2>1, <3>5, <4>3, RoundedIsWhole
      <4> QED
        BY <4>1, <4>4
    <3>6. CASE priority \notin {"AFFORDABILITY", "SPACE", "LEASE", "IMPORTANT_LOCATION_JOURNEY", "FAIR_PRICE"}
      BY <2>1, <3>6 DEF Points, value
    <3> QED
      BY <3>1, <3>2, <3>3, <3>4, <3>5, <3>6
  <2>4. SubScore(priority, flat, budget) = Within(0, points, FullScore)
    BY <1>2 DEF SubScore, value
  <2> HIDE DEF points
  <2> QED
    BY <2>3, <2>4 DEF Within, FullScore
<1> QED
  BY <1>1, <1>2

Scored(p, flat, k) == SubScore(p.priorities[k], flat, p.budget)

LEMMA AssessedTyped ==
  ASSUME NEW p, IsProfile(p), NEW flat, IsFlat(flat), NEW k \in Assessed(p, flat)
  PROVE  k \in 1..3 /\ Scored(p, flat, k) \in 0..FullScore
<1>1. k \in DOMAIN p.priorities /\ Scored(p, flat, k) # Unknown
  BY DEF Assessed, Scored
<1>2. k \in 1..3 /\ p.priorities[k] \in Priorities /\ p.budget \in Nat \ {0}
  BY <1>1 DEF IsProfile
<1>3. Scored(p, flat, k) = Unknown \/ Scored(p, flat, k) \in 0..FullScore
  BY <1>2, SubScoreTyped DEF Scored
<1> QED
  BY <1>1, <1>2, <1>3

\* What a priority adds to the sum and to the weight of a flat.
LEMMA SharesTyped ==
  ASSUME NEW p, IsProfile(p), NEW flat, IsFlat(flat), NEW k \in 1..3
  PROVE  /\ WeightAt(p, flat, k) \in Nat
         /\ k \in Assessed(p, flat) => /\ WeightAt(p, flat, k) > 0
                                       /\ WeightAt(p, flat, k) = Weight[k]
                                       /\ PointsAt(p, flat, k) = Weight[k] * Scored(p, flat, k)
         /\ k \notin Assessed(p, flat) => WeightAt(p, flat, k) = 0 /\ PointsAt(p, flat, k) = 0
         /\ PointsAt(p, flat, k) \in Int
         /\ Weight[k] \in Nat /\ Weight[k] > 0
<1>1. Weight[k] \in Nat /\ Weight[k] > 0
  BY DEF Weight
<1>2. CASE k \in Assessed(p, flat)
  <2>1. Scored(p, flat, k) \in 0..FullScore
    BY <1>2, AssessedTyped
  <2>2. WeightAt(p, flat, k) = Weight[k] /\ PointsAt(p, flat, k) = Weight[k] * Scored(p, flat, k)
    BY <1>2 DEF WeightAt, PointsAt, Scored
  <2>3. Weight[k] * Scored(p, flat, k) \in Int
    BY <1>1, <2>1
  <2> QED
    BY <1>1, <1>2, <2>2, <2>3
<1>3. CASE k \notin Assessed(p, flat)
  BY <1>1, <1>3 DEF WeightAt, PointsAt
<1> QED
  BY <1>2, <1>3

LEMMA TotalTyped ==
  ASSUME NEW p, IsProfile(p), NEW flat, IsFlat(flat), Assessed(p, flat) # {}
  PROVE  /\ Total(p, flat).sum \in Int /\ Total(p, flat).of \in Nat /\ Total(p, flat).of > 0
         /\ Total(p, flat).sum = PointsAt(p, flat, 1) + PointsAt(p, flat, 2) + PointsAt(p, flat, 3)
         /\ Total(p, flat).of = WeightAt(p, flat, 1) + WeightAt(p, flat, 2) + WeightAt(p, flat, 3)
<1>1. /\ Total(p, flat).sum = PointsAt(p, flat, 1) + PointsAt(p, flat, 2) + PointsAt(p, flat, 3)
      /\ Total(p, flat).of = WeightAt(p, flat, 1) + WeightAt(p, flat, 2) + WeightAt(p, flat, 3)
  BY DEF Total
<1>2. PICK k \in Assessed(p, flat) : TRUE
  OBVIOUS
<1>3. k = 1 \/ k = 2 \/ k = 3
  BY AssessedTyped
<1>4. \A j \in {1, 2, 3} : WeightAt(p, flat, j) \in Nat /\ PointsAt(p, flat, j) \in Int
  BY SharesTyped
<1>5. WeightAt(p, flat, k) > 0
  BY <1>3, SharesTyped
<1> QED
  BY <1>1, <1>3, <1>4, <1>5

\* The mean lies between any bounds of the assessed sub-scores.
LEMMA FitBetween ==
  ASSUME NEW p, IsProfile(p), NEW flat, IsFlat(flat), Assessed(p, flat) # {},
         NEW low \in Int, NEW high \in Int,
         \A k \in Assessed(p, flat) : low <= Scored(p, flat, k) /\ Scored(p, flat, k) <= high
  PROVE  Fit(p, flat) \in low..high
<1> DEFINE sum == Total(p, flat).sum
           of == Total(p, flat).of
<1>1. /\ sum \in Int /\ of \in Nat /\ of > 0
      /\ sum = PointsAt(p, flat, 1) + PointsAt(p, flat, 2) + PointsAt(p, flat, 3)
      /\ of = WeightAt(p, flat, 1) + WeightAt(p, flat, 2) + WeightAt(p, flat, 3)
  BY TotalTyped
<1>2. Fit(p, flat) = Rounded(sum, of)
  BY DEF Fit
<1> HIDE DEF sum, of
<1>3. ASSUME NEW k \in 1..3
      PROVE  /\ WeightAt(p, flat, k) * low <= PointsAt(p, flat, k)
             /\ PointsAt(p, flat, k) <= WeightAt(p, flat, k) * high
             /\ WeightAt(p, flat, k) \in Nat /\ PointsAt(p, flat, k) \in Int
             /\ WeightAt(p, flat, k) * low \in Int /\ WeightAt(p, flat, k) * high \in Int
  <2> DEFINE w == Weight[k]
             score == Scored(p, flat, k)
  <2>1. CASE k \in Assessed(p, flat)
    <3>1. score \in Int /\ low <= score /\ score <= high /\ w \in Nat
      <4>1. score \in 0..FullScore
        BY <2>1, AssessedTyped
      <4>2. low <= score /\ score <= high
        BY <2>1
      <4> QED
        BY <4>1, <4>2, SharesTyped
    <3>2. /\ WeightAt(p, flat, k) = w /\ PointsAt(p, flat, k) = w * score
      BY <2>1, SharesTyped
    <3> HIDE DEF w, score
    <3>3. w * low <= w * score /\ w * score <= w * high
      BY <3>1
    <3> QED
      BY <3>1, <3>2, <3>3
  <2>2. CASE k \notin Assessed(p, flat)
    <3>1. WeightAt(p, flat, k) = 0 /\ PointsAt(p, flat, k) = 0
      BY <2>2, SharesTyped
    <3> QED
      BY <3>1
  <2> QED
    BY <2>1, <2>2
<1>4. of * low <= sum /\ sum <= of * high
  <2> DEFINE w1 == WeightAt(p, flat, 1)
             w2 == WeightAt(p, flat, 2)
             w3 == WeightAt(p, flat, 3)
  <2>1. /\ w1 * low <= PointsAt(p, flat, 1) /\ PointsAt(p, flat, 1) <= w1 * high
        /\ w1 \in Nat /\ PointsAt(p, flat, 1) \in Int /\ w1 * low \in Int /\ w1 * high \in Int
    BY <1>3
  <2>2. /\ w2 * low <= PointsAt(p, flat, 2) /\ PointsAt(p, flat, 2) <= w2 * high
        /\ w2 \in Nat /\ PointsAt(p, flat, 2) \in Int /\ w2 * low \in Int /\ w2 * high \in Int
    BY <1>3
  <2>3. /\ w3 * low <= PointsAt(p, flat, 3) /\ PointsAt(p, flat, 3) <= w3 * high
        /\ w3 \in Nat /\ PointsAt(p, flat, 3) \in Int /\ w3 * low \in Int /\ w3 * high \in Int
    BY <1>3
  <2> HIDE DEF w1, w2, w3
  <2>4. of = w1 + w2 + w3
    BY <1>1 DEF w1, w2, w3
  <2>5. /\ of * low = w1 * low + w2 * low + w3 * low
        /\ of * high = w1 * high + w2 * high + w3 * high
    BY <2>1, <2>2, <2>3, <2>4
  <2> QED
    BY <1>1, <2>1, <2>2, <2>3, <2>5
<1> QED
  BY <1>1, <1>2, <1>4, RoundedBetween DEF Rounded

LEMMA FitTyped ==
  ASSUME NEW p, IsProfile(p), NEW flat, IsFlat(flat)
  PROVE  /\ Assessed(p, flat) = {} => Fit(p, flat) = Unknown
         /\ Assessed(p, flat) # {} => Fit(p, flat) \in 0..FullScore
         /\ Fit(p, flat) \in Int
<1>1. Assessed(p, flat) = {} => Fit(p, flat) = Unknown
  BY DEF Fit
<1>2. ASSUME Assessed(p, flat) # {} PROVE Fit(p, flat) \in 0..FullScore
  <2>0. FullScore \in Int
    BY DEF FullScore
  <2>1. \A k \in Assessed(p, flat) : 0 <= Scored(p, flat, k) /\ Scored(p, flat, k) <= FullScore
    BY <2>0, AssessedTyped
  <2> QED
    BY <1>2, <2>0, <2>1, FitBetween
<1>3. Assessed(p, flat) # {} => Fit(p, flat) \in 0..FullScore
  BY <1>2
<1>4. FullScore \in Int
  BY DEF FullScore
<1> QED
  BY <1>1, <1>3, <1>4 DEF Unknown

LEMMA RoundedRises ==
  ASSUME NEW a \in Int, NEW b \in Int, NEW of \in Nat, of > 0, b <= a
  PROVE  Rounded(b, of) <= Rounded(a, of)
<1> DEFINE d == 2 * of
           qa == (2 * a + of) \div d
           qb == (2 * b + of) \div d
<1>1. d \in Nat /\ d > 0 /\ 2 * a + of \in Int /\ 2 * b + of \in Int /\ 2 * b + of <= 2 * a + of
  OBVIOUS
<1> HIDE DEF d
<1>2. /\ qa \in Int /\ qb \in Int
      /\ 2 * a + of < d * qa + d /\ d * qb <= 2 * b + of
  BY <1>1, Quotient
<1>3. Rounded(a, of) = qa /\ Rounded(b, of) = qb
  BY DEF Rounded, d
<1> HIDE DEF qa, qb
<1>4. qa < qb => d * qa + d <= d * qb
  BY <1>1, <1>2, Scaled
<1>5. d * qa \in Int /\ d * qb \in Int
  BY <1>1, <1>2
<1> QED
  BY <1>1, <1>2, <1>3, <1>4, <1>5

\* A flat with the same evidence that is nowhere worse has no lower fit.
LEMMA FitFollowsScores ==
  ASSUME NEW p, IsProfile(p), NEW f, IsFlat(f), NEW g, IsFlat(g),
         Assessed(p, f) # {}, Assessed(p, g) = Assessed(p, f),
         \A k \in Assessed(p, f) : Scored(p, g, k) <= Scored(p, f, k)
  PROVE  Fit(p, g) <= Fit(p, f)
<1> DEFINE of == Total(p, f).of
           a == Total(p, f).sum
           b == Total(p, g).sum
<1>1. /\ a \in Int /\ of \in Nat /\ of > 0
      /\ a = PointsAt(p, f, 1) + PointsAt(p, f, 2) + PointsAt(p, f, 3)
      /\ of = WeightAt(p, f, 1) + WeightAt(p, f, 2) + WeightAt(p, f, 3)
  BY TotalTyped
<1>2. /\ b \in Int
      /\ b = PointsAt(p, g, 1) + PointsAt(p, g, 2) + PointsAt(p, g, 3)
      /\ Total(p, g).of = WeightAt(p, g, 1) + WeightAt(p, g, 2) + WeightAt(p, g, 3)
  BY TotalTyped
<1>3. \A k \in {1, 2, 3} : WeightAt(p, g, k) = WeightAt(p, f, k)
  BY DEF WeightAt
<1>4. Total(p, g).of = of
  BY <1>1, <1>2, <1>3
<1>5. Fit(p, f) = Rounded(a, of) /\ Fit(p, g) = Rounded(b, of)
  BY <1>4 DEF Fit
<1> HIDE DEF of, a, b
<1>6. ASSUME NEW k \in 1..3 PROVE PointsAt(p, g, k) <= PointsAt(p, f, k)
  <2>1. CASE k \in Assessed(p, f)
    <3> DEFINE w == Weight[k]
               s == Scored(p, f, k)
               t == Scored(p, g, k)
    <3>1. s \in Int /\ t \in Int /\ t <= s /\ w \in Nat
      <4>1. k \in Assessed(p, g)
        BY <2>1
      <4>2. s \in 0..FullScore
        BY <2>1, AssessedTyped
      <4>3. t \in 0..FullScore
        BY <4>1, AssessedTyped
      <4>4. t <= s
        BY <2>1
      <4> QED
        BY <4>2, <4>3, <4>4, SharesTyped
    <3>2. PointsAt(p, f, k) = w * s /\ PointsAt(p, g, k) = w * t
      BY <2>1, SharesTyped
    <3> HIDE DEF w, s, t
    <3>3. w * t <= w * s
      BY <3>1
    <3> QED
      BY <3>2, <3>3
  <2>2. CASE k \notin Assessed(p, f)
    <3>1. PointsAt(p, f, k) = 0 /\ PointsAt(p, g, k) = 0
      BY <2>2, SharesTyped
    <3> QED
      BY <3>1
  <2> QED
    BY <2>1, <2>2
<1>7. \A k \in 1..3 : PointsAt(p, f, k) \in Int /\ PointsAt(p, g, k) \in Int
  BY SharesTyped
<1>8. b <= a
  BY <1>1, <1>2, <1>6, <1>7
<1> QED
  BY <1>1, <1>2, <1>5, <1>8, RoundedRises

(***************************************************************************)
(* The order of the flats and their ranks.                                 *)
(***************************************************************************)
IsFits(fit, n) == n \in 1..5 /\ fit \in [1..n -> Int]

\* Every place is some flat's, and a flat ahead of another has an earlier one.
LEMMA PlacesAreTaken ==
  ASSUME NEW fit, NEW n, IsFits(fit, n)
  PROVE  /\ \A i \in 1..n : Position(fit, i) \in 1..n /\ InOrder(fit)[Position(fit, i)] = i
         /\ \A k \in 1..n : InOrder(fit)[k] \in 1..n /\ Position(fit, InOrder(fit)[k]) = k
         /\ \A i, j \in 1..n : Ahead(fit, i, j) <=> Position(fit, i) < Position(fit, j)
<1> DEFINE S == 1..n
           before == {q \in S \X S : Ahead(fit, q[1], q[2])}
           Before(i) == {j \in S : <<j, i>> \in before}
<1>1. n \in 1..5 /\ fit \in [S -> Int] /\ DOMAIN fit = S
  BY DEF IsFits
<1>2. IsFiniteSet(S) /\ Cardinality(S) = n
  <2>1. 1 \in Int /\ n \in Int /\ n >= 1
    BY <1>1
  <2>2. IsFiniteSet(1..n) /\ Cardinality(1..n) = IF 1 > n THEN 0 ELSE n - 1 + 1
    BY <2>1, FS_Interval
  <2> QED
    BY <2>1, <2>2
<1>3. \A i, j \in S : i # j => (<<i, j>> \in before <=> <<j, i>> \notin before)
  BY <1>1 DEF Ahead
<1>4. \A i \in S : <<i, i>> \notin before
  BY <1>1 DEF Ahead
<1>5. \A i, j, k \in S : <<i, j>> \in before /\ <<j, k>> \in before => <<i, k>> \in before
  <2> SUFFICES ASSUME NEW i \in S, NEW j \in S, NEW k \in S, Ahead(fit, i, j), Ahead(fit, j, k)
               PROVE  Ahead(fit, i, k)
    OBVIOUS
  <2>1. fit[i] \in Int /\ fit[j] \in Int /\ fit[k] \in Int /\ i \in Int /\ j \in Int /\ k \in Int
    BY <1>1
  <2> QED
    BY <2>1 DEF Ahead
<1>6. \A i \in S : Position(fit, i) = 1 + Cardinality(Before(i))
  <2> SUFFICES ASSUME NEW i \in S PROVE Position(fit, i) = 1 + Cardinality(Before(i))
    OBVIOUS
  <2>1. {j \in DOMAIN fit : Ahead(fit, j, i)} = Before(i)
    BY <1>1
  <2>2. Position(fit, i) = 1 + Cardinality({j \in DOMAIN fit : Ahead(fit, j, i)})
    BY DEF Position
  <2> HIDE DEF Before
  <2> QED
    BY <2>1, <2>2
<1> DEFINE ahead == [i \in S |-> Cardinality(Before(i))]
<1>7. \A i \in S : ahead[i] = Cardinality({j \in S : <<j, i>> \in before})
  OBVIOUS
<1>8. /\ \A k \in 0 .. n - 1 : \E i \in S : ahead[i] = k
      /\ \A i \in S : ahead[i] \in 0 .. n - 1
      /\ \A i, j \in S : <<i, j>> \in before => ahead[i] < ahead[j]
  <2> HIDE DEF before, S, ahead
  <2>1. /\ \A k \in 0 .. Cardinality(S) - 1 : \E i \in S : ahead[i] = k
        /\ \A i \in S : ahead[i] \in 0 .. Cardinality(S) - 1
        /\ \A i, j \in S : <<i, j>> \in before => ahead[i] < ahead[j]
    BY <1>2, <1>3, <1>4, <1>5, <1>7, EveryPlaceIsTaken
  <2> QED
    BY <1>2, <2>1
<1>9. \A i \in S : Position(fit, i) = 1 + ahead[i]
  BY <1>6
<1>18. \A i, j \in S : <<i, j>> \in before <=> Ahead(fit, i, j)
  OBVIOUS
<1> HIDE DEF ahead
<1> HIDE DEF Before, before
<1>10. \A i, j \in S : Ahead(fit, i, j) => Position(fit, i) < Position(fit, j)
  <2> SUFFICES ASSUME NEW i \in S, NEW j \in S, Ahead(fit, i, j)
               PROVE  Position(fit, i) < Position(fit, j)
    OBVIOUS
  <2>1. ahead[i] < ahead[j] /\ ahead[i] \in 0 .. n - 1 /\ ahead[j] \in 0 .. n - 1
    BY <1>8, <1>18
  <2> QED
    BY <1>1, <1>9, <2>1
<1>11. \A i, j \in S : i # j => Ahead(fit, i, j) \/ Ahead(fit, j, i)
  BY <1>1 DEF Ahead
<1>12. \A i \in S : ~Ahead(fit, i, i)
  BY <1>1 DEF Ahead
<1>13. \A i \in S : Position(fit, i) \in 1..n
  <2> SUFFICES ASSUME NEW i \in S PROVE Position(fit, i) \in 1..n
    OBVIOUS
  <2>1. Position(fit, i) = 1 + ahead[i] /\ ahead[i] \in 0 .. n - 1 /\ n \in Nat
    BY <1>1, <1>8, <1>9
  <2> QED
    BY <2>1
<1>14. \A i, j \in S : Ahead(fit, i, j) <=> Position(fit, i) < Position(fit, j)
  <2> SUFFICES ASSUME NEW i \in S, NEW j \in S
               PROVE  Ahead(fit, i, j) <=> Position(fit, i) < Position(fit, j)
    OBVIOUS
  <2> QED
    BY <1>10, <1>11, <1>13
<1>15. \A i, j \in S : Position(fit, i) = Position(fit, j) => i = j
  BY <1>10, <1>11, <1>13
<1>16. ASSUME NEW k \in 1..n PROVE InOrder(fit)[k] \in S /\ Position(fit, InOrder(fit)[k]) = k
  <2>1. k - 1 \in 0 .. n - 1
    BY <1>1
  <2>2. PICK i \in S : ahead[i] = k - 1
    BY <1>8, <2>1
  <2>3. Position(fit, i) = k
    BY <1>9, <2>2
  <2>4. InOrder(fit)[k] = CHOOSE j \in S : Position(fit, j) = k
    BY <1>1 DEF InOrder
  <2> QED
    BY <2>3, <2>4
<1>17. ASSUME NEW i \in S PROVE InOrder(fit)[Position(fit, i)] = i
  BY <1>13, <1>15, <1>16
<1> QED
  BY <1>13, <1>14, <1>16, <1>17

\* Fits do not rise along the order.
LEMMA FitsFall ==
  ASSUME NEW fit, NEW n, IsFits(fit, n), NEW k \in 1..n, NEW l \in 1..n, k <= l
  PROVE  fit[InOrder(fit)[l]] <= fit[InOrder(fit)[k]]
<1> DEFINE i == InOrder(fit)[k]
           j == InOrder(fit)[l]
<1>1. i \in 1..n /\ j \in 1..n /\ Position(fit, i) = k /\ Position(fit, j) = l
  BY PlacesAreTaken
<1>2. Ahead(fit, j, i) <=> l < k
  <2> HIDE DEF i, j
  <2> QED
    BY <1>1, PlacesAreTaken
<1>3. fit[i] \in Int /\ fit[j] \in Int
  BY <1>1 DEF IsFits
<1> HIDE DEF i, j
<1>4. ~Ahead(fit, j, i)
  BY <1>1, <1>2
<1>5. fit[j] <= fit[i]
  BY <1>1, <1>3, <1>4 DEF Ahead
<1> QED
  BY <1>5 DEF i, j

\* The rank is the last place up to the flat's own where a new rank starts.
LEMMA RanksAreStarts ==
  ASSUME NEW fit, NEW n, IsFits(fit, n), NEW apart, NEW i \in 1..n
  PROVE  /\ Ranks(fit, apart)[i] \in 1..Position(fit, i)
         /\ NewRank(fit, apart, Ranks(fit, apart)[i])
         /\ \A k \in 1..Position(fit, i) : NewRank(fit, apart, k) => k <= Ranks(fit, apart)[i]
<1> DEFINE starts == {k \in 1..Position(fit, i) : NewRank(fit, apart, k)}
<1>1. Position(fit, i) \in 1..n /\ n \in Nat /\ DOMAIN fit = 1..n
  BY PlacesAreTaken DEF IsFits
<1>2. starts \subseteq Int /\ 1 \in starts
  BY <1>1 DEF NewRank
<1>3. IsFiniteSet(starts)
  <2>1. IsFiniteSet(1..Position(fit, i))
    BY <1>1, FS_Interval
  <2> QED
    BY <2>1, FS_Subset
<1>4. Ranks(fit, apart)[i] = Max(starts)
  BY <1>1 DEF Ranks
<1>5. Max(starts) \in starts /\ \A k \in starts : Max(starts) >= k
  <2> HIDE DEF starts
  <2> QED
    BY <1>2, <1>3, GreatestOf
<1> QED
  BY <1>4, <1>5

\* Between places where no rank starts the fits fall one hundredth at most.
LEMMA ChainsAreClose ==
  ASSUME NEW fit, NEW n, IsFits(fit, n), NEW apart, NEW a \in 1..n, NEW b \in 1..n, a < b,
         \A k \in 1..n : a < k /\ k <= b => ~NewRank(fit, apart, k)
  PROVE  /\ fit[InOrder(fit)[a]] # Unknown /\ fit[InOrder(fit)[b]] # Unknown
         /\ fit[InOrder(fit)[a]] - fit[InOrder(fit)[b]] <= b - a
<1> DEFINE at == [k \in 1..n |-> fit[InOrder(fit)[k]]]
           Bad == {k \in a..b : at[a] - at[k] > k - a}
           place == [k \in Bad |-> k]
<1>1. n \in Nat /\ \A k \in 1..n : at[k] \in Int
  BY PlacesAreTaken DEF IsFits
<1>0. \A k : k \in Bad <=> k \in a..b /\ at[a] - at[k] > k - a
  OBVIOUS
<1>9. a \in Int /\ b \in Int /\ a..b \subseteq 1..n /\ at[a] \in Int /\ at[b] \in Int
  BY <1>1
<1>2. \A k \in 1..n : a < k /\ k <= b =>
        at[k] # Unknown /\ at[k - 1] # Unknown /\ at[k - 1] - at[k] <= 1
  <2> SUFFICES ASSUME NEW k \in 1..n, a < k, k <= b
               PROVE  at[k] # Unknown /\ at[k - 1] # Unknown /\ at[k - 1] - at[k] <= 1
    OBVIOUS
  <2>1. ~NewRank(fit, apart, k)
    OBVIOUS
  <2>2. k - 1 \in 1..n /\ at[k] \in Int /\ at[k - 1] \in Int
    BY <1>1
  <2>3. at[k] = fit[InOrder(fit)[k]] /\ at[k - 1] = fit[InOrder(fit)[k - 1]]
    BY <2>2
  <2> HIDE DEF at
  <2> QED
    BY <2>1, <2>2, <2>3 DEF NewRank
<1>3. ASSUME Bad # {} PROVE FALSE
  <2>1. IsFiniteSet(Bad) /\ \A k \in Bad : place[k] \in Int
    <3>1. IsFiniteSet(a..b)
      BY <1>9, FS_Interval
    <3>2. Bad \subseteq a..b
      BY <1>0
    <3>3. IsFiniteSet(Bad)
      <4> HIDE DEF Bad
      <4> QED
        BY <3>1, <3>2, FS_Subset
    <3> QED
      BY <3>2, <3>3
  <2>2. \E k \in Bad : \A l \in Bad : place[k] <= place[l]
    <3> HIDE DEF Bad, place
    <3> QED
      BY <1>3, <2>1, FirstByValue
  <2>3. PICK k \in Bad : \A l \in Bad : k <= l
    BY <2>2
  <2> HIDE DEF Bad, place, at
  <2>4. k \in 1..n /\ k \in a..b /\ at[a] - at[k] > k - a /\ at[k] \in Int
    BY <1>0, <1>1, <1>9
  <2>5. k # a
    BY <1>9, <2>4
  <2>6. k - 1 \in a..b /\ k - 1 \in 1..n /\ a < k /\ k <= b
    BY <1>9, <2>4, <2>5
  <2>7. k - 1 \notin Bad
    BY <2>3, <2>4
  <2>8. at[k - 1] \in Int /\ at[k - 1] - at[k] <= 1
    BY <1>1, <1>2, <2>4, <2>6
  <2>9. ~(at[a] - at[k - 1] > k - 1 - a)
    BY <1>0, <2>6, <2>7
  <2> QED
    BY <1>9, <2>4, <2>6, <2>8, <2>9
<1>4. b \in a..b /\ a + 1 \in 1..n /\ a < a + 1 /\ a + 1 <= b /\ a + 1 - 1 = a
  BY <1>1
<1>5. at[a] - at[b] <= b - a
  <2> HIDE DEF at, Bad
  <2> QED
    BY <1>0, <1>3, <1>4, <1>9
<1>6. at[a] # Unknown /\ at[b] # Unknown
  <2> HIDE DEF at
  <2>1. at[b] # Unknown
    BY <1>2
  <2>2. at[a + 1 - 1] # Unknown
    BY <1>2, <1>4
  <2> QED
    BY <1>4, <2>1, <2>2
<1> QED
  BY <1>5, <1>6

LEMMA EqualsShareAStart ==
  ASSUME NEW fit, NEW n, IsFits(fit, n), NEW apart, NEW a \in 1..n, NEW b \in 1..n,
         fit[InOrder(fit)[a]] = fit[InOrder(fit)[b]], fit[InOrder(fit)[a]] # Unknown
  PROVE  \A k \in 1..n : a < k /\ k <= b => ~NewRank(fit, apart, k)
<1> DEFINE order == InOrder(fit)
<1> SUFFICES ASSUME NEW k \in 1..n, a < k, k <= b PROVE ~NewRank(fit, apart, k)
  OBVIOUS
<1>1. n \in Nat /\ a <= k /\ a <= k - 1 /\ k - 1 <= b /\ k - 1 \in 1..n /\ k # 1
  BY DEF IsFits
<1>2. fit[order[k]] \in Int /\ fit[order[k - 1]] \in Int /\ fit[order[a]] \in Int
  BY <1>1, PlacesAreTaken DEF IsFits
<1>3. /\ fit[order[k]] <= fit[order[a]] /\ fit[order[b]] <= fit[order[k]]
      /\ fit[order[k - 1]] <= fit[order[a]] /\ fit[order[b]] <= fit[order[k - 1]]
  BY <1>1, FitsFall
<1>4. fit[order[k]] = fit[order[a]] /\ fit[order[k - 1]] = fit[order[a]]
  BY <1>2, <1>3
<1> QED
  BY <1>1, <1>2, <1>4 DEF NewRank

LEMMA RanksAreFair ==
  ASSUME NEW fit, NEW n, IsFits(fit, n), NEW apart, NEW i \in 1..n, NEW j \in 1..n, i # j
  PROVE  LET ranks == Ranks(fit, apart)
         IN /\ fit[i] > fit[j] => ranks[i] <= ranks[j]
            /\ fit[i] = fit[j] /\ fit[i] # Unknown => ranks[i] = ranks[j]
            /\ ranks[i] = ranks[j] => fit[i] # Unknown /\ fit[j] # Unknown /\ fit[i] - fit[j] < n
<1> DEFINE ranks == Ranks(fit, apart)
           New(k) == NewRank(fit, apart, k)
           order == InOrder(fit)
           a == Position(fit, i)
           b == Position(fit, j)
<1>1. /\ a \in 1..n /\ b \in 1..n /\ order[a] = i /\ order[b] = j
      /\ n \in Nat /\ fit[i] \in Int /\ fit[j] \in Int
  BY PlacesAreTaken DEF IsFits
<1>2. a < b \/ b < a
  BY <1>1
<1>3. /\ ranks[i] \in 1..a /\ New(ranks[i]) /\ \A k \in 1..a : New(k) => k <= ranks[i]
      /\ ranks[j] \in 1..b /\ New(ranks[j]) /\ \A k \in 1..b : New(k) => k <= ranks[j]
  BY RanksAreStarts
<1>4. ASSUME fit[i] > fit[j] PROVE ranks[i] <= ranks[j]
  <2>1. Ahead(fit, i, j)
    BY <1>4 DEF Ahead
  <2>2. a < b
    BY <2>1, PlacesAreTaken
  <2> HIDE DEF ranks, New, a, b
  <2>3. ranks[i] \in 1..b
    BY <1>1, <1>3, <2>2
  <2> QED
    BY <1>3, <2>3
<1>5. ASSUME fit[i] = fit[j], fit[i] # Unknown PROVE ranks[i] = ranks[j]
  <2>1. fit[order[a]] = fit[order[b]] /\ fit[order[a]] # Unknown
    BY <1>1, <1>5
  <2> HIDE DEF a, b, ranks, order
  <2>2. \A k \in 1..n : a < k /\ k <= b => ~New(k)
    BY <1>1, <2>1, EqualsShareAStart DEF order
  <2>3. \A k \in 1..n : b < k /\ k <= a => ~New(k)
    BY <1>1, <2>1, EqualsShareAStart DEF order
  <2> HIDE DEF New
  <2>4. ranks[i] \in 1..b
    BY <1>1, <1>3, <2>3
  <2>5. ranks[j] \in 1..a
    BY <1>1, <1>3, <2>2
  <2> QED
    BY <1>3, <2>4, <2>5
<1>6. ASSUME ranks[i] = ranks[j] PROVE fit[i] # Unknown /\ fit[j] # Unknown /\ fit[i] - fit[j] < n
  <2>1. CASE a < b
    <3>1. \A k \in 1..n : a < k /\ k <= b => ~NewRank(fit, apart, k)
      <4> HIDE DEF ranks, a, b
      <4> QED
        BY <1>1, <1>3, <1>6
    <3>2. /\ fit[order[a]] # Unknown /\ fit[order[b]] # Unknown
          /\ fit[order[a]] - fit[order[b]] <= b - a
      <4> HIDE DEF a, b
      <4> QED
        BY <1>1, <2>1, <3>1, ChainsAreClose
    <3> HIDE DEF a, b
    <3> QED
      BY <1>1, <3>2
  <2>2. CASE b < a
    <3>1. \A k \in 1..n : b < k /\ k <= a => ~NewRank(fit, apart, k)
      <4> HIDE DEF ranks, a, b
      <4> QED
        BY <1>1, <1>3, <1>6
    <3>2. fit[order[b]] # Unknown /\ fit[order[a]] # Unknown
      <4> HIDE DEF a, b
      <4> QED
        BY <1>1, <2>2, <3>1, ChainsAreClose
    <3>3. fit[order[a]] <= fit[order[b]]
      <4>1. b <= a
        BY <1>1, <2>2
      <4> HIDE DEF a, b
      <4> QED
        BY <1>1, <4>1, FitsFall
    <3> HIDE DEF a, b
    <3> QED
      BY <1>1, <3>2, <3>3
  <2> QED
    BY <1>2, <2>1, <2>2
<1> QED
  BY <1>4, <1>5, <1>6

(***************************************************************************)
(* The recommendation.                                                     *)
(***************************************************************************)
LEMMA BestIsAhead ==
  ASSUME NEW fit, NEW n, IsFits(fit, n), NEW flats \in SUBSET (1..n), flats # {}
  PROVE  /\ BestOf(fit, flats) \in flats
         /\ \A j \in flats \ {BestOf(fit, flats)} : Ahead(fit, BestOf(fit, flats), j)
<1> DEFINE place == [i \in flats |-> Position(fit, i)]
<1>1. IsFiniteSet(flats)
  <2>1. IsFiniteSet(1..n)
    <3>1. 1 \in Int /\ n \in Int
      BY DEF IsFits
    <3> QED
      BY <3>1, FS_Interval
  <2> QED
    BY <2>1, FS_Subset
<1>2. \A i \in flats : place[i] = Position(fit, i) /\ place[i] \in Int
  BY PlacesAreTaken
<1>3. PICK i \in flats : \A j \in flats : place[i] <= place[j]
  <2> HIDE DEF place
  <2> QED
    BY <1>1, <1>2, FirstByValue
<1>4. \A j \in flats \ {i} : Ahead(fit, i, j)
  <2> SUFFICES ASSUME NEW j \in flats \ {i} PROVE Ahead(fit, i, j)
    OBVIOUS
  <2>1. Position(fit, i) <= Position(fit, j) /\ i \in 1..n /\ j \in 1..n
    BY <1>2, <1>3
  <2>2. Position(fit, i) # Position(fit, j)
    BY <2>1, PlacesAreTaken
  <2>3. Position(fit, i) \in Int /\ Position(fit, j) \in Int
    BY <1>2
  <2> QED
    BY <2>1, <2>2, <2>3, PlacesAreTaken
<1> QED
  BY <1>4 DEF BestOf

\* A winner is the best eligible assessed flat, at least three points ahead of
\* the rest, whichever way an exact three fell.
LEMMA WinnerLeads ==
  ASSUME NEW p, NEW listings, NEW groups, NEW n, NEW fit, NEW above, IsFits(fit, n), DOMAIN groups = 1..n,
         Recommend(p, listings, groups, fit, above).winner # 0
  PROVE  LET winner == Recommend(p, listings, groups, fit, above).winner
         IN /\ \E i \in 1..n : groups[i] \notin {"FAILS_ONE", "FAILS_MULTIPLE"}
            /\ winner \in Candidates(groups, fit)
            /\ \A i \in Candidates(groups, fit) \ {winner} : fit[winner] - fit[i] >= 300
<1> DEFINE C == Candidates(groups, fit)
           leader == BestOf(fit, C)
           second == BestOf(fit, C \ {leader})
           winner == Recommend(p, listings, groups, fit, above).winner
<1>1. /\ \E i \in 1..n : groups[i] \notin {"FAILS_ONE", "FAILS_MULTIPLE"}
      /\ C # {} /\ winner = leader
      /\ C = {leader} \/ ~(fit[leader] - fit[second] < 300)
  BY DEF Recommend, NoWinner
<1>2. C \subseteq 1..n
  BY DEF Candidates, Eligible
<1> HIDE DEF C
<1>3. leader \in C
  BY <1>1, <1>2, BestIsAhead
<1> HIDE DEF leader
<1>4. ASSUME NEW i \in C \ {leader} PROVE fit[leader] - fit[i] >= 300
  <2>1. C \ {leader} # {} /\ C \ {leader} \subseteq 1..n
    BY <1>2, <1>4
  <2>2. second \in C \ {leader} /\ (i # second => Ahead(fit, second, i))
    BY <2>1, BestIsAhead
  <2> HIDE DEF second
  <2>3. fit[leader] \in Int /\ fit[second] \in Int /\ fit[i] \in Int
    BY <1>2, <1>3, <2>2 DEF IsFits
  <2>4. fit[i] <= fit[second]
    BY <2>2, <2>3 DEF Ahead
  <2>5. fit[leader] - fit[second] >= 300
    BY <1>1, <2>1, <2>3
  <2> QED
    BY <2>3, <2>4, <2>5
<1> HIDE DEF winner
<1> QED
  BY <1>1, <1>3, <1>4 DEF C, winner

Got(limits, flat, v) == {k \in DOMAIN limits : Verdict(limits[k], flat) = v}

\* A group says how many verdicts of a kind a flat has.
LEMMA GroupsCount ==
  ASSUME NEW limits, IsFiniteSet(DOMAIN limits), NEW flat
  PROVE  /\ Group(limits, flat) \in {"PASSES_ALL", "CANNOT_DETERMINE"} <=> Got(limits, flat, "FAIL") = {}
         /\ Group(limits, flat) = "PASSES_ALL" <=>
              Got(limits, flat, "FAIL") = {} /\ Got(limits, flat, "CANNOT_DETERMINE") = {}
         /\ Group(limits, flat) \in {"PASSES_ALL", "CANNOT_DETERMINE", "FAILS_ONE", "FAILS_MULTIPLE"}
<1> DEFINE With(v) == Cardinality(Got(limits, flat, v))
<1>1. \A v : IsFiniteSet(Got(limits, flat, v))
  BY FS_Subset DEF Got
<1>2. \A v : With(v) \in Nat /\ (With(v) = 0 <=> Got(limits, flat, v) = {})
  BY <1>1, FS_CardinalityType, FS_EmptySet
<1>3. \A v : With(v) = Cardinality({i \in DOMAIN limits : Verdict(limits[i], flat) = v})
  BY DEF Got
<1>4. Group(limits, flat) =
        CASE With("FAIL") > 1 -> "FAILS_MULTIPLE"
          [] With("FAIL") = 1 -> "FAILS_ONE"
          [] With("FAIL") = 0 /\ With("CANNOT_DETERMINE") > 0 -> "CANNOT_DETERMINE"
          [] OTHER -> "PASSES_ALL"
  BY <1>3 DEF Group
<1> HIDE DEF With
<1>5. /\ With("FAIL") \in Nat /\ (With("FAIL") = 0 <=> Got(limits, flat, "FAIL") = {})
      /\ With("CANNOT_DETERMINE") \in Nat
      /\ (With("CANNOT_DETERMINE") = 0 <=> Got(limits, flat, "CANNOT_DETERMINE") = {})
  BY <1>2
<1> QED
  BY <1>4, <1>5

\* The last comparison says what the engines say of an offered shortlist.
ComparisonIsTheEngines ==
  Compared =>
    LET listings == comparisonMade.listings
        p == comparisonMade.profile
    IN /\ listings \in Shortlists /\ p \in Profiles
       /\ comparisonMade.groups = [i \in DOMAIN listings |-> Group(p.limits, listings[i])]
       /\ comparisonMade.fit = [i \in DOMAIN listings |-> Fit(p, listings[i])]
       /\ \E apart : comparisonMade.ranks = Ranks(comparisonMade.fit, apart)
       /\ \E above :
            comparisonMade.answer = Recommend(p, listings, comparisonMade.groups, comparisonMade.fit, above)

LEMMA ComparedTyped ==
  ASSUME ComparisonIsTheEngines, Compared
  PROVE  /\ IsProfile(comparisonMade.profile)
         /\ Flats = 1..Len(comparisonMade.listings) /\ Len(comparisonMade.listings) \in 0..5
         /\ \A i \in Flats : /\ IsFlat(comparisonMade.listings[i])
                             /\ comparisonMade.fit[i] = Fit(comparisonMade.profile, comparisonMade.listings[i])
                             /\ IsFits(comparisonMade.fit, Len(comparisonMade.listings))
         /\ DOMAIN comparisonMade.groups = Flats
<1> DEFINE listings == comparisonMade.listings
           p == comparisonMade.profile
<1>1. listings \in Shortlists /\ p \in Profiles
  BY DEF ComparisonIsTheEngines
<1>2. IsProfile(p) /\ Flats = 1..Len(listings) /\ Len(listings) \in 0..5 /\ \A i \in Flats : IsFlat(listings[i])
  BY <1>1, ComparisonAssumption DEF IsProfile, Flats
<1>3. comparisonMade.fit = [i \in Flats |-> Fit(p, listings[i])] /\ DOMAIN comparisonMade.groups = Flats
  BY DEF ComparisonIsTheEngines, Flats
<1>4. \A i \in Flats : Fit(p, listings[i]) \in Int
  BY <1>2, FitTyped
<1> HIDE DEF listings, p
<1>5. ASSUME NEW i \in Flats PROVE IsFits(comparisonMade.fit, Len(listings))
  <2>1. Len(listings) \in 1..5
    BY <1>2, <1>5
  <2> QED
    BY <1>2, <1>3, <1>4, <2>1 DEF IsFits
<1> QED
  BY <1>2, <1>3, <1>5 DEF listings, p

LEMMA WinnerIsEligible ==
  ASSUME ComparisonIsTheEngines, Compared, Winner # 0
  PROVE  /\ Winner \in Candidates(comparisonMade.groups, comparisonMade.fit)
         /\ Winner \in Flats /\ comparisonMade.fit[Winner] # Unknown
         /\ \E i \in Flats : comparisonMade.groups[i] \notin {"FAILS_ONE", "FAILS_MULTIPLE"}
         /\ \A i \in Candidates(comparisonMade.groups, comparisonMade.fit) \ {Winner} :
              comparisonMade.fit[Winner] - comparisonMade.fit[i] >= 300
         /\ IsFits(comparisonMade.fit, Len(comparisonMade.listings))
<1> DEFINE groups == comparisonMade.groups
           fit == comparisonMade.fit
           listings == comparisonMade.listings
           p == comparisonMade.profile
           n == Len(comparisonMade.listings)
<1>1. Flats = 1..n /\ DOMAIN groups = Flats
  BY ComparedTyped
<1>2. PICK above : Recommend(p, listings, groups, fit, above).winner = Winner
  BY DEF ComparisonIsTheEngines, Winner
<1>3. IsFits(fit, n)
  <2>1. CASE Flats = {}
    <3>1. Candidates(groups, fit) = {} /\ \A i \in DOMAIN groups : FALSE
      BY <1>1, <2>1 DEF Candidates, Eligible
    <3>2. Recommend(p, listings, groups, fit, above).winner = 0
      BY <3>1 DEF Recommend, NoWinner
    <3> QED
      BY <1>2, <3>2
  <2>2. CASE Flats # {}
    <3>1. PICK i \in Flats : TRUE
      BY <2>2
    <3> QED
      BY <3>1, ComparedTyped
  <2> QED
    BY <2>1, <2>2
<1> HIDE DEF groups, fit, listings, p, n
<1>4. /\ \E i \in 1..n : groups[i] \notin {"FAILS_ONE", "FAILS_MULTIPLE"}
      /\ Winner \in Candidates(groups, fit)
      /\ \A i \in Candidates(groups, fit) \ {Winner} : fit[Winner] - fit[i] >= 300
  <2>1. DOMAIN groups = 1..n /\ Recommend(p, listings, groups, fit, above).winner # 0
    BY <1>1, <1>2
  <2> DEFINE winner == Recommend(p, listings, groups, fit, above).winner
  <2>2. /\ \E i \in 1..n : groups[i] \notin {"FAILS_ONE", "FAILS_MULTIPLE"}
        /\ winner \in Candidates(groups, fit)
        /\ \A i \in Candidates(groups, fit) \ {winner} : fit[winner] - fit[i] >= 300
    BY <1>3, <2>1, WinnerLeads
  <2>3. winner = Winner
    BY <1>2
  <2> HIDE DEF winner
  <2> QED
    BY <2>2, <2>3
<1>5. Winner \in Flats /\ fit[Winner] # Unknown
  BY <1>1, <1>4 DEF Candidates, Eligible
<1>6. \E i \in Flats : groups[i] \notin {"FAILS_ONE", "FAILS_MULTIPLE"}
  BY <1>1, <1>4
<1>7. IsFits(fit, Len(comparisonMade.listings))
  BY <1>3 DEF n
<1> QED
  BY <1>4, <1>5, <1>6, <1>7, Zenon DEF groups, fit

LEMMA EnginesPassOverFailures ==
  ASSUME ComparisonIsTheEngines PROVE NoFailingFlatWins
<1> SUFFICES ASSUME Compared, Winner # 0 PROVE NoFailingFlatWins
  BY DEF NoFailingFlatWins
<1> DEFINE groups == comparisonMade.groups
           limits == comparisonMade.profile.limits
           flat(i) == comparisonMade.listings[i]
           Gets(i) == {Verdict(limits[k], flat(i)) : k \in DOMAIN limits}
<1>1. /\ Winner \in Flats /\ Winner \in Eligible(groups)
      /\ \E i \in Flats : groups[i] \notin {"FAILS_ONE", "FAILS_MULTIPLE"}
  BY WinnerIsEligible DEF Candidates
<1>2. IsFiniteSet(DOMAIN limits) /\ DOMAIN groups = Flats
  BY ComparedTyped DEF IsProfile
<1>3. \A i \in Flats : groups[i] = Group(limits, flat(i))
  BY DEF ComparisonIsTheEngines, Flats
<1>4. \A i \in Flats :
        /\ groups[i] \in {"PASSES_ALL", "CANNOT_DETERMINE"} <=> "FAIL" \notin Gets(i)
        /\ groups[i] = "PASSES_ALL" <=> "FAIL" \notin Gets(i) /\ "CANNOT_DETERMINE" \notin Gets(i)
        /\ groups[i] \in {"PASSES_ALL", "CANNOT_DETERMINE", "FAILS_ONE", "FAILS_MULTIPLE"}
  <2>1. \A i \in Flats, v \in {"FAIL", "CANNOT_DETERMINE"} : v \notin Gets(i) <=> Got(limits, flat(i), v) = {}
    BY DEF Got
  <2> HIDE DEF Gets, groups, limits, flat
  <2> QED
    BY <1>2, <1>3, <2>1, GroupsCount
<1>5. \A i \in Flats : Gets(i) \subseteq {"PASS", "FAIL", "CANNOT_DETERMINE"}
  BY DEF Verdict
<1> HIDE DEF groups
<1>6. groups[Winner] \in {"PASSES_ALL", "CANNOT_DETERMINE"}
  BY <1>1, <1>2, <1>4 DEF Eligible
<1>7. (\E i \in Flats : groups[i] = "PASSES_ALL") => groups[Winner] = "PASSES_ALL"
  BY <1>1, <1>2 DEF Eligible
<1> HIDE DEF Gets
<1>8. "FAIL" \notin Gets(Winner)
  BY <1>1, <1>4, <1>6
<1>9. (\E i \in Flats : Gets(i) \subseteq {"PASS"}) => Gets(Winner) \subseteq {"PASS"}
  <2> SUFFICES ASSUME NEW i \in Flats, Gets(i) \subseteq {"PASS"} PROVE Gets(Winner) \subseteq {"PASS"}
    OBVIOUS
  <2>1. groups[i] = "PASSES_ALL"
    BY <1>4
  <2>2. "FAIL" \notin Gets(Winner) /\ "CANNOT_DETERMINE" \notin Gets(Winner)
    BY <1>1, <1>4, <1>7, <2>1
  <2> QED
    BY <1>1, <1>5, <2>2
<1> QED
  BY <1>8, <1>9 DEF NoFailingFlatWins, Gets

LEMMA EnginesLeadClearly ==
  ASSUME ComparisonIsTheEngines PROVE ClearLead
<1> SUFFICES ASSUME Compared, Winner # 0,
                    NEW i \in Eligible(comparisonMade.groups) \ {Winner},
                    comparisonMade.fit[i] # Unknown
             PROVE  LET p == comparisonMade.profile
                        Scores(f) == [k \in DOMAIN p.priorities |->
                                        SubScore(p.priorities[k], comparisonMade.listings[f], p.budget)]
                    IN /\ comparisonMade.fit[Winner] >= comparisonMade.fit[i] + 300
                       /\ Assessed(p, comparisonMade.listings[i]) = Assessed(p, comparisonMade.listings[Winner])
                            => \E k \in DOMAIN p.priorities : Scores(Winner)[k] > Scores(i)[k]
  BY DEF ClearLead
<1> DEFINE fit == comparisonMade.fit
           p == comparisonMade.profile
           w == comparisonMade.listings[Winner]
           f == comparisonMade.listings[i]
<1>1. /\ i \in Candidates(comparisonMade.groups, fit) \ {Winner}
      /\ i \in Flats
  BY ComparedTyped DEF Candidates, Eligible
<1>2. Winner \in Flats /\ fit[Winner] # Unknown /\ fit[Winner] - fit[i] >= 300
  BY <1>1, WinnerIsEligible
<1>3. IsProfile(p) /\ IsFlat(w) /\ IsFlat(f) /\ fit[i] = Fit(p, f) /\ fit[Winner] = Fit(p, w)
  BY <1>1, <1>2, ComparedTyped
<1>4. fit[i] \in Int /\ fit[Winner] \in Int
  BY <1>3, FitTyped
<1> HIDE DEF fit, p, w, f
<1>5. fit[Winner] >= fit[i] + 300
  BY <1>2, <1>4
<1>6. ASSUME Assessed(p, f) = Assessed(p, w),
             \A k \in DOMAIN p.priorities : ~(Scored(p, w, k) > Scored(p, f, k))
      PROVE  FALSE
  <2>1. Assessed(p, f) # {}
    BY <1>3, FitTyped DEF fit
  <2>2. ASSUME NEW k \in Assessed(p, f) PROVE Scored(p, w, k) <= Scored(p, f, k)
    <3>1. k \in DOMAIN p.priorities /\ k \in Assessed(p, w)
      BY <1>6 DEF Assessed
    <3>2. Scored(p, w, k) \in 0..FullScore /\ Scored(p, f, k) \in 0..FullScore
      BY <1>3, <3>1, AssessedTyped
    <3> QED
      BY <1>6, <3>1, <3>2
  <2>3. Fit(p, w) <= Fit(p, f)
    BY <1>3, <1>6, <2>1, <2>2, FitFollowsScores
  <2> QED
    BY <1>3, <1>4, <1>5, <2>3
<1>7. Assessed(p, f) = Assessed(p, w) => \E k \in DOMAIN p.priorities : Scored(p, w, k) > Scored(p, f, k)
  BY <1>6
<1> QED
  BY <1>5, <1>7 DEF fit, p, w, f, Scored

LEMMA EnginesRankFairly ==
  ASSUME ComparisonIsTheEngines PROVE RanksFollowFit
<1> SUFFICES ASSUME Compared PROVE RanksFollowFit
  BY DEF RanksFollowFit
<1> DEFINE fit == comparisonMade.fit
           ranks == comparisonMade.ranks
           p == comparisonMade.profile
           n == Len(comparisonMade.listings)
           Known(i) == {SubScore(p.priorities[k], comparisonMade.listings[i], p.budget) :
                          k \in Assessed(p, comparisonMade.listings[i])}
<1>1. Flats = 1..n /\ n \in 0..5 /\ Cardinality(Flats) = n
  <2>1. Flats = 1..n /\ n \in 0..5
    BY ComparedTyped
  <2>2. Cardinality(1..n) = IF 1 > n THEN 0 ELSE n - 1 + 1
    <3>1. 1 \in Int /\ n \in Int
      BY <2>1
    <3> QED
      BY <3>1, FS_Interval
  <2>3. Cardinality(1..n) = n
    BY <2>1, <2>2
  <2> QED
    BY <2>1, <2>3
<1>2. ASSUME NEW i \in Flats, NEW j \in Flats, i # j
      PROVE  /\ fit[i] > fit[j] => ranks[i] <= ranks[j]
             /\ fit[i] = fit[j] /\ fit[i] # Unknown => ranks[i] = ranks[j]
             /\ ranks[i] = ranks[j] => fit[i] # Unknown /\ fit[j] # Unknown /\ fit[i] - fit[j] < Cardinality(Flats)
  <2>1. IsFits(fit, n)
    BY ComparedTyped
  <2>2. PICK apart : ranks = Ranks(fit, apart)
    BY DEF ComparisonIsTheEngines
  <2> HIDE DEF fit, ranks, n
  <2> QED
    BY <1>1, <1>2, <2>1, <2>2, RanksAreFair
<1>3. ASSUME NEW i \in Flats
      PROVE  IF Known(i) = {} THEN fit[i] = Unknown ELSE fit[i] \in Min(Known(i))..Max(Known(i))
  <2> DEFINE flat == comparisonMade.listings[i]
             known == Assessed(p, flat)
             score == [k \in known |-> Scored(p, flat, k)]
             scores == {score[k] : k \in known}
  <2>1. IsProfile(p) /\ IsFlat(flat) /\ fit[i] = Fit(p, flat)
    BY ComparedTyped
  <2>2. Known(i) = scores
    BY DEF Scored
  <2>3. \A k \in known : k \in 1..3 /\ Scored(p, flat, k) \in 0..FullScore /\ score[k] = Scored(p, flat, k)
    BY <2>1, AssessedTyped
  <2>4. CASE known = {}
    BY <2>1, <2>4, FitTyped
  <2>5. CASE known # {}
    <3>1. IsFiniteSet(scores) /\ scores \subseteq Int /\ scores # {}
      <4>1. IsFiniteSet(known)
        <5>1. IsFiniteSet(1..3)
          <6>1. 1 \in Int /\ 3 \in Int
            OBVIOUS
          <6> QED
            BY <6>1, FS_Interval, Zenon
        <5>2. known \subseteq 1..3
          BY <2>3
        <5> HIDE DEF known
        <5> QED
          BY <5>1, <5>2, FS_Subset
      <4>2. IsFiniteSet(scores)
        <5> HIDE DEF known, score
        <5> QED
          BY <4>1, ValuesOf
      <4>3. FullScore \in Int
        BY DEF FullScore
      <4> HIDE DEF known
      <4> QED
        BY <2>3, <2>5, <4>2, <4>3
    <3> DEFINE low == Min(scores)
               high == Max(scores)
    <3>2. /\ low \in scores /\ \A s \in scores : low <= s
          /\ high \in scores /\ \A s \in scores : high >= s
      <4> HIDE DEF scores
      <4> QED
        BY <3>1, LeastOf, GreatestOf
    <3> HIDE DEF low, high
    <3>3. low \in Int /\ high \in Int
      <4> HIDE DEF scores
      <4> QED
        BY <3>1, <3>2
    <3>4. \A k \in known : low <= Scored(p, flat, k) /\ Scored(p, flat, k) <= high
      <4>1. \A k \in known : score[k] \in scores
        OBVIOUS
      <4>2. \A s \in scores : low <= s /\ s <= high
        <5> HIDE DEF scores
        <5> QED
          BY <3>1, <3>2, <3>3
      <4> HIDE DEF scores, known, score
      <4> QED
        BY <2>3, <4>1, <4>2
    <3>5. Fit(p, flat) \in low..high
      BY <2>1, <2>5, <3>3, <3>4, FitBetween
    <3> HIDE DEF scores
    <3> QED
      BY <2>1, <2>2, <3>1, <3>5 DEF low, high
  <2> QED
    BY <2>4, <2>5
<1> QED
  BY <1>2, <1>3 DEF RanksFollowFit

LEMMA ComparisonsHold == ComparisonSpec => []ComparisonIsTheEngines
<1>1. ComparisonInit => ComparisonIsTheEngines
  BY DEF ComparisonInit, NotCompared, ComparisonIsTheEngines, Compared
<1>2. ComparisonIsTheEngines /\ [ComparisonNext]_comparisonMade => ComparisonIsTheEngines'
  <2> SUFFICES ASSUME ComparisonIsTheEngines, [ComparisonNext]_comparisonMade
               PROVE  ComparisonIsTheEngines'
    OBVIOUS
  <2>1. ASSUME NEW listings \in Shortlists, NEW p \in Profiles, CompareFlats(listings, p)
        PROVE  ComparisonIsTheEngines'
    <3> DEFINE groups == [i \in DOMAIN listings |-> Group(p.limits, listings[i])]
               fit == [i \in DOMAIN listings |-> Fit(p, listings[i])]
    <3>1. PICK apart, above :
            comparisonMade' = [listings |-> listings, profile |-> p, groups |-> groups, fit |-> fit,
                               ranks |-> Ranks(fit, apart), answer |-> Recommend(p, listings, groups, fit, above)]
      BY <2>1 DEF CompareFlats
    <3>2. /\ comparisonMade'.listings = listings /\ comparisonMade'.profile = p
          /\ comparisonMade'.groups = groups /\ comparisonMade'.fit = fit
          /\ comparisonMade'.ranks = Ranks(fit, apart)
          /\ comparisonMade'.answer = Recommend(p, listings, groups, fit, above)
      BY <3>1
    <3> HIDE DEF groups, fit
    <3>3. (\E apart1 : comparisonMade'.ranks = Ranks(comparisonMade'.fit, apart1))
          /\ \E above1 : comparisonMade'.answer = Recommend(p, listings, comparisonMade'.groups, comparisonMade'.fit, above1)
      BY <3>2
    <3> QED
      BY <3>2, <3>3 DEF ComparisonIsTheEngines, groups, fit
  <2>2. CASE UNCHANGED comparisonMade
    BY <2>2 DEF ComparisonIsTheEngines, Compared
  <2> QED
    BY <2>1, <2>2 DEF ComparisonNext
<1> QED
  BY <1>1, <1>2, PTL DEF ComparisonSpec

\* No flat that fails a requirement is recommended, whatever the shortlist
\* and the buyer's priorities are (RecommendationEngine.recommend).
THEOREM RecommendationsPass == ComparisonSpec => []NoFailingFlatWins
<1>1. ComparisonIsTheEngines => NoFailingFlatWins
  BY EnginesPassOverFailures
<1> QED
  BY <1>1, ComparisonsHold, PTL

\* A recommended flat leads by at least the tie threshold, on whichever side
\* of it the floats of an exact tie fall, and no eligible flat with the same
\* evidence is at least as good in everything (_rank,
\* PreferenceScoringEngine.score).
THEOREM RecommendationsLead == ComparisonSpec => []ClearLead
<1>1. ComparisonIsTheEngines => ClearLead
  BY EnginesLeadClearly
<1> QED
  BY <1>1, ComparisonsHold, PTL

\* The ranks follow the fits, and a fit lies between the sub-scores it is
\* the mean of (PreferenceScoringEngine.score).
THEOREM RanksAreOfTheFits == ComparisonSpec => []RanksFollowFit
<1>1. ComparisonIsTheEngines => RanksFollowFit
  BY EnginesRankFairly
<1> QED
  BY <1>1, ComparisonsHold, PTL

=============================================================================
