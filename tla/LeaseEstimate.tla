--------------------------- MODULE LeaseEstimate ---------------------------
(***************************************************************************)
(* services/lease_estimation.py: the remaining lease of a listing, taken   *)
(* from the first evidence that exists (an exact official value, the sales *)
(* of its own block, the year its lease commenced, the listing's own       *)
(* words), and the evidence cache that one EnrichmentService keeps over    *)
(* the listings of its job.  Months are absolute: year * 12 + month - 1.   *)
(***************************************************************************)
EXTENDS Integers, Sequences, FiniteSets, FiniteSetsExt

CONSTANTS
  BlockSales,     \* the transaction records, a sequence
  Dwellings,      \* the listings asked about
  AsOfMonth,      \* the month of the estimate
  MaxEstimates,   \* bound: listings resolved by one service
  NotKnown        \* None

ASSUME LeaseAssumption ==
  /\ Len(BlockSales) \in Nat /\ DOMAIN BlockSales = 1..Len(BlockSales)
  /\ \A i \in DOMAIN BlockSales :
       BlockSales[i].month \in Int /\ BlockSales[i].left \in Int \cup {NotKnown}
  /\ AsOfMonth \in Int /\ MaxEstimates \in Nat

VARIABLES
  leaseEvidence,  \* LeaseEvidenceCache._items: key -> rows of the block
  leaseAnswer,    \* the last listing asked about and its estimate
  leasesAsked     \* listings resolved so far

leaseVars == <<leaseEvidence, leaseAnswer, leasesAsked>>

RecentSales == 12

\* The cache key by block number alone.
CacheKeyByBlock(dwelling) == <<dwelling.block, "">>

\* f"{block}|{street}"
CacheKey(dwelling) == <<dwelling.block, dwelling.street>>

Expiry(i) == BlockSales[i].month + BlockSales[i].left

\* _build_block_evidence: rows of the block that carry a lease and are not in
\* the future, the twelve latest (the earlier row first among equal months).
BlockRows(dwelling) ==
  {i \in DOMAIN BlockSales :
     /\ BlockSales[i].block = dwelling.block
     /\ BlockSales[i].street = dwelling.street
     /\ BlockSales[i].left # NotKnown
     /\ BlockSales[i].month <= AsOfMonth}

Later(i, j) ==
  \/ BlockSales[i].month > BlockSales[j].month
  \/ BlockSales[i].month = BlockSales[j].month /\ i < j

NewestRows(dwelling) ==
  LET rows == BlockRows(dwelling)
  IN {i \in rows : Cardinality({j \in rows : Later(j, i)}) < RecentSales}

Sooner(i, j) == Expiry(i) < Expiry(j) \/ (Expiry(i) = Expiry(j) /\ i < j)

NthExpiry(rows, n) ==
  Expiry(CHOOSE i \in rows : Cardinality({j \in rows : Sooner(j, i)}) = n - 1)

\* int(round(median(...))): half a month rounds to the even month.
MedianExpiry(rows) ==
  LET n == Cardinality(rows)
      upper == NthExpiry(rows, n \div 2 + 1)
      lower == NthExpiry(rows, (n + 1) \div 2)
      half == (lower + upper) \div 2
  IN IF (lower + upper) % 2 = 0 THEN half ELSE half + (half % 2)

Disagreement(rows) == Max({Expiry(i) : i \in rows}) - Min({Expiry(i) : i \in rows})

AtLeastNone(months) == IF months > 0 THEN months ELSE 0

FromSales(rows) ==
  [months |-> AtLeastNone(MedianExpiry(rows) - AsOfMonth),
   source |-> "hdb_same_block_transactions",
   confidence |-> CASE Disagreement(rows) <= 6 -> "high"
                    [] Disagreement(rows) \in 7..24 -> "medium"
                    [] OTHER -> "low"]

FromCommencement(year) ==
  [months |-> AtLeastNone((year + 99) * 12 - AsOfMonth),
   source |-> "hdb_lease_commencement", confidence |-> "medium"]

NoLease == [months |-> NotKnown, source |-> "unavailable", confidence |-> "unavailable"]

Official(dwelling) == dwelling.stated # NotKnown /\ dwelling.official

\* The fallbacks in their order; "rows" is the block evidence, perhaps cached.
Resolved(dwelling, rows) ==
  CASE Official(dwelling) ->
         [months |-> dwelling.stated, source |-> "official_exact", confidence |-> "high"]
    [] ~Official(dwelling) /\ rows # {} -> FromSales(rows)
    [] /\ ~Official(dwelling) /\ rows = {}
       /\ dwelling.commenced # NotKnown
       /\ 1900 <= dwelling.commenced /\ dwelling.commenced <= AsOfMonth \div 12 ->
         FromCommencement(dwelling.commenced)
    [] OTHER ->
         IF dwelling.stated = NotKnown THEN NoLease
         ELSE [months |-> dwelling.stated, source |-> "listing_unverified", confidence |-> "low"]

Unasked == [asked |-> FALSE]

LeaseInit ==
  /\ leaseEvidence = [key \in {} |-> {}]
  /\ leaseAnswer = Unasked
  /\ leasesAsked = 0

Cached(dwelling) == CacheKey(dwelling) \in DOMAIN leaseEvidence

\* estimate_remaining_lease: official evidence returns before the cache is
\* looked at; only evidence that exists is kept.
ResolveLease(dwelling) ==
  LET key == CacheKey(dwelling)
      rows == IF Cached(dwelling) THEN leaseEvidence[key] ELSE NewestRows(dwelling)
  IN /\ leasesAsked < MaxEstimates
     /\ leasesAsked' = leasesAsked + 1
     /\ leaseAnswer' = [asked |-> TRUE, dwelling |-> dwelling, estimate |-> Resolved(dwelling, rows)]
     /\ leaseEvidence' =
          IF Official(dwelling) \/ rows = {} THEN leaseEvidence
          ELSE [k \in DOMAIN leaseEvidence \cup {key} |->
                  IF k = key THEN rows ELSE leaseEvidence[k]]

LeaseNext == \E dwelling \in Dwellings : ResolveLease(dwelling)

LeaseSpec == LeaseInit /\ [][LeaseNext]_leaseVars

-----------------------------------------------------------------------------

LeaseTypeOK ==
  /\ leasesAsked \in 0..MaxEstimates
  /\ \A key \in DOMAIN leaseEvidence : leaseEvidence[key] \subseteq DOMAIN BlockSales

\* A lease read from sales is read from the twelve latest sales of the flat's
\* own block, whichever listings filled the cache before it: its expiry lies
\* between the earliest and the latest they imply, and "high" means that no
\* two of them differ by more than half a year.
LeaseFollowsItsBlock ==
  leaseAnswer.asked /\ leaseAnswer.estimate.source = "hdb_same_block_transactions" =>
    LET own == NewestRows(leaseAnswer.dwelling)
        expiries == {Expiry(i) : i \in own}
        implied == leaseAnswer.estimate.months + AsOfMonth
    IN /\ own # {}
       /\ implied <= Max(expiries \cup {AsOfMonth})
       /\ implied >= Min(expiries)
       /\ leaseAnswer.estimate.confidence = "high" =>
            \A a, b \in expiries : a - b <= 6

=============================================================================
