--------------------------- MODULE NetworkProofs ---------------------------
(***************************************************************************)
(* What the search algorithms of the transport engines find: the longest   *)
(* common ride of two bus options (BusCorridors), the quickest ride        *)
(* between two stations (RailReach) and the cheapest match of a drive with *)
(* the road graph (RouteOverlap).  Each loop is a recursive function over  *)
(* its turns: an invariant of the loop is carried from turn to turn, the   *)
(* first turn at which it failed would follow one at which it held.        *)
(***************************************************************************)
EXTENDS BusCorridors, RailReach, RouteOverlap, OrderFacts, SequenceTheorems

(***************************************************************************)
(* BusCorridors: the stops that two rides share, in order.                 *)
(***************************************************************************)

\* The step the search takes at a pair of positions.
TailsAfter(left, right, k, before) ==
  IF left[LeftIndex(k, Len(right))] = right[RightIndex(k, Len(right))]
  THEN PlaceTail(before, RightIndex(k, Len(right)))
  ELSE before

\* The tails after each turn of the search, up to the last one asked for.
IsSearch(left, right, last, tails) ==
  tails = [k \in 0..last |-> IF k = 0 THEN <<>> ELSE TailsAfter(left, right, k, tails[k - 1])]

\* The search can be carried as far as one likes: an extension of the last
\* one that exists would be the first one that does not.
LEMMA SearchExists ==
  ASSUME NEW left, NEW right, NEW last \in Nat
  PROVE  \E tails : IsSearch(left, right, last, tails)
<1> DEFINE Bad == {n \in Nat : ~\E tails : IsSearch(left, right, n, tails)}
<1> SUFFICES ASSUME Bad # {} PROVE FALSE
  OBVIOUS
<1>1. PICK n \in Bad : \A m \in Bad : n <= m
  <2>1. Bad \in SUBSET Nat
    OBVIOUS
  <2> HIDE DEF Bad
  <2> QED
    BY <2>1, FirstNatural
<1>2. n # 0
  <2>1. IsSearch(left, right, 0, [k \in 0..0 |-> <<>>])
    BY DEF IsSearch
  <2> QED
    BY <2>1, <1>1
<1>3. PICK tails : IsSearch(left, right, n - 1, tails)
  BY <1>1, <1>2
<1> DEFINE longer == [k \in 0..n |-> IF k = n THEN TailsAfter(left, right, n, tails[n - 1]) ELSE tails[k]]
<1>4. IsSearch(left, right, n, longer)
  <2>1. n \in Nat /\ n - 1 \in Nat
    BY <1>1, <1>2
  <2>2. \A k \in 0..n : longer[k] = IF k = 0 THEN <<>> ELSE TailsAfter(left, right, k, longer[k - 1])
    BY <2>1, <1>2, <1>3 DEF IsSearch
  <2> HIDE DEF longer
  <2>3. longer = [k \in 0..n |-> longer[k]]
    BY DEF longer
  <2> QED
    BY <2>2, <2>3 DEF IsSearch
<1> QED
  BY <1>1, <1>4

\* What SharedStops counts are the tails of such a search that met every pair.
LEMMA SharedStopsAreFound ==
  ASSUME NEW left \in Seq(Int), NEW right \in Seq(Int)
  PROVE  \E tails : /\ IsSearch(left, right, Len(left) * Len(right), tails)
                    /\ SharedStops(left, right) = Len(tails[Len(left) * Len(right)])
<1> DEFINE last == Len(left) * Len(right)
           found == CHOOSE tails : IsSearch(left, right, last, tails)
<1>1. last \in Nat
  OBVIOUS
<1>2. IsSearch(left, right, last, found)
  BY <1>1, SearchExists
<1>3. SharedStops(left, right) = Len(found[last])
  BY DEF SharedStops, IsSearch, TailsAfter
<1> QED
  BY <1>2, <1>3

(***************************************************************************)
(* The order in which the search meets the pairs of positions.             *)
(***************************************************************************)

\* A number is its quotient times the divisor and its remainder.
LEMMA WholePart ==
  ASSUME NEW n \in Nat, n > 0, NEW k \in Nat
  PROVE  k \div n \in Nat /\ k % n \in 0..(n - 1) /\ k = n * (k \div n) + (k % n)
OBVIOUS

\* How many pairs the search meets before this one.
Rank(p, n) == n * (p[1] - 1) + (n - p[2])

\* Pairs of a lower row come first, and in a row those further to the right.
LEMMA RanksFollowTheSearch ==
  ASSUME NEW m \in Nat, NEW n \in Nat,
         NEW p \in (1..m) \X (1..n), NEW q \in (1..m) \X (1..n)
  PROVE  /\ Rank(p, n) \in 0..(m * n - 1)
         /\ p[1] < q[1] => Rank(p, n) < Rank(q, n)
         /\ p[1] = q[1] /\ p[2] > q[2] => Rank(p, n) < Rank(q, n)
<1>1. n > 0 /\ p[1] \in 1..m /\ q[1] \in 1..m /\ p[2] \in 1..n /\ q[2] \in 1..n
  OBVIOUS
<1> DEFINE a == p[1] - 1
           b == q[1] - 1
<1>2. a \in Nat /\ b \in Nat /\ a <= m - 1
  BY <1>1
<1>3. n * a \in Nat /\ n * b \in Nat
  BY <1>2
<1>4. a < b => n * a + n <= n * b
  BY <1>1, <1>2, Scaled
<1>5. a < m => n * a + n <= n * m
  BY <1>1, <1>2, Scaled
<1>6. Rank(p, n) = n * a + (n - p[2]) /\ Rank(q, n) = n * b + (n - q[2])
  BY DEF Rank
<1>7. p[1] < q[1] <=> a < b
  BY <1>1
<1>8. p[1] = q[1] => a = b
  OBVIOUS
<1>9. n * m = m * n /\ m * n \in Nat
  OBVIOUS
<1> HIDE DEF a, b
<1>10. Rank(p, n) \in 0..(m * n - 1)
  BY <1>1, <1>2, <1>3, <1>5, <1>6, <1>9
<1>11. p[1] < q[1] => Rank(p, n) < Rank(q, n)
  BY <1>1, <1>3, <1>4, <1>6, <1>7
<1>12. p[1] = q[1] /\ p[2] > q[2] => Rank(p, n) < Rank(q, n)
  BY <1>1, <1>3, <1>6, <1>8
<1> QED
  BY <1>10, <1>11, <1>12

\* The pair the search looks at in turn k is the one of rank k - 1.
LEMMA TurnsMeetTheirPair ==
  ASSUME NEW m \in Nat, NEW n \in Nat, NEW k \in 1..(m * n)
  PROVE  /\ <<LeftIndex(k, n), RightIndex(k, n)>> \in (1..m) \X (1..n)
         /\ Rank(<<LeftIndex(k, n), RightIndex(k, n)>>, n) = k - 1
<1>1. n > 0 /\ k - 1 \in Nat /\ k - 1 < m * n
  <2>1. m * 0 = 0 /\ m * n \in Nat
    OBVIOUS
  <2> QED
    BY <2>1
<1> DEFINE c == (k - 1) \div n
           d == (k - 1) % n
<1>2. c \in Nat /\ d \in 0..(n - 1) /\ k - 1 = n * c + d
  BY <1>1, WholePart
<1>3. LeftIndex(k, n) = c + 1 /\ RightIndex(k, n) = n - d
  BY DEF LeftIndex, RightIndex
<1> HIDE DEF c, d
<1>4. c < m
  <2>1. m < c + 1 => n * m + n <= n * (c + 1)
    BY <1>1, <1>2, Scaled
  <2>2. n * (c + 1) = n * c + n /\ n * m = m * n /\ n * c \in Nat /\ m * n \in Nat
    BY <1>2
  <2>3. c = m => n * c = m * n
    BY <1>2
  <2> QED
    BY <2>1, <2>2, <2>3, <1>1, <1>2
<1>5. Rank(<<c + 1, n - d>>, n) = n * c + d
  BY <1>2 DEF Rank
<1>6. c + 1 \in 1..m /\ n - d \in 1..n
  BY <1>1, <1>2, <1>4
<1> QED
  BY <1>2, <1>3, <1>5, <1>6

(***************************************************************************)
(* The slots of the tails.                                                 *)
(***************************************************************************)

\* Longer chains end later.
Rising(tails) == \A s, t \in DOMAIN tails : s < t => tails[s] < tails[t]

\* Of rising numbers those below a bound come first.
LEMMA LowSlotsComeFirst ==
  ASSUME NEW tails \in Seq(Int), Rising(tails), NEW index \in Int
  PROVE  LET low == {t \in DOMAIN tails : tails[t] < index}
         IN  /\ Cardinality(low) \in 0..Len(tails)
             /\ \A t \in DOMAIN tails : tails[t] < index <=> t <= Cardinality(low)
<1> DEFINE low == {t \in DOMAIN tails : tails[t] < index}
<1>1. Len(tails) \in Nat /\ DOMAIN tails = 1..Len(tails) /\ \A t \in DOMAIN tails : tails[t] \in Int
  OBVIOUS
<1>2. IsFiniteSet(1..Len(tails)) /\ low \subseteq 1..Len(tails)
  BY <1>1, FS_Interval
<1>3. IsFiniteSet(low) /\ low \in SUBSET Int
  <2> HIDE DEF low
  <2>1. \A t \in low : t \in Int
    BY <1>2, <1>1
  <2> QED
    BY <1>2, <2>1, FS_Subset
<1>4. CASE low = {}
  <2>1. Cardinality(low) = 0
    BY <1>4, FS_EmptySet
  <2>2. \A t \in DOMAIN tails : ~(tails[t] < index) /\ ~(t <= 0)
    BY <1>1, <1>4
  <2> HIDE DEF low
  <2>3. Cardinality(low) \in 0..Len(tails)
    BY <2>1, <1>1
  <2>4. \A t \in DOMAIN tails : tails[t] < index <=> t <= Cardinality(low)
    BY <2>1, <2>2
  <2> QED
    BY <2>3, <2>4 DEF low
<1>5. CASE low # {}
  <2> DEFINE top == Max(low)
  <2>1. top \in low /\ \A t \in low : top >= t
    <3> HIDE DEF low
    <3> QED
      BY <1>3, <1>5, GreatestOf
  <2> HIDE DEF top
  <2>2. top \in 1..Len(tails)
    BY <2>1, <1>1
  <2>3. low = 1..top
    <3>1. \A t \in 1..top : t \in DOMAIN tails /\ tails[t] < index
      <4> SUFFICES ASSUME NEW t \in 1..top PROVE t \in DOMAIN tails /\ tails[t] < index
        OBVIOUS
      <4>1. t \in DOMAIN tails /\ top \in DOMAIN tails /\ tails[top] < index
        BY <1>1, <2>1, <2>2
      <4>2. t = top \/ t < top
        BY <2>2
      <4> QED
        BY <4>1, <4>2, <1>1 DEF Rising
    <3>2. \A t \in low : t \in 1..top
      BY <2>1, <1>1
    <3> QED
      BY <3>1, <3>2
  <2>4. Cardinality(1..top) = top
    BY <2>2, FS_Interval
  <2>5. Cardinality(low) = top
    BY <2>3, <2>4
  <2>6. \A t \in DOMAIN tails : t \in low <=> t <= top
    BY <2>2, <2>3, <1>1
  <2>7. \A t \in DOMAIN tails : tails[t] < index <=> t <= Cardinality(low)
    BY <2>5, <2>6
  <2>8. Cardinality(low) \in 0..Len(tails)
    BY <2>2, <2>5, <1>1
  <2> QED
    BY <2>7, <2>8
<1> QED
  BY <1>4, <1>5

\* What the assignment to a slot leaves: the number there is not raised, the
\* others stay, and they still rise.
LEMMA PlacedTail ==
  ASSUME NEW n \in Nat, NEW tails \in Seq(1..n), Rising(tails), NEW index \in 1..n
  PROVE  \E slot \in 1..(Len(tails) + 1) :
           LET placed == PlaceTail(tails, index)
           IN  /\ \A t \in DOMAIN tails : tails[t] < index <=> t < slot
               /\ placed \in Seq(1..n) /\ Rising(placed)
               /\ Len(placed) = IF slot > Len(tails) THEN slot ELSE Len(tails)
               /\ \A t \in DOMAIN placed : placed[t] = IF t = slot THEN index ELSE tails[t]
<1> DEFINE low == {t \in DOMAIN tails : tails[t] < index}
           slot == 1 + Cardinality(low)
           len == Max({slot, Len(tails)})
           placed == [t \in 1..len |-> IF t = slot THEN index ELSE tails[t]]
<1>1. Len(tails) \in Nat /\ DOMAIN tails = 1..Len(tails) /\ \A t \in DOMAIN tails : tails[t] \in 1..n
  OBVIOUS
<1>2. tails \in Seq(Int) /\ index \in Int
  BY <1>1
<1>3. /\ Cardinality(low) \in 0..Len(tails)
      /\ \A t \in DOMAIN tails : tails[t] < index <=> t <= Cardinality(low)
  BY <1>2, LowSlotsComeFirst
<1>4. PlaceTail(tails, index) = placed
  BY DEF PlaceTail
<1> HIDE DEF low
<1>5. slot \in 1..(Len(tails) + 1)
  BY <1>1, <1>3
<1>6. \A t \in DOMAIN tails : tails[t] < index <=> t < slot
  BY <1>1, <1>3
<1> HIDE DEF slot, len
<1>7. len = IF slot > Len(tails) THEN slot ELSE Len(tails)
  <2> DEFINE pair == {slot, Len(tails)}
  <2>1. IsFiniteSet({slot} \cup {Len(tails)}) /\ pair = {slot} \cup {Len(tails)}
    BY FS_Singleton, FS_Union
  <2>2. pair \in SUBSET Int /\ pair # {}
    BY <1>1, <1>5
  <2>3. len = Max(pair)
    BY DEF len
  <2>4. len \in pair /\ \A t \in pair : len >= t
    <3> HIDE DEF pair
    <3> QED
      BY <2>1, <2>2, <2>3, GreatestOf
  <2>5. slot \in Int /\ Len(tails) \in Int
    BY <1>1, <1>5
  <2>6. len = slot \/ len = Len(tails)
    BY <2>4
  <2>7. len >= slot /\ len >= Len(tails)
    BY <2>4
  <2> HIDE DEF pair
  <2> QED
    BY <2>5, <2>6, <2>7
<1>8. len \in Nat /\ \A t \in 1..len : t = slot \/ t \in DOMAIN tails
  <2>1. slot \in Nat /\ Len(tails) \in Nat /\ slot <= Len(tails) + 1
    BY <1>1, <1>5
  <2>2. len \in Nat /\ (len = slot \/ len = Len(tails)) /\ (len = slot => slot <= Len(tails) + 1)
    BY <2>1, <1>7
  <2>3. \A t \in 1..len : t = slot \/ t \in 1..Len(tails)
    BY <2>1, <2>2
  <2> QED
    BY <2>2, <2>3, <1>1
<1>9. \A t \in 1..len : placed[t] = IF t = slot THEN index ELSE tails[t]
  OBVIOUS
<1>10. placed \in [1..len -> 1..n]
  BY <1>1, <1>8
<1>11. placed \in Seq(1..n) /\ Len(placed) = len /\ DOMAIN placed = 1..len
  <2> HIDE DEF placed
  <2> QED
    BY <1>8, <1>10
<1>12. Rising(placed)
  <2> HIDE DEF placed
  <2> SUFFICES ASSUME NEW s \in 1..len, NEW t \in 1..len, s < t PROVE placed[s] < placed[t]
    BY <1>11 DEF Rising
  <2>1. CASE s # slot /\ t # slot
    BY <2>1, <1>8, <1>9 DEF Rising
  <2>2. CASE s = slot
    <3>1. t \in DOMAIN tails /\ ~(tails[t] < index) /\ t > slot
      BY <2>2, <1>5, <1>6, <1>8
    <3>2. slot \in DOMAIN tails
      BY <3>1, <1>1, <1>5
    <3>3. ~(tails[slot] < index) /\ tails[slot] < tails[t]
      BY <3>1, <3>2, <1>5, <1>6 DEF Rising
    <3>4. tails[slot] \in Int /\ tails[t] \in Int
      BY <3>1, <3>2, <1>1
    <3> QED
      BY <3>1, <3>3, <3>4, <2>2, <1>2, <1>9
  <2>3. CASE t = slot
    <3>1. s \in DOMAIN tails /\ tails[s] < index
      BY <2>3, <1>5, <1>6, <1>8
    <3> QED
      BY <3>1, <2>3, <1>5, <1>9
  <2> QED
    BY <2>1, <2>2, <2>3
<1> HIDE DEF placed
<1>13. \A t \in DOMAIN placed : placed[t] = IF t = slot THEN index ELSE tails[t]
  BY <1>9, <1>11
<1> WITNESS slot \in 1..(Len(tails) + 1)
<1> QED
  BY <1>4, <1>6, <1>7, <1>11, <1>12, <1>13

(***************************************************************************)
(* Chains: matching positions that advance together.                       *)
(***************************************************************************)

\* The pairs of positions at which both rides stop at one stop.
Matches(left, right) ==
  {p \in (1..Len(left)) \X (1..Len(right)) : left[p[1]] = right[p[2]]}

\* Matches that can be met on one way through both rides.
IsChain(chain) ==
  \A p, q \in chain : p = q \/ (p[1] < q[1] /\ p[2] < q[2]) \/ (q[1] < p[1] /\ q[2] < p[2])

\* The matches the search has met after k turns.
Met(left, right, k) == {p \in Matches(left, right) : Rank(p, Len(right)) < k}

\* Slot t of the tails holds the least position at which a chain of t matches
\* met so far can end.
TailsFit(left, right, k, tails) ==
  /\ tails \in Seq(1..Len(right)) /\ Rising(tails)
  /\ \A t \in DOMAIN tails :
       \E chain \in SUBSET Met(left, right, k) :
         IsChain(chain) /\ Cardinality(chain) = t /\ \A p \in chain : p[2] <= tails[t]
  /\ \A chain \in SUBSET Met(left, right, k) :
       IsChain(chain) /\ chain # {} =>
         /\ Cardinality(chain) \in DOMAIN tails
         /\ \E p \in chain : p[2] >= tails[Cardinality(chain)]

\* Chains can be counted.
LEMMA MatchesAreFinite ==
  ASSUME NEW left \in Seq(Int), NEW right \in Seq(Int)
  PROVE  /\ IsFiniteSet(Matches(left, right))
         /\ \A chain \in SUBSET Matches(left, right) : IsFiniteSet(chain) /\ Cardinality(chain) \in Nat
<1>1. Len(left) \in Int /\ Len(right) \in Int
  OBVIOUS
<1>2. IsFiniteSet((1..Len(left)) \X (1..Len(right)))
  <2>1. IsFiniteSet(1..Len(left)) /\ IsFiniteSet(1..Len(right))
    BY <1>1, FS_Interval
  <2> QED
    BY <2>1, FS_Product
<1>3. IsFiniteSet(Matches(left, right))
  BY <1>2, FS_Subset DEF Matches
<1>4. \A chain \in SUBSET Matches(left, right) : IsFiniteSet(chain)
  BY <1>3, FS_Subset
<1> QED
  BY <1>3, <1>4, FS_CardinalityType

\* Of the matches met before a pair, those that can share a chain with it lie
\* before it in both sequences.
LEMMA ChainsEndHere ==
  ASSUME NEW left \in Seq(Int), NEW right \in Seq(Int), NEW k \in Nat,
         NEW q \in Matches(left, right), Rank(q, Len(right)) = k,
         NEW p \in Met(left, right, k)
  PROVE  /\ p # q /\ p[1] \in Int /\ p[2] \in Int /\ p[1] <= q[1]
         /\ p[2] < q[2] => p[1] < q[1]
<1> DEFINE m == Len(left)
           n == Len(right)
<1>1. m \in Nat /\ n \in Nat
  OBVIOUS
<1>2. /\ p \in (1..m) \X (1..n) /\ q \in (1..m) \X (1..n)
      /\ Rank(p, n) < Rank(q, n)
  BY DEF Met, Matches
<1> HIDE DEF m, n
<1>3. Rank(p, n) \in 0..(m * n - 1) /\ Rank(q, n) \in 0..(m * n - 1)
  BY <1>1, <1>2, RanksFollowTheSearch
<1>4. /\ q[1] < p[1] => Rank(q, n) < Rank(p, n)
      /\ q[1] = p[1] /\ q[2] > p[2] => Rank(q, n) < Rank(p, n)
  BY <1>1, <1>2, RanksFollowTheSearch
<1>5. Rank(p, n) \in Int /\ Rank(q, n) \in Int
  BY <1>3
<1>6. p[1] \in Int /\ p[2] \in Int /\ q[1] \in Int /\ q[2] \in Int
  BY <1>1, <1>2
<1>7. ~(q[1] < p[1]) /\ ~(q[1] = p[1] /\ q[2] > p[2]) /\ p # q
  BY <1>2, <1>4, <1>5
<1> QED
  BY <1>6, <1>7

\* After a turn the matches met are those before and the pair of the turn.
LEMMA TurnMeetsOne ==
  ASSUME NEW left \in Seq(Int), NEW right \in Seq(Int), NEW k \in 1..(Len(left) * Len(right))
  PROVE  LET q == <<LeftIndex(k, Len(right)), RightIndex(k, Len(right))>>
         IN  /\ q \in (1..Len(left)) \X (1..Len(right)) /\ Rank(q, Len(right)) = k - 1
             /\ Met(left, right, k) = Met(left, right, k - 1) \cup ({q} \cap Matches(left, right))
<1> DEFINE q == <<LeftIndex(k, Len(right)), RightIndex(k, Len(right))>>
           n == Len(right)
<1>1. Len(left) \in Nat /\ n \in Nat
  OBVIOUS
<1>2. q \in (1..Len(left)) \X (1..n) /\ Rank(q, n) = k - 1
  BY <1>1, TurnsMeetTheirPair
<1> HIDE DEF q, n
<1>3. \A p \in Matches(left, right) : p \in (1..Len(left)) \X (1..n)
  BY DEF Matches, n
<1>4. \A p \in Matches(left, right) : Rank(p, n) \in Int
  BY <1>1, <1>3, RanksFollowTheSearch
<1>5. ASSUME NEW p \in Matches(left, right), Rank(p, n) = k - 1 PROVE p = q
  <2>1. /\ p[1] \in Int /\ q[1] \in Int /\ p[2] \in Int /\ q[2] \in Int
        /\ p = <<p[1], p[2]>> /\ q = <<q[1], q[2]>>
    BY <1>2, <1>3
  <2>2. /\ ~(p[1] < q[1]) /\ ~(q[1] < p[1])
        /\ ~(p[1] = q[1] /\ p[2] > q[2]) /\ ~(q[1] = p[1] /\ q[2] > p[2])
    <3>1. p \in (1..Len(left)) \X (1..n)
      BY <1>3
    <3>2. /\ p[1] < q[1] => Rank(p, n) < Rank(q, n)
          /\ p[1] = q[1] /\ p[2] > q[2] => Rank(p, n) < Rank(q, n)
      BY <1>1, <1>2, <3>1, RanksFollowTheSearch
    <3>3. /\ q[1] < p[1] => Rank(q, n) < Rank(p, n)
          /\ q[1] = p[1] /\ q[2] > p[2] => Rank(q, n) < Rank(p, n)
      BY <1>1, <1>2, <3>1, RanksFollowTheSearch
    <3>4. Rank(p, n) = Rank(q, n) /\ Rank(q, n) \in Int
      BY <1>2, <1>5
    <3> QED
      BY <3>2, <3>3, <3>4
  <2>3. p[1] = q[1] /\ p[2] = q[2]
    BY <2>1, <2>2
  <2> QED
    BY <2>1, <2>3
<1>6. Met(left, right, k) = Met(left, right, k - 1) \cup ({q} \cap Matches(left, right))
  <2>1. \A p \in Matches(left, right) : Rank(p, n) < k <=> Rank(p, n) < k - 1 \/ p = q
    <3> SUFFICES ASSUME NEW p \in Matches(left, right)
                 PROVE  Rank(p, n) < k <=> Rank(p, n) < k - 1 \/ p = q
      OBVIOUS
    <3>1. Rank(p, n) \in Int /\ k \in Int
      BY <1>1, <1>4
    <3>2. p = q <=> Rank(p, n) = k - 1
      BY <1>2, <1>5
    <3> QED
      BY <3>1, <3>2
  <2> QED
    BY <2>1 DEF Met, n
<1> QED
  BY <1>2, <1>6 DEF q, n

\* A turn that meets a match keeps the tails fit.
LEMMA MatchKeepsFit ==
  ASSUME NEW left \in Seq(Int), NEW right \in Seq(Int), NEW k \in Nat,
         NEW tails, TailsFit(left, right, k, tails),
         NEW q \in Matches(left, right), Rank(q, Len(right)) = k,
         Met(left, right, k + 1) = Met(left, right, k) \cup {q}
  PROVE  TailsFit(left, right, k + 1, PlaceTail(tails, q[2]))
<1> DEFINE n == Len(right)
           before == Met(left, right, k)
           after == Met(left, right, k + 1)
           placed == PlaceTail(tails, q[2])
<1>1. n \in Nat /\ q[1] \in Int /\ q[2] \in 1..n
  BY DEF Matches
<1>2. tails \in Seq(1..n) /\ Rising(tails)
  BY DEF TailsFit
<1>3. PICK slot \in 1..(Len(tails) + 1) :
        /\ \A t \in DOMAIN tails : tails[t] < q[2] <=> t < slot
        /\ placed \in Seq(1..n) /\ Rising(placed)
        /\ Len(placed) = IF slot > Len(tails) THEN slot ELSE Len(tails)
        /\ \A t \in DOMAIN placed : placed[t] = IF t = slot THEN q[2] ELSE tails[t]
  <2> DEFINE index == q[2]
  <2>1. index \in 1..n
    BY <1>1
  <2> HIDE DEF n, index, placed
  <2>2. \E slot \in 1..(Len(tails) + 1) :
           LET made == PlaceTail(tails, index)
           IN  /\ \A t \in DOMAIN tails : tails[t] < index <=> t < slot
               /\ made \in Seq(1..n) /\ Rising(made)
               /\ Len(made) = IF slot > Len(tails) THEN slot ELSE Len(tails)
               /\ \A t \in DOMAIN made : made[t] = IF t = slot THEN index ELSE tails[t]
    BY <1>1, <1>2, <2>1, PlacedTail
  <2> QED
    BY <2>2 DEF index, placed
<1>4. /\ Len(tails) \in Nat /\ DOMAIN tails = 1..Len(tails)
      /\ \A t \in DOMAIN tails : tails[t] \in Int
      /\ DOMAIN placed = 1..Len(placed) /\ slot \in Nat
  <2> HIDE DEF placed
  <2> QED
    BY <1>2, <1>3, SMTT(20)
<1>5. after = before \cup {q} /\ before \subseteq Matches(left, right) /\ q \notin before
  BY ChainsEndHere DEF Met
<1>6. /\ \A p \in before : p[1] \in Int /\ p[2] \in Int /\ p[1] <= q[1]
      /\ \A p \in before : p[2] < q[2] => p[1] < q[1]
  BY ChainsEndHere
<1> HIDE DEF n, before, after, placed
<1>7. \A chain \in SUBSET after : IsFiniteSet(chain) /\ Cardinality(chain) \in Nat
  <2>1. \A chain \in SUBSET after : chain \in SUBSET Matches(left, right)
    BY <1>5
  <2> QED
    BY <2>1, MatchesAreFinite
<1>8. ASSUME NEW t \in DOMAIN placed
      PROVE  \E chain \in SUBSET after :
               IsChain(chain) /\ Cardinality(chain) = t /\ \A p \in chain : p[2] <= placed[t]
  <2>1. CASE t # slot
    <3>1. t \in DOMAIN tails /\ placed[t] = tails[t]
      BY <2>1, <1>3, <1>4
    <3>2. \E chain \in SUBSET before :
            IsChain(chain) /\ Cardinality(chain) = t /\ \A p \in chain : p[2] <= tails[t]
      BY <3>1 DEF TailsFit, before
    <3> QED
      BY <3>1, <3>2, <1>5
  <2>2. CASE t = slot
    <3>1. placed[t] = q[2]
      BY <2>2, <1>3
    <3>2. PICK chain \in SUBSET before :
            IsChain(chain) /\ Cardinality(chain) = slot - 1 /\ \A p \in chain : p[2] < q[2]
      <4>1. CASE slot = 1
        <5>1. IsChain({}) /\ Cardinality({}) = 0
          BY FS_EmptySet DEF IsChain
        <5> QED
          BY <5>1, <4>1
      <4>2. CASE slot # 1
        <5>1. slot - 1 \in DOMAIN tails /\ tails[slot - 1] < q[2]
          <6> DEFINE shorter == slot - 1
          <6>1. slot \in 1..(Len(tails) + 1) /\ slot \in Nat
            BY <1>3, <1>4
          <6>2. shorter \in 1..Len(tails) /\ shorter < slot
            BY <4>2, <6>1, <1>4
          <6> HIDE DEF shorter
          <6>3. shorter \in DOMAIN tails /\ tails[shorter] < q[2]
            BY <6>2, <1>3, <1>4
          <6> QED
            BY <6>3 DEF shorter
        <5>2. PICK chain \in SUBSET before :
                IsChain(chain) /\ Cardinality(chain) = slot - 1 /\ \A p \in chain : p[2] <= tails[slot - 1]
          <6> DEFINE shorter == slot - 1
          <6>1. \A i \in DOMAIN tails :
                  \E chain \in SUBSET before :
                    IsChain(chain) /\ Cardinality(chain) = i /\ \A p \in chain : p[2] <= tails[i]
            BY DEF TailsFit, before
          <6>2. shorter \in DOMAIN tails
            BY <5>1
          <6> HIDE DEF shorter
          <6>3. \E chain \in SUBSET before :
                  IsChain(chain) /\ Cardinality(chain) = shorter /\ \A p \in chain : p[2] <= tails[shorter]
            BY <6>1, <6>2
          <6> QED
            BY <6>3 DEF shorter
        <5>3. \A p \in chain : p[2] < q[2]
          <6> SUFFICES ASSUME NEW p \in chain PROVE p[2] < q[2]
            OBVIOUS
          <6>1. p[2] \in Int /\ p[2] <= tails[slot - 1]
            BY <5>2, <1>6
          <6>2. tails[slot - 1] \in Int /\ q[2] \in Int
            BY <5>1, <1>1, <1>4
          <6> QED
            BY <6>1, <6>2, <5>1
        <5> QED
          BY <5>2, <5>3
      <4> QED
        BY <4>1, <4>2
    <3>3. \A p \in chain : p[1] < q[1] /\ p[2] < q[2]
      BY <3>2, <1>6
    <3>4. IsChain(chain \cup {q})
      BY <3>2, <3>3 DEF IsChain
    <3>5. chain \cup {q} \in SUBSET after /\ chain \in SUBSET after /\ q \notin chain
      BY <1>5
    <3>6. Cardinality(chain \cup {q}) = slot
      <4>1. Cardinality(chain \cup {q}) = IF q \in chain THEN Cardinality(chain) ELSE Cardinality(chain) + 1
        <5>1. IsFiniteSet(chain)
          BY <3>5, <1>7
        <5> QED
          BY <5>1, FS_AddElement
      <4> QED
        BY <4>1, <3>2, <3>5, <1>4
    <3>7. \A p \in chain \cup {q} : p[2] <= q[2]
      BY <3>3, <1>1, <1>6
    <3> QED
      BY <3>1, <3>4, <3>5, <3>6, <3>7, <2>2
  <2> QED
    BY <2>1, <2>2
<1>9. ASSUME NEW chain \in SUBSET after, IsChain(chain), chain # {}
      PROVE  /\ Cardinality(chain) \in DOMAIN placed
             /\ \E p \in chain : p[2] >= placed[Cardinality(chain)]
  <2>1. CASE q \notin chain
    <3>1. chain \in SUBSET before
      BY <2>1, <1>5
    <3>2. Cardinality(chain) \in DOMAIN tails /\ \E p \in chain : p[2] >= tails[Cardinality(chain)]
      <4>1. \A some \in SUBSET before :
              IsChain(some) /\ some # {} =>
                /\ Cardinality(some) \in DOMAIN tails
                /\ \E p \in some : p[2] >= tails[Cardinality(some)]
        BY DEF TailsFit, before
      <4> QED
        BY <4>1, <3>1, <1>9, Zenon
    <3> DEFINE c == Cardinality(chain)
    <3> HIDE DEF c
    <3>3. c \in DOMAIN tails /\ \E p \in chain : p[2] >= tails[c]
      BY <3>2 DEF c
    <3>4. c \in DOMAIN placed
      BY <3>3, <1>3, <1>4
    <3>5. placed[c] <= tails[c] /\ placed[c] \in Int
      <4>1. tails[c] \in Int /\ q[2] \in Int
        BY <3>3, <1>1, <1>4
      <4>2. CASE c = slot
        <5>1. placed[c] = q[2]
          BY <4>2, <3>4, <1>3
        <5>2. ~(c < slot)
          BY <4>2, <1>4
        <5>3. ~(tails[c] < q[2])
          BY <5>2, <3>3, <1>3
        <5> QED
          BY <5>1, <5>3, <4>1
      <4>3. CASE c # slot
        <5>1. placed[c] = tails[c]
          BY <4>3, <3>4, <1>3
        <5> QED
          BY <5>1, <4>1
      <4> QED
        BY <4>2, <4>3
    <3>6. \E p \in chain : p[2] >= placed[c]
      BY <3>1, <3>3, <3>5, <1>4, <1>6
    <3> QED
      BY <3>4, <3>6 DEF c
  <2>2. CASE q \in chain
    <3> DEFINE rest == chain \ {q}
               c == Cardinality(chain)
               d == Cardinality(rest)
    <3>1. rest \in SUBSET before /\ rest \in SUBSET after /\ IsChain(rest)
      BY <1>5, <1>9 DEF IsChain
    <3>2. \A p \in rest : p[2] < q[2]
      <4> SUFFICES ASSUME NEW p \in rest PROVE p[2] < q[2]
        OBVIOUS
      <4>1. (p[1] < q[1] /\ p[2] < q[2]) \/ (q[1] < p[1] /\ q[2] < p[2])
        BY <2>2, <1>9 DEF IsChain
      <4> QED
        BY <4>1, <3>1, <1>1, <1>6
    <3>3. c = d + 1 /\ d \in Nat
      <4>1. chain = rest \cup {q} /\ q \notin rest
        BY <2>2
      <4> HIDE DEF rest
      <4>2. Cardinality(rest) \in Nat
            /\ Cardinality(rest \cup {q}) = IF q \in rest THEN Cardinality(rest) ELSE Cardinality(rest) + 1
        <5>1. IsFiniteSet(rest) /\ Cardinality(rest) \in Nat
          BY <3>1, <1>7
        <5> QED
          BY <5>1, FS_AddElement
      <4> QED
        BY <4>1, <4>2
    <3>4. c <= slot
      <4>1. CASE rest = {}
        <5>1. d = 0
          BY <4>1, FS_EmptySet
        <5> HIDE DEF c, d
        <5> QED
          BY <5>1, <3>3, <1>3, <1>4
      <4>2. CASE rest # {}
        <5>1. d \in DOMAIN tails /\ \E p \in rest : p[2] >= tails[d]
          BY <4>2, <3>1 DEF TailsFit, before
        <5> HIDE DEF rest, c, d
        <5>2. tails[d] < q[2]
          BY <5>1, <3>1, <3>2, <1>1, <1>4, <1>6
        <5>3. d < slot
          BY <5>1, <5>2, <1>3
        <5> QED
          BY <5>3, <3>3, <1>4
      <4> QED
        BY <4>1, <4>2
    <3> HIDE DEF c, d, rest
    <3>5. c \in 1..slot
      BY <3>3, <3>4, <1>4
    <3>6. c \in DOMAIN placed
      BY <3>5, <1>3, <1>4
    <3>7. placed[c] <= q[2]
      <4>1. CASE c = slot
        BY <4>1, <3>6, <1>1, <1>3
      <4>2. CASE c # slot
        <5>1. c < slot /\ c \in DOMAIN tails
          BY <4>2, <3>5, <1>3, <1>4
        <5>2. tails[c] < q[2] /\ placed[c] = tails[c]
          BY <5>1, <4>2, <3>6, <1>3
        <5> QED
          BY <5>1, <5>2, <1>1, <1>4
      <4> QED
        BY <4>1, <4>2
    <3>8. q[2] >= placed[c]
      <4>1. placed[c] \in Int
        BY <3>5, <3>6, <1>1, <1>3, <1>4
      <4> QED
        BY <4>1, <3>7, <1>1
    <3> QED
      BY <3>6, <3>8, <2>2 DEF c
  <2> QED
    BY <2>1, <2>2
<1> QED
  BY <1>3, <1>8, <1>9 DEF TailsFit, n, after, placed

\* Every turn keeps the tails fit, so the last one leaves them so.
LEMMA SearchFits ==
  ASSUME NEW left \in Seq(Int), NEW right \in Seq(Int), NEW last \in Nat,
         last = Len(left) * Len(right), NEW tails, IsSearch(left, right, last, tails)
  PROVE  TailsFit(left, right, last, tails[last])
<1> DEFINE n == Len(right)
           Bad == {k \in 0..last : ~TailsFit(left, right, k, tails[k])}
<1>1. Len(left) \in Nat /\ n \in Nat
  OBVIOUS
<1>2. Met(left, right, 0) = {}
  <2> SUFFICES ASSUME NEW p \in Matches(left, right) PROVE ~(Rank(p, n) < 0)
    BY DEF Met
  <2>1. p \in (1..Len(left)) \X (1..n)
    BY DEF Matches
  <2>2. Rank(p, n) \in 0..(Len(left) * n - 1)
    BY <1>1, <2>1, RanksFollowTheSearch
  <2> QED
    BY <2>2
<1>3. TailsFit(left, right, 0, tails[0])
  <2>1. tails[0] = <<>>
    BY DEF IsSearch
  <2>2. <<>> \in Seq(1..n) /\ DOMAIN <<>> = {}
    OBVIOUS
  <2>3. Rising(<<>>)
    BY <2>2 DEF Rising
  <2>4. \A chain \in SUBSET Met(left, right, 0) : chain = {}
    BY <1>2
  <2>5. TailsFit(left, right, 0, <<>>)
    BY <2>2, <2>3, <2>4, Zenon DEF TailsFit
  <2> QED
    BY <2>1, <2>5
<1>4. ASSUME NEW k \in 1..last, TailsFit(left, right, k - 1, tails[k - 1])
      PROVE  TailsFit(left, right, k, tails[k])
  <2> DEFINE q == <<LeftIndex(k, n), RightIndex(k, n)>>
             before == tails[k - 1]
  <2>1. tails[k] = TailsAfter(left, right, k, before)
    <3>1. \A i \in 0..last : tails[i] = IF i = 0 THEN <<>> ELSE TailsAfter(left, right, i, tails[i - 1])
      BY DEF IsSearch
    <3>2. k \in 0..last /\ k # 0
      OBVIOUS
    <3> QED
      BY <3>1, <3>2, Zenon
  <2>2. /\ q \in (1..Len(left)) \X (1..n) /\ Rank(q, n) = k - 1
        /\ Met(left, right, k) = Met(left, right, k - 1) \cup ({q} \cap Matches(left, right))
    <3>1. k \in 1..(Len(left) * Len(right))
      OBVIOUS
    <3> QED
      BY <3>1, TurnMeetsOne
  <2>3. TailsAfter(left, right, k, before)
          = IF left[q[1]] = right[q[2]] THEN PlaceTail(before, q[2]) ELSE before
    BY DEF TailsAfter
  <2> HIDE DEF q, n, before
  <2>4. CASE left[q[1]] = right[q[2]]
    <3>1. q \in Matches(left, right)
      BY <2>2, <2>4 DEF Matches, n
    <3>2. k - 1 \in Nat /\ (k - 1) + 1 = k
      OBVIOUS
    <3>3. Met(left, right, k) = Met(left, right, k - 1) \cup {q}
      BY <2>2, <3>1
    <3> DEFINE j == k - 1
    <3>4. j \in Nat /\ j + 1 = k /\ TailsFit(left, right, j, before) /\ Rank(q, Len(right)) = j
          /\ Met(left, right, j + 1) = Met(left, right, j) \cup {q}
      BY <3>2, <3>3, <1>4, <2>2 DEF before, n
    <3> HIDE DEF j
    <3>5. TailsFit(left, right, j + 1, PlaceTail(before, q[2]))
      BY <3>1, <3>4, MatchKeepsFit
    <3> QED
      BY <3>4, <3>5, <2>1, <2>3, <2>4
  <2>5. CASE left[q[1]] # right[q[2]]
    <3>1. q \notin Matches(left, right)
      BY <2>5 DEF Matches
    <3>2. Met(left, right, k) = Met(left, right, k - 1)
      BY <2>2, <3>1
    <3> QED
      BY <3>2, <1>4, <2>1, <2>3, <2>5 DEF TailsFit, before
  <2> QED
    BY <2>4, <2>5
<1>5. CASE Bad = {}
  BY <1>5
<1>6. CASE Bad # {}
  <2>1. PICK k \in Bad : \A j \in Bad : k <= j
    <3>1. Bad \in SUBSET Nat
      OBVIOUS
    <3> HIDE DEF Bad
    <3> QED
      BY <3>1, <1>6, FirstNatural
  <2>2. k \in 1..last
    BY <2>1, <1>3
  <2>3. k - 1 \in 0..last /\ k - 1 \notin Bad
    BY <2>1, <2>2
  <2>4. TailsFit(left, right, k - 1, tails[k - 1])
    BY <2>3
  <2>5. TailsFit(left, right, k, tails[k])
    BY <2>2, <2>4, <1>4
  <2> QED
    BY <2>1, <2>5
<1> QED
  BY <1>5, <1>6

\* The length of the tails is that of the longest common subsequence, although
\* only the ends of partial ones are kept.
LEMMA SharedStopsAreCommon ==
  ASSUME NEW left \in Seq(Int), NEW right \in Seq(Int)
  PROVE  SharedStops(left, right) = CommonLength(left, right)
<1> DEFINE last == Len(left) * Len(right)
           sizes == {Cardinality(chain) : chain \in {c \in SUBSET Matches(left, right) : IsChain(c)}}
<1>1. last \in Nat
  OBVIOUS
<1>2. PICK tails : IsSearch(left, right, last, tails) /\ SharedStops(left, right) = Len(tails[last])
  BY SharedStopsAreFound
<1> DEFINE found == tails[last]
<1>3. TailsFit(left, right, last, found)
  <2> DEFINE l == last
  <2>1. l \in Nat /\ l = Len(left) * Len(right) /\ IsSearch(left, right, l, tails)
    BY <1>1, <1>2
  <2> HIDE DEF l
  <2>2. TailsFit(left, right, l, tails[l])
    BY <2>1, SearchFits
  <2> QED
    BY <2>2 DEF l
<1>4. Met(left, right, last) = Matches(left, right)
  <2>1. ASSUME NEW p \in Matches(left, right) PROVE Rank(p, Len(right)) < last
    <3>1. p \in (1..Len(left)) \X (1..Len(right)) /\ Len(left) \in Nat /\ Len(right) \in Nat
      BY DEF Matches
    <3>2. Rank(p, Len(right)) \in 0..(Len(left) * Len(right) - 1)
      BY <3>1, RanksFollowTheSearch
    <3> QED
      BY <3>2, <1>1
  <2> QED
    BY <2>1 DEF Met
<1>5. CommonLength(left, right) = Max(sizes)
  BY DEF CommonLength, Matches, IsChain
<1> HIDE DEF last, found
<1>6. Len(found) \in Nat /\ DOMAIN found = 1..Len(found)
  BY <1>3 DEF TailsFit
<1>7. \A size \in sizes : size \in 0..Len(found)
  <2> SUFFICES ASSUME NEW chain \in SUBSET Matches(left, right), IsChain(chain)
               PROVE  Cardinality(chain) \in 0..Len(found)
    OBVIOUS
  <2>1. CASE chain = {}
    BY <2>1, <1>6, FS_EmptySet
  <2>2. CASE chain # {}
    <3>1. Cardinality(chain) \in DOMAIN found
      BY <2>2, <1>3, <1>4 DEF TailsFit
    <3> QED
      BY <3>1, <1>6
  <2> QED
    BY <2>1, <2>2
<1>8. Len(found) \in sizes
  <2>1. CASE Len(found) = 0
    <3>1. {} \in SUBSET Matches(left, right) /\ IsChain({}) /\ Cardinality({}) = 0
      BY FS_EmptySet DEF IsChain
    <3> QED
      BY <3>1, <2>1
  <2>2. CASE Len(found) # 0
    <3>1. Len(found) \in DOMAIN found
      BY <2>2, <1>6
    <3>2. \E chain \in SUBSET Matches(left, right) : IsChain(chain) /\ Cardinality(chain) = Len(found)
      BY <3>1, <1>3, <1>4 DEF TailsFit
    <3> QED
      BY <3>2
  <2> QED
    BY <2>1, <2>2
<1> HIDE DEF sizes
<1>9. Max(sizes) = Len(found)
  <2>1. IsFiniteSet(0..Len(found)) /\ sizes \in SUBSET (0..Len(found))
    BY <1>6, <1>7, FS_Interval
  <2>2. IsFiniteSet(sizes) /\ sizes \in SUBSET Int /\ sizes # {}
    <3>1. IsFiniteSet(sizes)
      BY <2>1, FS_Subset
    <3>2. \A size \in sizes : size \in Int
      BY <1>6, <1>7
    <3> QED
      BY <3>1, <3>2, <1>8
  <2>3. Max(sizes) \in sizes /\ \A size \in sizes : Max(sizes) >= size
    BY <2>2, GreatestOf
  <2>4. Max(sizes) \in 0..Len(found) /\ Max(sizes) >= Len(found)
    BY <2>3, <1>7, <1>8
  <2> QED
    BY <2>4, <1>6
<1> QED
  BY <1>2, <1>5, <1>9 DEF found

\* A common subsequence read the other way round is one of the mirrored pair.
LEMMA CommonIsMutual ==
  ASSUME NEW left \in Seq(Int), NEW right \in Seq(Int)
  PROVE  CommonLength(left, right) = CommonLength(right, left)
<1> DEFINE Sizes(l, r) == {Cardinality(chain) : chain \in {c \in SUBSET Matches(l, r) : IsChain(c)}}
<1>1. ASSUME NEW l \in Seq(Int), NEW r \in Seq(Int), NEW chain \in SUBSET Matches(l, r), IsChain(chain)
      PROVE  Cardinality(chain) \in Sizes(r, l)
  <2> DEFINE flip == [p \in chain |-> <<p[2], p[1]>>]
             mirror == {flip[p] : p \in chain}
  <2>1. \A p \in chain : p = <<p[1], p[2]>> /\ p[1] \in 1..Len(l) /\ p[2] \in 1..Len(r) /\ l[p[1]] = r[p[2]]
    BY DEF Matches
  <2>2. mirror \in SUBSET Matches(r, l)
    BY <2>1 DEF Matches
  <2>3. IsChain(mirror)
    <3> SUFFICES ASSUME NEW p \in chain, NEW q \in chain
                 PROVE  LET s == flip[p]
                            t == flip[q]
                        IN  s = t \/ (s[1] < t[1] /\ s[2] < t[2]) \/ (t[1] < s[1] /\ t[2] < s[2])
      BY DEF IsChain
    <3>1. p = q \/ (p[1] < q[1] /\ p[2] < q[2]) \/ (q[1] < p[1] /\ q[2] < p[2])
      BY <1>1 DEF IsChain
    <3>2. flip[p] = <<p[2], p[1]>> /\ flip[q] = <<q[2], q[1]>>
      OBVIOUS
    <3> HIDE DEF flip
    <3> QED
      BY <3>1, <3>2
  <2>4. flip \in Bijection(chain, mirror)
    <3>1. \A p, q \in chain : flip[p] = flip[q] => p = q
      BY <2>1
    <3> QED
      BY <3>1 DEF Bijection, Injection, Surjection, IsInjective
  <2> HIDE DEF flip, mirror
  <2>5. IsFiniteSet(chain)
    BY <1>1, MatchesAreFinite
  <2>6. Cardinality(mirror) = Cardinality(chain)
    BY <2>4, <2>5, FS_Bijection DEF ExistsBijection
  <2> QED
    BY <2>2, <2>3, <2>6
<1>2. Sizes(left, right) = Sizes(right, left)
  <2>1. \A size \in Sizes(left, right) : size \in Sizes(right, left)
    BY <1>1
  <2>2. \A size \in Sizes(right, left) : size \in Sizes(left, right)
    BY <1>1
  <2> HIDE DEF Sizes
  <2> QED
    BY <2>1, <2>2
<1> QED
  BY <1>2 DEF CommonLength, Matches, IsChain

\* The longest common subsequence is the size of a chain.
LEMMA CommonIsAChain ==
  ASSUME NEW left \in Seq(Int), NEW right \in Seq(Int)
  PROVE  \E chain \in SUBSET Matches(left, right) :
           IsChain(chain) /\ Cardinality(chain) = CommonLength(left, right)
<1> DEFINE chains == {c \in SUBSET Matches(left, right) : IsChain(c)}
           size == [c \in chains |-> Cardinality(c)]
           sizes == {size[c] : c \in chains}
<1>1. IsFiniteSet(Matches(left, right)) /\ \A c \in chains : Cardinality(c) \in Int
  BY MatchesAreFinite
<1>2. IsFiniteSet(chains)
  <2>1. chains \in SUBSET (SUBSET Matches(left, right))
    OBVIOUS
  <2> HIDE DEF chains
  <2> QED
    BY <1>1, <2>1, FS_SUBSET, FS_Subset
<1>3. {} \in chains
  BY DEF IsChain
<1>4. sizes = {Cardinality(c) : c \in chains}
  OBVIOUS
<1>5. CommonLength(left, right) = Max(sizes)
  BY <1>4 DEF CommonLength, Matches, IsChain
<1>6. sizes # {} /\ sizes \in SUBSET Int
  BY <1>1, <1>3, <1>4
<1>7. IsFiniteSet(sizes)
  <2> HIDE DEF chains, size
  <2> QED
    BY <1>2, ValuesOf
<1> HIDE DEF size
<1>8. Max(sizes) \in sizes
  <2> HIDE DEF sizes
  <2> QED
    BY <1>6, <1>7, GreatestOf
<1> QED
  BY <1>4, <1>5, <1>8

\* A ride has finitely many stops, and each its own place if it is visited once.
LEMMA StopsAreFew ==
  ASSUME NEW o, o.ahead \in Seq(Int)
  PROVE  /\ IsFiniteSet(StopsOf(o))
         /\ VisitsOnce(o) => \A i, j \in DOMAIN o.ahead : o.ahead[i] = o.ahead[j] => i = j
<1> DEFINE places == DOMAIN o.ahead
           visit == [i \in places |-> o.ahead[i]]
<1>1. Len(o.ahead) \in Nat /\ places = 1..Len(o.ahead)
  OBVIOUS
<1>2. IsFiniteSet(places) /\ Cardinality(places) = Len(o.ahead)
  <2> DEFINE len == Len(o.ahead)
  <2>1. 1 \in Int /\ len \in Nat /\ places = 1..len
    BY <1>1
  <2> HIDE DEF places, len
  <2>2. IsFiniteSet(1..len) /\ Cardinality(1..len) = IF 1 > len THEN 0 ELSE len - 1 + 1
    BY <2>1, FS_Interval
  <2> QED
    BY <2>1, <2>2 DEF len
<1>3. visit \in Surjection(places, StopsOf(o))
  BY DEF Surjection, StopsOf
<1> HIDE DEF visit, places
<1>4. /\ IsFiniteSet(StopsOf(o))
      /\ Cardinality(StopsOf(o)) = Cardinality(places) <=> visit \in Injection(places, StopsOf(o))
  BY <1>2, <1>3, FS_Surjection
<1>5. visit \in Injection(places, StopsOf(o)) => \A i, j \in places : visit[i] = visit[j] => i = j
  BY DEF Injection, IsInjective
<1> QED
  BY <1>2, <1>4, <1>5 DEF VisitsOnce, visit, places

\* The shorter of two rides has a stop.
LEMMA ShorterRideTyped ==
  ASSUME NEW a, NEW b, a.ahead \in Seq(Int), b.ahead \in Seq(Int), a.ahead # <<>>, b.ahead # <<>>
  PROVE  ShorterRide(a, b) \in Nat /\ ShorterRide(a, b) > 0
<1> DEFINE m == Len(a.ahead)
           n == Len(b.ahead)
<1>1. m \in Nat /\ m > 0 /\ n \in Nat /\ n > 0
  OBVIOUS
<1>2. ShorterRide(a, b) = Min({m, n})
  BY DEF ShorterRide
<1> HIDE DEF m, n
<1>3. {m, n} \in SUBSET Int /\ {m, n} # {}
  BY <1>1
<1>4. IsFiniteSet({m} \cup {n}) /\ {m, n} = {m} \cup {n}
  BY FS_Singleton, FS_Union
<1>5. Min({m, n}) \in {m, n}
  BY <1>3, <1>4, LeastOf
<1> QED
  BY <1>1, <1>2, <1>5

\* Where one of two rides visits its stops once, what they have in common
\* cannot be longer than the stops they have in common are many.
LEMMA CommonStopsBoundLength ==
  ASSUME NEW a, NEW b, a.ahead \in Seq(Int), b.ahead \in Seq(Int), VisitsOnce(a) \/ VisitsOnce(b)
  PROVE  CommonLength(a.ahead, b.ahead) <= Cardinality(StopsOf(a) \cap StopsOf(b))
<1> DEFINE left == a.ahead
           right == b.ahead
           shared == StopsOf(a) \cap StopsOf(b)
<1>1. PICK chain \in SUBSET Matches(left, right) :
        IsChain(chain) /\ Cardinality(chain) = CommonLength(left, right)
  BY CommonIsAChain
<1>2. /\ Len(left) \in Nat /\ DOMAIN left = 1..Len(left)
      /\ Len(right) \in Nat /\ DOMAIN right = 1..Len(right)
  OBVIOUS
<1>3. ASSUME NEW o, o.ahead \in Seq(Int)
      PROVE  /\ IsFiniteSet(StopsOf(o))
             /\ VisitsOnce(o) => \A i, j \in DOMAIN o.ahead : o.ahead[i] = o.ahead[j] => i = j
  BY <1>3, StopsAreFew
<1>4. IsFiniteSet(shared)
  BY <1>3, FS_Intersection
<1> DEFINE stop == [p \in chain |-> left[p[1]]]
<1>5. \A p \in chain : /\ p = <<p[1], p[2]>> /\ p[1] \in DOMAIN left /\ p[2] \in DOMAIN right
                        /\ left[p[1]] = right[p[2]]
  BY <1>2 DEF Matches
<1>6. stop \in [chain -> shared]
  <2>1. \A p \in chain : left[p[1]] \in shared
    BY <1>5 DEF StopsOf
  <2> HIDE DEF shared
  <2> QED
    BY <2>1
<1>7. \A p, q \in chain : stop[p] = stop[q] => p = q
  <2> SUFFICES ASSUME NEW p \in chain, NEW q \in chain, left[p[1]] = left[q[1]] PROVE p = q
    OBVIOUS
  <2>1. right[p[2]] = right[q[2]]
    BY <1>5
  <2>2. p[1] = q[1] \/ p[2] = q[2]
    BY <2>1, <1>3, <1>5
  <2>3. p[1] \in Int /\ p[2] \in Int /\ q[1] \in Int /\ q[2] \in Int
    BY <1>2, <1>5
  <2> QED
    BY <2>2, <2>3, <1>1 DEF IsChain
<1>8. stop \in Injection(chain, shared)
  <2> HIDE DEF stop, shared
  <2> QED
    BY <1>6, <1>7 DEF Injection, IsInjective
<1> HIDE DEF stop
<1> QED
  BY <1>1, <1>4, <1>8, FS_Injection

(***************************************************************************)
(* Corridors.                                                              *)
(***************************************************************************)

\* A ride ahead: a boarding choice with a stop at least, the first one.
IsRide(option) == option.ahead \in Seq(Int) /\ option.ahead # <<>>

\* The comparison with its prefilter is the plain one, on every pair.
LEMMA OverlapsIsSameRoad ==
  ASSUME NEW a, NEW b, IsRide(a), IsRide(b)
  PROVE  Overlaps(a, b) <=> SameRoad(a, b)
<1> DEFINE common == CommonLength(a.ahead, b.ahead)
           stops == Cardinality(StopsOf(a) \cap StopsOf(b))
           enough == 7 * ShorterRide(a, b)
<1>1. SharedStops(a.ahead, b.ahead) = common
  BY SharedStopsAreCommon DEF IsRide
<1>2. VisitsOnce(a) \/ VisitsOnce(b) => common <= stops
  BY CommonStopsBoundLength DEF IsRide
<1>3. common \in Int /\ stops \in Int /\ enough \in Int
  <2>1. common \in Int
    <3>1. \E chain \in SUBSET Matches(a.ahead, b.ahead) : Cardinality(chain) = common
      BY CommonIsAChain DEF IsRide
    <3>2. \A chain \in SUBSET Matches(a.ahead, b.ahead) : Cardinality(chain) \in Nat
      BY MatchesAreFinite DEF IsRide
    <3> HIDE DEF common
    <3> QED
      BY <3>1, <3>2
  <2>2. stops \in Int
    <3>1. IsFiniteSet(StopsOf(a))
      BY StopsAreFew DEF IsRide
    <3> QED
      BY <3>1, FS_Intersection, FS_CardinalityType
  <2>3. ShorterRide(a, b) \in Int
    BY ShorterRideTyped DEF IsRide
  <2> QED
    BY <2>1, <2>2, <2>3
<1>4. /\ Overlaps(a, b) <=> /\ VisitsOnce(a) \/ VisitsOnce(b) => 10 * stops >= enough
                            /\ 10 * common >= enough
      /\ SameRoad(a, b) <=> 10 * common >= enough
  BY <1>1 DEF Overlaps, SameRoad
<1> HIDE DEF common, stops, enough
<1>5. VisitsOnce(a) \/ VisitsOnce(b) => (10 * common >= enough => 10 * stops >= enough)
  BY <1>2, <1>3
<1> QED
  BY <1>4, <1>5

\* Rides along the same road have a stop in common, and are so both ways.
LEMMA SameRoadIsMutual ==
  ASSUME NEW a, NEW b, IsRide(a), IsRide(b), SameRoad(a, b)
  PROVE  SameRoad(b, a) /\ StopsOf(a) \cap StopsOf(b) # {}
<1>1. CommonLength(a.ahead, b.ahead) = CommonLength(b.ahead, a.ahead)
  BY CommonIsMutual DEF IsRide
<1>2. ShorterRide(a, b) = ShorterRide(b, a)
  <2>1. {Len(a.ahead), Len(b.ahead)} = {Len(b.ahead), Len(a.ahead)}
    OBVIOUS
  <2> QED
    BY <2>1 DEF ShorterRide
<1>3. ShorterRide(a, b) \in Int /\ ShorterRide(a, b) > 0
  BY ShorterRideTyped DEF IsRide
<1>4. PICK chain \in SUBSET Matches(a.ahead, b.ahead) :
        Cardinality(chain) = CommonLength(a.ahead, b.ahead)
  BY CommonIsAChain DEF IsRide
<1>5. chain # {}
  <2>1. chain = {} => CommonLength(a.ahead, b.ahead) = 0
    BY <1>4, FS_EmptySet
  <2>2. CommonLength(a.ahead, b.ahead) = 0 => 10 * CommonLength(a.ahead, b.ahead) = 0
    OBVIOUS
  <2>3. ~(0 >= 7 * ShorterRide(a, b))
    BY <1>3
  <2> QED
    BY <2>1, <2>2, <2>3 DEF SameRoad
<1>6. StopsOf(a) \cap StopsOf(b) # {}
  <2>1. PICK p \in chain : TRUE
    BY <1>5
  <2>2. /\ p[1] \in 1..Len(a.ahead) /\ p[2] \in 1..Len(b.ahead)
        /\ a.ahead[p[1]] = b.ahead[p[2]]
    BY <2>1 DEF Matches
  <2>3. DOMAIN a.ahead = 1..Len(a.ahead) /\ DOMAIN b.ahead = 1..Len(b.ahead)
    BY DEF IsRide
  <2> QED
    BY <2>2, <2>3 DEF StopsOf
<1> QED
  BY <1>1, <1>2, <1>6 DEF SameRoad

\* Grouping keeps rides along the same road together and joins nothing else.
LEMMA GroupsAreRoads ==
  ASSUME NEW options, \A o \in options : IsRide(o)
  PROVE  /\ \A c \in Corridors(options) : c \subseteq options
         /\ \A c, d \in Corridors(options) : c # d => \A a \in c, b \in d : ~SameRoad(a, b)
         /\ \A c \in Corridors(options) : \A half \in (SUBSET c) \ {{}, c} :
              \E a \in half, b \in c \ half : SameRoad(a, b)
<1> DEFINE joined == {p \in options \X options :
                        /\ p[1] # p[2] /\ StopsOf(p[1]) \cap StopsOf(p[2]) # {}
                        /\ Overlaps(p[1], p[2])}
           whole == {g \in SUBSET options : \A p \in joined : p[1] \in g <=> p[2] \in g}
           Group(a) == {b \in options : \A g \in whole : a \in g => b \in g}
<1>1. Corridors(options) = {Group(a) : a \in options}
  BY DEF Corridors
<1>2. \A a, b \in options : a # b => (<<a, b>> \in joined <=> SameRoad(a, b))
  BY OverlapsIsSameRoad, SameRoadIsMutual
<1>3. \A p \in joined : p = <<p[1], p[2]>> /\ p[1] \in options /\ p[2] \in options /\ p[1] # p[2]
  OBVIOUS
<1> HIDE DEF joined
<1>4. \A a, b \in options : SameRoad(a, b) => \A g \in whole : a \in g <=> b \in g
  <2> SUFFICES ASSUME NEW a \in options, NEW b \in options, SameRoad(a, b), NEW g \in whole
               PROVE  a \in g <=> b \in g
    OBVIOUS
  <2>1. CASE a = b
    BY <2>1
  <2>2. CASE a # b
    <3>1. <<a, b>> \in joined
      BY <2>2, <1>2
    <3>2. \A p \in joined : p[1] \in g <=> p[2] \in g
      OBVIOUS
    <3>3. <<a, b>>[1] \in g <=> <<a, b>>[2] \in g
      BY <3>1, <3>2
    <3> QED
      BY <3>3
  <2> QED
    BY <2>1, <2>2
<1>5. \A a \in options : Group(a) \in whole /\ a \in Group(a)
  BY <1>3
<1>6. \A half \in SUBSET options : options \ half \in whole <=> half \in whole
  BY <1>3
<1>7. ASSUME NEW x \in options, NEW y \in options, Group(x) # Group(y),
             NEW a \in Group(x), NEW b \in Group(y)
      PROVE  ~SameRoad(a, b)
  <2> SUFFICES ASSUME SameRoad(a, b) PROVE FALSE
    OBVIOUS
  <2>1. a \in options /\ b \in options
    OBVIOUS
  <2>2. \A g \in whole : a \in g <=> b \in g
    BY <2>1, <1>4
  <2>3. \A z \in options : \A c \in Group(z), g \in whole : z \in g <=> c \in g
    <3> SUFFICES ASSUME NEW z \in options, NEW c \in Group(z), NEW g \in whole PROVE z \in g <=> c \in g
      OBVIOUS
    <3>1. z \in g => c \in g
      OBVIOUS
    <3>2. z \notin g => c \notin g
      <4>1. options \ g \in whole
        BY <1>6
      <4> QED
        BY <4>1
    <3> QED
      BY <3>1, <3>2
  <2>4. \A g \in whole : x \in g <=> y \in g
    BY <2>2, <2>3
  <2>5. Group(x) = Group(y)
    BY <2>4
  <2> QED
    BY <2>5, <1>7
<1>8. ASSUME NEW x \in options, NEW half \in SUBSET Group(x), half # {}, half # Group(x)
      PROVE  \E a \in half, b \in Group(x) \ half : SameRoad(a, b)
  <2> SUFFICES ASSUME \A a \in half, b \in Group(x) \ half : ~SameRoad(a, b) PROVE FALSE
    OBVIOUS
  <2> DEFINE group == Group(x)
  <2>1. group \in whole /\ group \subseteq options /\ x \in group /\ half \in SUBSET options
    BY <1>5
  <2>2. \A g \in whole : x \in g => group \subseteq g
    OBVIOUS
  <2>3. \A a \in half, b \in group \ half : ~SameRoad(a, b) /\ ~SameRoad(b, a)
    <3> SUFFICES ASSUME NEW a \in half, NEW b \in group \ half PROVE ~SameRoad(a, b) /\ ~SameRoad(b, a)
      OBVIOUS
    <3>1. IsRide(a) /\ IsRide(b)
      BY <2>1
    <3> QED
      BY <3>1, SameRoadIsMutual
  <2> HIDE DEF group
  <2>4. \A p \in joined : /\ p[1] \in group <=> p[2] \in group
                          /\ SameRoad(p[1], p[2])
    <3> SUFFICES ASSUME NEW p \in joined
                 PROVE  (p[1] \in group <=> p[2] \in group) /\ SameRoad(p[1], p[2])
      OBVIOUS
    <3>1. p[1] \in group <=> p[2] \in group
      BY <2>1
    <3>2. SameRoad(p[1], p[2])
      BY <1>2, <1>3
    <3> QED
      BY <3>1, <3>2
  <2>5. half \in whole /\ group \ half \in whole
    <3>1. \A p \in joined : p[1] \in half <=> p[2] \in half
      BY <2>3, <2>4 DEF group
    <3>2. \A p \in joined : p[1] \in group \ half <=> p[2] \in group \ half
      BY <3>1, <2>4
    <3> QED
      BY <3>1, <3>2, <2>1
  <2>6. CASE x \in half
    BY <2>2, <2>5, <2>6, <1>8 DEF group
  <2>7. CASE x \notin half
    <3>1. group \subseteq group \ half
      BY <2>1, <2>2, <2>5, <2>7
    <3> QED
      BY <3>1, <1>8 DEF group
  <2> QED
    BY <2>6, <2>7
<1> HIDE DEF whole, Group
<1>9. \A c, d \in Corridors(options) : c # d => \A a \in c, b \in d : ~SameRoad(a, b)
  BY <1>1, <1>7
<1>10. \A c \in Corridors(options) : \A half \in (SUBSET c) \ {{}, c} :
              \E a \in half, b \in c \ half : SameRoad(a, b)
  <2> SUFFICES ASSUME NEW c \in Corridors(options), NEW half \in (SUBSET c) \ {{}, c}
               PROVE  \E a \in half, b \in c \ half : SameRoad(a, b)
    OBVIOUS
  <2>1. PICK x \in options : c = Group(x)
    BY <1>1
  <2>2. half \in SUBSET c /\ half # {} /\ half # c
    OBVIOUS
  <2> QED
    BY <2>1, <2>2, <1>8
<1>11. \A c \in Corridors(options) : c \subseteq options
  BY <1>1 DEF Group
<1> QED
  BY <1>9, <1>10, <1>11

(***************************************************************************)
(* The options at the stops near a flat, and the property.                 *)
(***************************************************************************)

\* Who boards at a stop of a route has the route from its first visit ahead.
LEMMA BoardingIsARide ==
  ASSUME NEW network, IsNetwork(network), NEW stop, NEW s \in ServicesAt(network, stop)
  PROVE  IsRide(BoardAt(network, s, stop))
<1> DEFINE stops == network.route[s]
           visits == {i \in DOMAIN stops : stops[i] = stop}
           first == Min(visits)
<1>1. stops \in Seq(Int) /\ visits # {}
  BY DEF IsNetwork, ServicesAt
<1> HIDE DEF stops
<1>2. Len(stops) \in Nat /\ DOMAIN stops = 1..Len(stops)
  BY <1>1
<1>3. IsFiniteSet(visits) /\ visits \in SUBSET Int
  <2>1. IsFiniteSet(1..Len(stops)) /\ visits \in SUBSET (1..Len(stops))
    BY <1>2, FS_Interval
  <2>2. \A i \in visits : i \in Int
    BY <1>2
  <2> QED
    BY <2>1, <2>2, FS_Subset
<1>4. first \in visits
  <2> HIDE DEF visits
  <2> QED
    BY <1>1, <1>3, LeastOf
<1>5. first \in 1..Len(stops)
  BY <1>2, <1>4
<1>6. BoardAt(network, s, stop).ahead = SubSeq(stops, first, Len(stops))
  BY DEF BoardAt, stops
<1> HIDE DEF first, visits
<1>7. SubSeq(stops, first, Len(stops)) \in Seq(Int) /\ SubSeq(stops, first, Len(stops)) # <<>>
  <2>1. first \in Int /\ Len(stops) \in Int /\ first <= Len(stops)
    BY <1>2, <1>5
  <2>2. \A i \in first .. Len(stops) : stops[i] \in Int
    BY <1>1, <1>2, <1>5
  <2>3. /\ SubSeq(stops, first, Len(stops)) \in Seq(Int)
        /\ Len(SubSeq(stops, first, Len(stops)))
             = IF first <= Len(stops) THEN Len(stops) - first + 1 ELSE 0
    BY <2>1, <2>2, SubSeqProperties
  <2> DEFINE rest == SubSeq(stops, first, Len(stops))
  <2> HIDE DEF rest
  <2>4. rest \in Seq(Int) /\ Len(rest) > 0
    BY <2>1, <2>3 DEF rest
  <2>5. rest # <<>>
    BY <2>4
  <2> QED
    BY <2>4, <2>5 DEF rest
<1> QED
  BY <1>6, <1>7 DEF IsRide

\* What can be boarded near a flat, and where one can change to, are rides.
LEMMA OptionsAreRides ==
  ASSUME NEW network, IsNetwork(network), NEW stops
  PROVE  LET boarded == DirectOptions(network, stops)
         IN  (\A o \in boarded : IsRide(o)) /\ (\A o \in TransferOptions(network, boarded) : IsRide(o))
<1>1. \A o \in DirectOptions(network, stops) : IsRide(o)
  BY BoardingIsARide DEF DirectOptions
<1>2. \A o \in TransferOptions(network, DirectOptions(network, stops)) : IsRide(o)
  BY BoardingIsARide DEF TransferOptions
<1> QED
  BY <1>1, <1>2

\* What is assessed is the coverage of a flat's surroundings.
CoverageIsOfAFlat ==
  coverage.found.status = "calculated" =>
    \E network \in BusNetworks, surroundings \in Surroundings :
      coverage.found = Covered(network, surroundings)

\* The corridors of bus_coverage.py are distinct roads: for every network and
\* every flat no two that are counted share most of the road ahead, none falls
\* into unrelated halves, and none that a change adds repeats a direct service.
THEOREM CorridorsAreRoads == CoverageSpec => []CorridorsAreDistinctRoads
<1>1. CoverageInit => CoverageIsOfAFlat
  BY DEF CoverageInit, CoverageIsOfAFlat, NothingAssessed, NotCovered
<1>2. CoverageIsOfAFlat /\ [CoverageNext]_coverage => CoverageIsOfAFlat'
  BY DEF CoverageIsOfAFlat, CoverageNext, AssessCoverage
<1>3. CoverageIsOfAFlat => CorridorsAreDistinctRoads
  <2> SUFFICES ASSUME NEW network \in BusNetworks, NEW surroundings \in Surroundings,
                      coverage.found.status = "calculated",
                      coverage.found = Covered(network, surroundings)
               PROVE  CorridorsAreDistinctRoads
    BY DEF CoverageIsOfAFlat, CorridorsAreDistinctRoads
  <2> DEFINE stops == {near.stop : near \in {w \in surroundings : w.metres <= 400}}
             boarded == DirectOptions(network, stops)
             changes == NovelTransfers(network, boarded)
             direct == {c \in Corridors(boarded) : Frequent(network, c)}
             transfer == {c \in Corridors(changes) : Frequent(network, c)}
  <2>1. coverage.found.direct = direct /\ coverage.found.transfer = transfer
    <3> DEFINE score == 7 * DirectBand(Cardinality(direct)) + 3 * TransferBand(Cardinality(transfer))
    <3> HIDE DEF score
    <3>1. \/ Covered(network, surroundings) = NotCovered
          \/ Covered(network, surroundings) =
               [status |-> "calculated", direct |-> direct, transfer |-> transfer, score |-> score]
      BY DEF Covered, score
    <3> HIDE DEF direct, transfer
    <3> QED
      BY <3>1 DEF NotCovered
  <2>2. IsNetwork(network)
    BY NetworksAssumption
  <2> HIDE DEF stops
  <2>3. (\A o \in boarded : IsRide(o)) /\ (\A o \in changes : IsRide(o))
    BY <2>2, OptionsAreRides DEF NovelTransfers
  <2>4. \A t \in changes, d \in boarded : ~Overlaps(t, d)
    BY DEF NovelTransfers
  <2> HIDE DEF boarded, changes
  <2>5. \A t \in changes, d \in boarded : ~SameRoad(t, d)
    BY <2>3, <2>4, OverlapsIsSameRoad
  <2>6. ASSUME NEW options, \A o \in options : IsRide(o)
        PROVE  LET counted == {c \in Corridors(options) : Frequent(network, c)}
               IN  /\ UNION counted \subseteq options
                   /\ \A c, d \in counted : c # d => \A a \in c, b \in d : ~SameRoad(a, b)
                   /\ \A c \in counted : \A half \in (SUBSET c) \ {{}, c} :
                        \E a \in half, b \in c \ half : SameRoad(a, b)
    <3>1. /\ \A c \in Corridors(options) : c \subseteq options
          /\ \A c, d \in Corridors(options) : c # d => \A a \in c, b \in d : ~SameRoad(a, b)
          /\ \A c \in Corridors(options) : \A half \in (SUBSET c) \ {{}, c} :
               \E a \in half, b \in c \ half : SameRoad(a, b)
      BY <2>6, GroupsAreRoads
    <3> QED
      BY <3>1
  <2>7. /\ UNION direct \subseteq boarded
        /\ \A c, d \in direct : c # d => \A a \in c, b \in d : ~SameRoad(a, b)
        /\ \A c \in direct : \A half \in (SUBSET c) \ {{}, c} :
             \E a \in half, b \in c \ half : SameRoad(a, b)
    BY <2>3, <2>6
  <2>8. /\ UNION transfer \subseteq changes
        /\ \A c, d \in transfer : c # d => \A a \in c, b \in d : ~SameRoad(a, b)
        /\ \A c \in transfer : \A half \in (SUBSET c) \ {{}, c} :
             \E a \in half, b \in c \ half : SameRoad(a, b)
    BY <2>3, <2>6
  <2>9. \A t \in UNION transfer, d \in UNION direct : ~SameRoad(t, d)
    BY <2>5, <2>7, <2>8
  <2> HIDE DEF direct, transfer
  <2> QED
    BY <2>1, <2>7, <2>8, <2>9 DEF CorridorsAreDistinctRoads
<1> QED
  BY <1>1, <1>2, <1>3, PTL DEF CoverageSpec

(***************************************************************************)
(* Rides.                                                                  *)
(***************************************************************************)

\* The rides that go on by one edge, with those they go on from.
RidesAfter(graph, rides) ==
  rides \cup
  {[end |-> x[2], minutes |-> x[1].minutes + graph.edges[x[3]].minutes,
    changes |-> x[1].changes + (IF graph.edges[x[3]].change THEN 1 ELSE 0)] :
     x \in {y \in rides \X NodesOf(graph) \X DOMAIN graph.edges :
             /\ {graph.edges[y[3]].a, graph.edges[y[3]].b} = {y[1].end, y[2]}
             /\ y[1].minutes + graph.edges[y[3]].minutes <= Long}}

\* The ride of a passenger who has not left.
Standing(origin) == [end |-> origin, minutes |-> 0, changes |-> 0]

\* The rides of at most k edges, for each k up to the last one asked for.
AreRides(graph, origin, last, rides) ==
  rides = [k \in 0..last |-> IF k = 0 THEN {Standing(origin)} ELSE RidesAfter(graph, rides[k - 1])]

\* They can be told for any number of edges.
LEMMA RidesExist ==
  ASSUME NEW graph, NEW origin, NEW last \in Nat
  PROVE  \E rides : AreRides(graph, origin, last, rides)
<1> DEFINE Bad == {n \in Nat : ~\E rides : AreRides(graph, origin, n, rides)}
<1> SUFFICES ASSUME Bad # {} PROVE FALSE
  OBVIOUS
<1>1. PICK n \in Bad : \A m \in Bad : n <= m
  <2>1. Bad \in SUBSET Nat
    OBVIOUS
  <2> HIDE DEF Bad
  <2> QED
    BY <2>1, FirstNatural
<1>2. n # 0
  <2>1. AreRides(graph, origin, 0, [k \in 0..0 |-> {Standing(origin)}])
    BY DEF AreRides
  <2> QED
    BY <2>1, <1>1
<1>3. PICK rides : AreRides(graph, origin, n - 1, rides)
  BY <1>1, <1>2
<1> DEFINE longer == [k \in 0..n |-> IF k = n THEN RidesAfter(graph, rides[n - 1]) ELSE rides[k]]
<1>4. AreRides(graph, origin, n, longer)
  <2>1. n \in Nat /\ n - 1 \in Nat
    BY <1>1, <1>2
  <2>2. \A k \in 0..n : longer[k] = IF k = 0 THEN {Standing(origin)} ELSE RidesAfter(graph, longer[k - 1])
    <3> SUFFICES ASSUME NEW k \in 0..n
                 PROVE  longer[k] = IF k = 0 THEN {Standing(origin)} ELSE RidesAfter(graph, longer[k - 1])
      OBVIOUS
    <3>1. CASE k = n
      <4>1. longer[n] = RidesAfter(graph, rides[n - 1]) /\ longer[n - 1] = rides[n - 1]
        BY <2>1, <1>2
      <4> QED
        BY <4>1, <3>1, <1>2
    <3>2. CASE k # n
      <4>1. k \in 0..(n - 1) /\ longer[k] = rides[k] /\ (k # 0 => longer[k - 1] = rides[k - 1])
        BY <3>2, <2>1
      <4>2. rides[k] = IF k = 0 THEN {Standing(origin)} ELSE RidesAfter(graph, rides[k - 1])
        BY <4>1, <1>3 DEF AreRides
      <4> QED
        BY <4>1, <4>2
    <3> QED
      BY <3>1, <3>2
  <2> HIDE DEF longer
  <2>3. longer = [k \in 0..n |-> longer[k]]
    BY DEF longer
  <2> QED
    BY <2>2, <2>3 DEF AreRides
<1> QED
  BY <1>1, <1>4

\* The ends of an edge are codes, and its minutes a number.
LEMMA EdgesTyped ==
  ASSUME NEW graph, IsRailNetwork(graph), NEW i \in DOMAIN graph.edges
  PROVE  graph.edges[i].a \in Int /\ graph.edges[i].b \in Int /\ graph.edges[i].minutes \in Nat
<1>1. graph.edges[i] \in [a : Int, b : Int, minutes : Nat, change : BOOLEAN]
  <2> DEFINE rows == graph.edges
             Rows == [a : Int, b : Int, minutes : Nat, change : BOOLEAN]
  <2>1. rows \in Seq(Rows) /\ i \in DOMAIN rows
    BY DEF IsRailNetwork
  <2> HIDE DEF rows, Rows
  <2>2. rows[i] \in Rows
    BY <2>1
  <2> QED
    BY <2>2 DEF rows, Rows
<1> QED
  BY <1>1

\* A rail network has finitely many nodes.
LEMMA NodesAreFinite ==
  ASSUME NEW graph, IsRailNetwork(graph)
  PROVE  /\ IsFiniteSet(NodesOf(graph)) /\ NodesOf(graph) \in SUBSET Int
         /\ Cardinality(NodesOf(graph)) \in Nat
<1> DEFINE ends == [i \in DOMAIN graph.edges |-> {graph.edges[i].a, graph.edges[i].b}]
           all == {ends[i] : i \in DOMAIN graph.edges}
<1>1. Len(graph.edges) \in Nat /\ DOMAIN graph.edges = 1..Len(graph.edges)
  BY DEF IsRailNetwork
<1>2. IsFiniteSet(DOMAIN graph.edges)
  <2>1. 1 \in Int /\ Len(graph.edges) \in Int
    BY <1>1
  <2> QED
    BY <2>1, <1>1, FS_Interval
<1>3. IsFiniteSet(all)
  <2> HIDE DEF ends
  <2> QED
    BY <1>2, ValuesOf
<1>4. \A pair \in all : IsFiniteSet(pair)
  <2> SUFFICES ASSUME NEW i \in DOMAIN graph.edges PROVE IsFiniteSet(ends[i])
    OBVIOUS
  <2>1. ends[i] = {graph.edges[i].a} \cup {graph.edges[i].b}
    OBVIOUS
  <2> HIDE DEF ends
  <2> QED
    <3>1. IsFiniteSet({graph.edges[i].a}) /\ IsFiniteSet({graph.edges[i].b})
      BY FS_Singleton
    <3>2. IsFiniteSet({graph.edges[i].a} \cup {graph.edges[i].b})
      BY <3>1, FS_Union
    <3> QED
      BY <2>1, <3>2
<1>5. NodesOf(graph) = UNION all
  BY DEF NodesOf
<1>6. NodesOf(graph) \in SUBSET Int
  <2>1. \A i \in DOMAIN graph.edges : graph.edges[i].a \in Int /\ graph.edges[i].b \in Int
    BY EdgesTyped
  <2> QED
    BY <2>1 DEF NodesOf
<1> HIDE DEF all
<1>7. IsFiniteSet(NodesOf(graph))
  BY <1>3, <1>4, <1>5, FS_UNION
<1> QED
  BY <1>6, <1>7, FS_CardinalityType

\* A ride from a code is within the limit and ends at a node of the network, or
\* where it began.
IsRideFrom(graph, origin, r) ==
  /\ r = [end |-> r.end, minutes |-> r.minutes, changes |-> r.changes]
  /\ r.end = origin \/ {origin, r.end} \subseteq NodesOf(graph)
  /\ r.minutes \in 0..Long /\ r.changes \in Nat

\* One more edge makes rides of rides, and loses none.
LEMMA RidesGoOn ==
  ASSUME NEW graph, IsRailNetwork(graph), NEW origin, NEW rides, \A r \in rides : IsRideFrom(graph, origin, r)
  PROVE  /\ rides \subseteq RidesAfter(graph, rides)
         /\ \A r \in RidesAfter(graph, rides) : IsRideFrom(graph, origin, r)
         /\ \A r \in RidesAfter(graph, rides) : r \in rides \/
              \E before \in rides, n \in NodesOf(graph) : \E row \in Between(graph, before.end, n) :
                /\ before.end \in NodesOf(graph)
                /\ r.end = n /\ r.minutes = before.minutes + graph.edges[row].minutes
         /\ \A before \in rides, n \in NodesOf(graph) : \A row \in Between(graph, before.end, n) :
              before.minutes + graph.edges[row].minutes <= Long =>
                [end |-> n, minutes |-> before.minutes + graph.edges[row].minutes,
                 changes |-> before.changes + (IF graph.edges[row].change THEN 1 ELSE 0)]
                   \in RidesAfter(graph, rides)
<1> DEFINE Ride(before, n, row) ==
             [end |-> n, minutes |-> before.minutes + graph.edges[row].minutes,
              changes |-> before.changes + (IF graph.edges[row].change THEN 1 ELSE 0)]
<1>1. \A r \in RidesAfter(graph, rides) : r \in rides \/
        \E before \in rides, n \in NodesOf(graph) : \E row \in Between(graph, before.end, n) :
          before.minutes + graph.edges[row].minutes <= Long /\ r = Ride(before, n, row)
  BY DEF RidesAfter, Between
<1>2. \A before \in rides, n \in NodesOf(graph) : \A row \in Between(graph, before.end, n) :
        before.minutes + graph.edges[row].minutes <= Long => Ride(before, n, row) \in RidesAfter(graph, rides)
  <2> SUFFICES ASSUME NEW before \in rides, NEW n \in NodesOf(graph), NEW row \in Between(graph, before.end, n),
                      before.minutes + graph.edges[row].minutes <= Long
               PROVE  Ride(before, n, row) \in RidesAfter(graph, rides)
    OBVIOUS
  <2> DEFINE x == <<before, n, row>>
  <2>1. /\ x \in rides \X NodesOf(graph) \X DOMAIN graph.edges
        /\ {graph.edges[x[3]].a, graph.edges[x[3]].b} = {x[1].end, x[2]}
        /\ x[1].minutes + graph.edges[x[3]].minutes <= Long
    BY DEF Between
  <2>2. Ride(before, n, row) = Ride(x[1], x[2], x[3])
    OBVIOUS
  <2> HIDE DEF x
  <2> QED
    BY <2>1, <2>2 DEF RidesAfter
<1>3. ASSUME NEW before \in rides, NEW n \in NodesOf(graph), NEW row \in Between(graph, before.end, n),
             before.minutes + graph.edges[row].minutes <= Long
      PROVE  IsRideFrom(graph, origin, Ride(before, n, row)) /\ before.end \in NodesOf(graph)
  <2>1. row \in DOMAIN graph.edges /\ {graph.edges[row].a, graph.edges[row].b} = {before.end, n}
    BY DEF Between
  <2>2. before.end \in NodesOf(graph)
    BY <2>1 DEF NodesOf
  <2>3. graph.edges[row].minutes \in Nat
    BY <2>1, EdgesTyped
  <2>4. origin \in NodesOf(graph) /\ before.minutes \in Nat /\ before.changes \in Nat
    BY <2>2 DEF IsRideFrom, Long
  <2> QED
    BY <1>3, <2>2, <2>3, <2>4 DEF IsRideFrom, Long
<1>4. rides \subseteq RidesAfter(graph, rides)
  BY DEF RidesAfter
<1>5. \A r \in RidesAfter(graph, rides) : IsRideFrom(graph, origin, r)
  BY <1>1, <1>3
<1>6. \A r \in RidesAfter(graph, rides) : r \in rides \/
        \E before \in rides, n \in NodesOf(graph) : \E row \in Between(graph, before.end, n) :
          /\ before.end \in NodesOf(graph)
          /\ r.end = n /\ r.minutes = before.minutes + graph.edges[row].minutes
  BY <1>1, <1>3
<1> QED
  BY <1>2, <1>4, <1>5, <1>6

\* RideTimes is a search for rides that goes on as often as there are nodes.
LEMMA RideTimesAreFound ==
  ASSUME NEW graph, IsRailNetwork(graph), NEW origin
  PROVE  \E rides : /\ AreRides(graph, origin, Cardinality(NodesOf(graph)), rides)
                    /\ RideTimes(graph, origin) = rides[Cardinality(NodesOf(graph))]
<1> DEFINE last == Cardinality(NodesOf(graph))
           found == CHOOSE rides : AreRides(graph, origin, last, rides)
<1>1. last \in Nat
  BY NodesAreFinite
<1>2. AreRides(graph, origin, last, found)
  BY <1>1, RidesExist
<1>3. RideTimes(graph, origin) = found[last]
  BY DEF RideTimes, AreRides, RidesAfter, Standing
<1> QED
  BY <1>2, <1>3

\* However often rides go on, they stay rides and none gets lost.
LEMMA RidesGrow ==
  ASSUME NEW graph, IsRailNetwork(graph), NEW origin, NEW last \in Nat,
         NEW rides, AreRides(graph, origin, last, rides)
  PROVE  /\ \A k \in 0..last : \A r \in rides[k] : IsRideFrom(graph, origin, r)
         /\ \A k \in 0..last : rides[k] \subseteq rides[last]
<1>0. rides[0] = {Standing(origin)} /\ \A k \in 1..last : rides[k] = RidesAfter(graph, rides[k - 1])
  <2>1. \A k \in 0..last : rides[k] = IF k = 0 THEN {Standing(origin)} ELSE RidesAfter(graph, rides[k - 1])
    BY DEF AreRides
  <2>2. 0 \in 0..last /\ \A k \in 1..last : k \in 0..last /\ k # 0
    OBVIOUS
  <2> QED
    BY <2>1, <2>2, Zenon
<1>1. \A k \in 0..last : \A r \in rides[k] : IsRideFrom(graph, origin, r)
  <2> DEFINE Bad == {k \in 0..last : ~\A r \in rides[k] : IsRideFrom(graph, origin, r)}
  <2> SUFFICES ASSUME Bad # {} PROVE FALSE
    OBVIOUS
  <2>1. PICK k \in Bad : \A j \in Bad : k <= j
    <3>1. Bad \in SUBSET Nat
      OBVIOUS
    <3> HIDE DEF Bad
    <3> QED
      BY <3>1, FirstNatural
  <2>2. k # 0
    <3>1. IsRideFrom(graph, origin, Standing(origin))
      BY DEF IsRideFrom, Standing, Long
    <3> QED
      BY <3>1, <2>1, <1>0
  <2>3. k - 1 \in 0..last /\ k \in 1..last
    BY <2>1, <2>2
  <2>4. \A r \in rides[k - 1] : IsRideFrom(graph, origin, r)
    BY <2>1, <2>3
  <2>5. \A r \in rides[k] : IsRideFrom(graph, origin, r)
    <3> DEFINE before == rides[k - 1]
    <3>1. rides[k] = RidesAfter(graph, before) /\ \A r \in before : IsRideFrom(graph, origin, r)
      BY <2>3, <2>4, <1>0
    <3> HIDE DEF before
    <3>2. \A r \in RidesAfter(graph, before) : IsRideFrom(graph, origin, r)
      BY <3>1, RidesGoOn
    <3> QED
      BY <3>1, <3>2
  <2> QED
    BY <2>1, <2>5
<1>2. \A k \in 0..last : rides[k] \subseteq rides[last]
  <2> DEFINE Bad == {j \in Nat : j <= last /\ ~(rides[last - j] \subseteq rides[last])}
  <2> SUFFICES ASSUME NEW k \in 0..last, ~(rides[k] \subseteq rides[last]) PROVE FALSE
    OBVIOUS
  <2>0. last - k \in Bad
    <3>1. last - k \in Nat /\ last - k <= last /\ last - (last - k) = k
      OBVIOUS
    <3> QED
      BY <3>1
  <2>1. PICK j \in Bad : \A i \in Bad : j <= i
    <3>1. Bad \in SUBSET Nat /\ Bad # {}
      BY <2>0
    <3> HIDE DEF Bad
    <3> QED
      BY <3>1, FirstNatural
  <2>2. j # 0
    BY <2>1
  <2>3. j - 1 \in Nat /\ j - 1 <= last /\ j - 1 \notin Bad /\ last - (j - 1) = (last - j) + 1
    BY <2>1, <2>2
  <2>4. rides[(last - j) + 1] \subseteq rides[last]
    BY <2>3
  <2>5. (last - j) + 1 \in 1..last /\ ((last - j) + 1) - 1 = last - j /\ last - j \in 0..last
    BY <2>1, <2>2
  <2>6. rides[(last - j) + 1] = RidesAfter(graph, rides[last - j])
    BY <2>5, <1>0
  <2>7. rides[last - j] \subseteq rides[(last - j) + 1]
    <3> DEFINE before == rides[last - j]
    <3>1. \A r \in before : IsRideFrom(graph, origin, r)
      BY <2>5, <1>1
    <3> HIDE DEF before
    <3>2. before \subseteq RidesAfter(graph, before)
      BY <3>1, RidesGoOn
    <3> QED
      BY <3>2, <2>6 DEF before
  <2> QED
    BY <2>1, <2>4, <2>7
<1> QED
  BY <1>1, <1>2

(***************************************************************************)
(* The search for the quickest way.                                        *)
(***************************************************************************)

\* What shortest_path knows before its first turn.
StartAt(graph, origin) ==
  [visited |-> {}, changes |-> [n \in NodesOf(graph) |-> 0],
   minutes |-> [n \in NodesOf(graph) |-> IF n = origin THEN 0 ELSE Infinite]]

\* What it knows after each turn, up to the last one asked for.
IsWaySearch(graph, origin, target, last, search) ==
  search = [k \in 0..last |->
              IF k = 0 THEN StartAt(graph, origin)
              ELSE IF Settled(search[k - 1], target) THEN search[k - 1] ELSE Visit(graph, search[k - 1])]

\* It can be told for any number of turns.
LEMMA WaySearchExists ==
  ASSUME NEW graph, NEW origin, NEW target, NEW last \in Nat
  PROVE  \E search : IsWaySearch(graph, origin, target, last, search)
<1> DEFINE Turn(before) == IF Settled(before, target) THEN before ELSE Visit(graph, before)
           Bad == {n \in Nat : ~\E search : IsWaySearch(graph, origin, target, n, search)}
<1> SUFFICES ASSUME Bad # {} PROVE FALSE
  OBVIOUS
<1>1. PICK n \in Bad : \A m \in Bad : n <= m
  <2>1. Bad \in SUBSET Nat
    OBVIOUS
  <2> HIDE DEF Bad
  <2> QED
    BY <2>1, FirstNatural
<1>2. n # 0
  <2>1. IsWaySearch(graph, origin, target, 0, [k \in 0..0 |-> StartAt(graph, origin)])
    BY DEF IsWaySearch
  <2> QED
    BY <2>1, <1>1
<1>3. PICK search : IsWaySearch(graph, origin, target, n - 1, search)
  BY <1>1, <1>2
<1> DEFINE longer == [k \in 0..n |-> IF k = n THEN Turn(search[n - 1]) ELSE search[k]]
<1>4. IsWaySearch(graph, origin, target, n, longer)
  <2>1. n \in Nat /\ n - 1 \in Nat
    BY <1>1, <1>2
  <2>2. \A k \in 0..n : longer[k] = IF k = 0 THEN StartAt(graph, origin) ELSE Turn(longer[k - 1])
    <3> SUFFICES ASSUME NEW k \in 0..n
                 PROVE  longer[k] = IF k = 0 THEN StartAt(graph, origin) ELSE Turn(longer[k - 1])
      OBVIOUS
    <3>0. \A j \in 0..(n - 1) : search[j] = IF j = 0 THEN StartAt(graph, origin) ELSE Turn(search[j - 1])
      BY <1>3 DEF IsWaySearch
    <3> HIDE DEF Turn
    <3>1. CASE k = n
      <4>1. longer[n] = Turn(search[n - 1]) /\ longer[n - 1] = search[n - 1]
        BY <2>1, <1>2
      <4> QED
        BY <4>1, <3>1, <1>2
    <3>2. CASE k # n
      <4>1. k \in 0..(n - 1) /\ longer[k] = search[k] /\ (k # 0 => longer[k - 1] = search[k - 1])
        BY <3>2, <2>1
      <4> QED
        BY <4>1, <3>0
    <3> QED
      BY <3>1, <3>2
  <2> HIDE DEF longer
  <2>3. longer = [k \in 0..n |-> longer[k]]
    BY DEF longer
  <2> QED
    BY <2>2, <2>3 DEF IsWaySearch
<1> QED
  BY <1>1, <1>4

\* shortest_path reads its answer from the last turn of the search.
LEMMA ShortestPathIsSearched ==
  ASSUME NEW graph, IsRailNetwork(graph), NEW origin, NEW target
  PROVE  \E search :
           LET nodes == NodesOf(graph)
               last == search[Cardinality(nodes)]
           IN  /\ IsWaySearch(graph, origin, target, Cardinality(nodes), search)
               /\ ShortestPath(graph, origin, target) =
                    IF origin = target THEN [minutes |-> 0, changes |-> 0]
                    ELSE IF {origin, target} \subseteq nodes /\ last.minutes[target] < Infinite
                    THEN [minutes |-> last.minutes[target], changes |-> last.changes[target]]
                    ELSE NoRoute
<1> DEFINE n == Cardinality(NodesOf(graph))
           found == CHOOSE search : IsWaySearch(graph, origin, target, n, search)
<1>1. n \in Nat
  BY NodesAreFinite
<1>2. IsWaySearch(graph, origin, target, n, found)
  BY <1>1, WaySearchExists
<1>3. ShortestPath(graph, origin, target) =
        IF origin = target THEN [minutes |-> 0, changes |-> 0]
        ELSE IF {origin, target} \subseteq NodesOf(graph) /\ found[n].minutes[target] < Infinite
        THEN [minutes |-> found[n].minutes[target], changes |-> found[n].changes[target]]
        ELSE NoRoute
  BY DEF ShortestPath, IsWaySearch, StartAt
<1> HIDE DEF found
<1> QED
  BY <1>2, <1>3

\* Of the rows between two nodes the search takes a cheapest one.
LEMMA CheapestRow ==
  ASSUME NEW graph, IsRailNetwork(graph), NEW x, NEW y, Between(graph, x, y) # {}
  PROVE  /\ Cheapest(graph, Between(graph, x, y)) \in Between(graph, x, y)
         /\ \A row \in Between(graph, x, y) :
              graph.edges[Cheapest(graph, Between(graph, x, y))].minutes <= graph.edges[row].minutes
<1> DEFINE rows == Between(graph, x, y)
           times == {graph.edges[i].minutes : i \in rows}
           best == {i \in rows : graph.edges[i].minutes = Min(times)}
<1>1. Len(graph.edges) \in Nat /\ DOMAIN graph.edges = 1..Len(graph.edges) /\ rows \subseteq DOMAIN graph.edges
  BY DEF IsRailNetwork, Between
<1>2. \A i \in rows : i \in Int /\ graph.edges[i].minutes \in Nat
  BY <1>1, EdgesTyped
<1>3. IsFiniteSet(rows)
  <2>1. 1 \in Int /\ Len(graph.edges) \in Int
    BY <1>1
  <2>2. IsFiniteSet(1..Len(graph.edges))
    BY <2>1, FS_Interval
  <2> HIDE DEF rows
  <2> QED
    BY <2>2, <1>1, FS_Subset
<1>4. IsFiniteSet(times) /\ times \in SUBSET Int /\ times # {}
  <2> DEFINE time == [i \in rows |-> graph.edges[i].minutes]
  <2>1. times = {time[i] : i \in rows}
    OBVIOUS
  <2> HIDE DEF time, rows
  <2>2. IsFiniteSet({time[i] : i \in rows})
    BY <1>3, ValuesOf
  <2>3. times \in SUBSET Int /\ times # {}
    BY <1>2 DEF rows
  <2> QED
    BY <2>1, <2>2, <2>3
<1> HIDE DEF rows
<1>5. Min(times) \in times /\ \A t \in times : Min(times) <= t
  <2> HIDE DEF times
  <2> QED
    BY <1>4, LeastOf
<1>6. IsFiniteSet(best) /\ best \in SUBSET Int /\ best # {}
  <2>1. best \subseteq rows /\ best # {}
    BY <1>5
  <2>2. best \in SUBSET Int
    BY <1>2
  <2> HIDE DEF best
  <2> QED
    BY <2>1, <2>2, <1>3, FS_Subset
<1>7. Min(best) \in best
  <2> HIDE DEF best
  <2> QED
    BY <1>6, LeastOf
<1>8. Cheapest(graph, rows) = Min(best)
  BY DEF Cheapest
<1>9. \A row \in rows : graph.edges[row].minutes \in times
  OBVIOUS
<1> HIDE DEF times
<1> QED
  BY <1>5, <1>7, <1>8, <1>9 DEF rows

\* What the search knows after k turns: the way to a node within reach is a
\* ride of at most k edges, no visited node is farther than one that is not,
\* and the ways on from a visited node were tried.
WayFits(graph, origin, rides, k, s) ==
  /\ s.visited \subseteq NodesOf(graph)
  /\ s.minutes \in [NodesOf(graph) -> 0..Infinite] /\ s.changes \in [NodesOf(graph) -> Nat]
  /\ s.minutes[origin] = 0
  /\ \A v \in s.visited, u \in NodesOf(graph) \ s.visited : s.minutes[v] <= s.minutes[u]
  /\ \A v \in s.visited, n \in NodesOf(graph) : \A row \in Between(graph, v, n) :
       s.minutes[n] <= s.minutes[v] + graph.edges[row].minutes
  /\ \A n \in NodesOf(graph) : s.minutes[n] <= Long =>
       [end |-> n, minutes |-> s.minutes[n], changes |-> s.changes[n]] \in rides[k]

\* Minutes are numbers, and fewer than infinitely many once a way is known.
LEMMA MinutesAreNumbers ==
  ASSUME NEW m \in 0..Infinite
  PROVE  /\ m \in Int /\ m <= Infinite /\ (m # Infinite => m < Infinite)
         /\ \A least \in Int : least <= m => least <= Infinite
BY DEF Infinite

\* The node a turn visits is reached, was not visited, and none such is nearer.
LEMMA NextIsNearest ==
  ASSUME NEW graph, IsRailNetwork(graph), NEW s, s.visited \subseteq NodesOf(graph),
         s.minutes \in [NodesOf(graph) -> 0..Infinite],
         NEW u \in NodesOf(graph) \ s.visited, s.minutes[u] # Infinite
  PROVE  /\ NextNode(s) \in NodesOf(graph) \ s.visited /\ s.minutes[NextNode(s)] < Infinite
         /\ \A n \in NodesOf(graph) \ s.visited : s.minutes[NextNode(s)] <= s.minutes[n]
<1> DEFINE nodes == NodesOf(graph)
           open == {n \in nodes : s.minutes[n] < Infinite} \ s.visited
           times == {s.minutes[n] : n \in open}
           nearest == {n \in open : s.minutes[n] = Min(times)}
<1>1. IsFiniteSet(nodes) /\ nodes \in SUBSET Int
  BY NodesAreFinite
<1> HIDE DEF nodes
<1>2. \A n \in nodes : /\ s.minutes[n] \in Int /\ s.minutes[n] <= Infinite
                       /\ s.minutes[n] # Infinite => s.minutes[n] < Infinite
  <2>1. \A n \in nodes : s.minutes[n] \in 0..Infinite
    BY DEF nodes
  <2> QED
    BY <2>1, MinutesAreNumbers, Zenon
<1>3. u \in open
  <2>1. u \in nodes /\ u \notin s.visited
    BY DEF nodes
  <2>2. s.minutes[u] < Infinite
    BY <2>1, <1>2, Zenon
  <2> QED
    BY <2>1, <2>2
<1>4. IsFiniteSet(open) /\ open \subseteq nodes
  BY <1>1, FS_Subset
<1>5. IsFiniteSet(times) /\ times \in SUBSET Int /\ times # {}
  <2> DEFINE time == [n \in open |-> s.minutes[n]]
  <2>1. times = {time[n] : n \in open}
    OBVIOUS
  <2>2. times \in SUBSET Int /\ times # {}
    BY <1>2, <1>3
  <2> HIDE DEF time, open
  <2>3. IsFiniteSet({time[n] : n \in open})
    BY <1>4, ValuesOf
  <2> QED
    BY <2>1, <2>2, <2>3
<1>6. Min(times) \in times /\ \A t \in times : Min(times) <= t
  <2> HIDE DEF times
  <2> QED
    BY <1>5, LeastOf
<1>7. IsFiniteSet(nearest) /\ nearest \in SUBSET Int /\ nearest # {}
  <2>1. nearest \subseteq open /\ nearest # {}
    BY <1>6
  <2>2. nearest \in SUBSET Int
    BY <1>1
  <2> HIDE DEF nearest
  <2> QED
    BY <2>1, <2>2, <1>4, FS_Subset
<1>8. Min(nearest) \in nearest
  <2> HIDE DEF nearest
  <2> QED
    BY <1>7, LeastOf
<1>9. NextNode(s) = Min(nearest)
  <2>1. DOMAIN s.minutes = nodes
    BY DEF nodes
  <2> QED
    BY <2>1 DEF NextNode
<1>10. \A n \in nodes \ s.visited : Min(times) <= s.minutes[n]
  <2> SUFFICES ASSUME NEW n \in nodes \ s.visited PROVE Min(times) <= s.minutes[n]
    OBVIOUS
  <2>1. CASE n \in open
    <3>1. s.minutes[n] \in times
      BY <2>1
    <3> HIDE DEF times
    <3> QED
      BY <3>1, <1>6
  <2>2. CASE n \notin open
    <3>1. s.minutes[n] = Infinite
      <4>1. ~(s.minutes[n] < Infinite)
        BY <2>2
      <4> HIDE DEF open
      <4> QED
        BY <4>1, <1>2, Zenon
    <3>2. Min(times) \in Int /\ Min(times) <= s.minutes[u]
      <4>1. s.minutes[u] \in times
        BY <1>3
      <4> HIDE DEF times
      <4> QED
        BY <4>1, <1>5, <1>6
    <3>3. s.minutes[u] \in 0..Infinite
      OBVIOUS
    <3> HIDE DEF times, open
    <3>4. Min(times) <= Infinite
      BY <3>2, <3>3, MinutesAreNumbers, Zenon
    <3> QED
      BY <3>1, <3>4, Zenon
  <2> QED
    BY <2>1, <2>2
<1> QED
  BY <1>8, <1>9, <1>10 DEF nodes

\* Visiting the nearest node keeps what is known, with rides of one edge more.
LEMMA VisitKeepsFit ==
  ASSUME NEW graph, IsRailNetwork(graph), NEW origin \in NodesOf(graph), NEW rides, NEW k \in Nat,
         \A r \in rides[k] : IsRideFrom(graph, origin, r), rides[k + 1] = RidesAfter(graph, rides[k]),
         NEW s, WayFits(graph, origin, rides, k, s),
         NEW u \in NodesOf(graph) \ s.visited, s.minutes[u] # Infinite
  PROVE  /\ WayFits(graph, origin, rides, k + 1, Visit(graph, s))
         /\ \E node \in NodesOf(graph) \ s.visited : Visit(graph, s).visited = s.visited \cup {node}
<1> DEFINE nodes == NodesOf(graph)
           node == NextNode(s)
           better == {n \in nodes : Between(graph, node, n) # {} /\ Relax(graph, s, node, n)}
           Row(n) == Cheapest(graph, Between(graph, node, n))
           minutes == [n \in nodes |-> IF n \in better THEN s.minutes[node] + graph.edges[Row(n)].minutes
                                       ELSE s.minutes[n]]
           changes == [n \in nodes |-> IF n \in better
                                       THEN s.changes[node] + (IF graph.edges[Row(n)].change THEN 1 ELSE 0)
                                       ELSE s.changes[n]]
<1>1. /\ s.visited \subseteq nodes
      /\ s.minutes \in [nodes -> 0..Infinite] /\ s.changes \in [nodes -> Nat] /\ s.minutes[origin] = 0
      /\ \A v \in s.visited, n \in nodes \ s.visited : s.minutes[v] <= s.minutes[n]
      /\ \A v \in s.visited, n \in nodes : \A row \in Between(graph, v, n) :
           s.minutes[n] <= s.minutes[v] + graph.edges[row].minutes
      /\ \A n \in nodes : s.minutes[n] <= Long =>
           [end |-> n, minutes |-> s.minutes[n], changes |-> s.changes[n]] \in rides[k]
  BY DEF WayFits
<1>2. /\ node \in nodes \ s.visited /\ s.minutes[node] < Infinite
      /\ \A n \in nodes \ s.visited : s.minutes[node] <= s.minutes[n]
  BY <1>1, NextIsNearest
<1>3. Visit(graph, s) = [visited |-> s.visited \cup {node}, minutes |-> minutes, changes |-> changes]
  <2>1. DOMAIN s.minutes = nodes
    BY <1>1
  <2> QED
    BY <2>1 DEF Visit
<1> HIDE DEF nodes, node
<1>4. \A n \in nodes : s.minutes[n] \in Nat /\ s.minutes[n] <= Infinite /\ s.changes[n] \in Nat
  <2>1. \A n \in nodes : s.minutes[n] \in 0..Infinite /\ s.changes[n] \in Nat
    BY <1>1
  <2>2. Infinite \in Nat
    BY DEF Infinite
  <2> QED
    BY <2>1, <2>2
<1>5. \A x, n \in nodes : \A row \in Between(graph, x, n) : graph.edges[row].minutes \in Nat
  BY EdgesTyped DEF Between
<1>6. \A n \in better : /\ Row(n) \in Between(graph, node, n) /\ n \in nodes
                        /\ \A row \in Between(graph, node, n) :
                             graph.edges[Row(n)].minutes <= graph.edges[row].minutes
                        /\ s.minutes[node] + graph.edges[Row(n)].minutes < s.minutes[n]
  BY CheapestRow DEF Relax
<1>7. \A n \in nodes \ better : \A row \in Between(graph, node, n) :
        s.minutes[n] <= s.minutes[node] + graph.edges[row].minutes
  <2> SUFFICES ASSUME NEW n \in nodes \ better, NEW row \in Between(graph, node, n)
               PROVE  s.minutes[n] <= s.minutes[node] + graph.edges[row].minutes
    OBVIOUS
  <2>1. ~(s.minutes[node] + graph.edges[Row(n)].minutes < s.minutes[n])
    BY DEF Relax
  <2>2. /\ Row(n) \in Between(graph, node, n)
        /\ graph.edges[Row(n)].minutes <= graph.edges[row].minutes
    BY CheapestRow
  <2>3. graph.edges[Row(n)].minutes \in Nat /\ graph.edges[row].minutes \in Nat
    BY <2>2, <1>2, <1>5
  <2> HIDE DEF Row
  <2> QED
    BY <2>1, <2>2, <2>3, <1>2, <1>4
<1>8. better \cap (s.visited \cup {node}) = {}
  <2> SUFFICES ASSUME NEW n \in better, n \in s.visited \cup {node} PROVE FALSE
    OBVIOUS
  <2>1. graph.edges[Row(n)].minutes \in Nat /\ s.minutes[node] + graph.edges[Row(n)].minutes < s.minutes[n]
    BY <1>2, <1>5, <1>6
  <2>2. s.minutes[n] <= s.minutes[node]
    BY <1>1, <1>2, <1>4
  <2>3. s.minutes[n] \in Nat /\ s.minutes[node] \in Nat
    BY <1>2, <1>4
  <2> HIDE DEF Row, better
  <2> QED
    BY <2>1, <2>2, <2>3
<1>9. \A n \in nodes : /\ minutes[n] \in Nat /\ minutes[n] <= s.minutes[n]
                       /\ minutes[n] <= Infinite /\ changes[n] \in Nat
                       /\ n \notin better => minutes[n] = s.minutes[n] /\ changes[n] = s.changes[n]
                       /\ n \in better => /\ minutes[n] = s.minutes[node] + graph.edges[Row(n)].minutes
                                          /\ changes[n] = s.changes[node] + (IF graph.edges[Row(n)].change THEN 1 ELSE 0)
  <2> SUFFICES ASSUME NEW n \in nodes
               PROVE /\ minutes[n] \in Nat /\ minutes[n] <= s.minutes[n]
                     /\ minutes[n] <= Infinite /\ changes[n] \in Nat
                     /\ n \notin better => minutes[n] = s.minutes[n] /\ changes[n] = s.changes[n]
                     /\ n \in better => /\ minutes[n] = s.minutes[node] + graph.edges[Row(n)].minutes
                                        /\ changes[n] = s.changes[node] + (IF graph.edges[Row(n)].change THEN 1 ELSE 0)
    OBVIOUS
  <2>1. s.minutes[n] \in Nat /\ s.minutes[n] <= Infinite /\ s.changes[n] \in Nat
        /\ s.minutes[node] \in Nat /\ s.changes[node] \in Nat
    BY <1>2, <1>4
  <2>2. CASE n \in better
    <3>1. graph.edges[Row(n)].minutes \in Nat /\ s.minutes[node] + graph.edges[Row(n)].minutes < s.minutes[n]
      BY <2>2, <1>2, <1>5, <1>6
    <3>2. /\ minutes[n] = s.minutes[node] + graph.edges[Row(n)].minutes
          /\ changes[n] = s.changes[node] + (IF graph.edges[Row(n)].change THEN 1 ELSE 0)
      BY <2>2
    <3> HIDE DEF minutes, changes, Row, better
    <3> QED
      BY <3>1, <3>2, <2>1, <2>2 DEF Infinite
  <2>3. CASE n \notin better
    <3>1. minutes[n] = s.minutes[n] /\ changes[n] = s.changes[n]
      BY <2>3
    <3> HIDE DEF minutes, changes, Row, better
    <3> QED
      BY <3>1, <2>1, <2>3
  <2> QED
    BY <2>2, <2>3
<1>10. minutes \in [nodes -> 0..Infinite] /\ changes \in [nodes -> Nat]
  <2>1. minutes = [n \in nodes |-> minutes[n]] /\ changes = [n \in nodes |-> changes[n]]
    OBVIOUS
  <2> HIDE DEF minutes, changes, better
  <2>2. \A n \in nodes : minutes[n] \in 0..Infinite /\ changes[n] \in Nat
    <3>1. Infinite \in Nat
      BY DEF Infinite
    <3>2. \A n \in nodes : minutes[n] \in Nat /\ minutes[n] <= Infinite /\ changes[n] \in Nat
      BY <1>9
    <3> QED
      BY <3>1, <3>2
  <2> QED
    BY <2>1, <2>2
<1> HIDE DEF minutes, changes
<1>11. minutes[origin] = 0
  <2>1. minutes[origin] \in Nat /\ minutes[origin] <= s.minutes[origin] /\ s.minutes[origin] = 0
    BY <1>1, <1>9 DEF nodes
  <2> QED
    BY <2>1
<1>12. \A v \in s.visited \cup {node}, n \in nodes \ (s.visited \cup {node}) : minutes[v] <= minutes[n]
  <2> SUFFICES ASSUME NEW v \in s.visited \cup {node}, NEW n \in nodes \ (s.visited \cup {node})
               PROVE  minutes[v] <= minutes[n]
    OBVIOUS
  <2>1. minutes[v] = s.minutes[v] /\ v \in nodes
    BY <1>1, <1>2, <1>8, <1>9
  <2>2. s.minutes[v] <= s.minutes[node] /\ s.minutes[node] <= s.minutes[n]
    BY <1>1, <1>2, <1>4
  <2>3. s.minutes[v] \in Nat /\ s.minutes[node] \in Nat /\ s.minutes[n] \in Nat
    BY <2>1, <1>2, <1>4
  <2>4. CASE n \in better
    <3>1. minutes[n] = s.minutes[node] + graph.edges[Row(n)].minutes /\ graph.edges[Row(n)].minutes \in Nat
      BY <2>4, <1>2, <1>5, <1>6, <1>9
    <3> HIDE DEF better, Row
    <3> QED
      BY <3>1, <2>1, <2>2, <2>3
  <2>5. CASE n \notin better
    <3>1. minutes[n] = s.minutes[n]
      BY <2>5, <1>9
    <3> HIDE DEF better, Row
    <3> QED
      BY <3>1, <2>1, <2>2, <2>3
  <2> QED
    BY <2>4, <2>5
<1>13. \A v \in s.visited \cup {node}, n \in nodes : \A row \in Between(graph, v, n) :
         minutes[n] <= minutes[v] + graph.edges[row].minutes
  <2> SUFFICES ASSUME NEW v \in s.visited \cup {node}, NEW n \in nodes, NEW row \in Between(graph, v, n)
               PROVE  minutes[n] <= minutes[v] + graph.edges[row].minutes
    OBVIOUS
  <2>1. minutes[v] = s.minutes[v] /\ v \in nodes
    BY <1>1, <1>2, <1>8, <1>9
  <2>2. graph.edges[row].minutes \in Nat /\ s.minutes[v] \in Nat /\ minutes[n] \in Nat /\ s.minutes[n] \in Nat
        /\ minutes[n] <= s.minutes[n]
    BY <2>1, <1>4, <1>5, <1>9
  <2>3. CASE v \in s.visited
    <3>1. s.minutes[n] <= s.minutes[v] + graph.edges[row].minutes
      BY <2>3, <1>1
    <3> HIDE DEF better, Row
    <3> QED
      BY <3>1, <2>1, <2>2
  <2>4. CASE v = node /\ n \in better
    <3>1. /\ minutes[n] = s.minutes[node] + graph.edges[Row(n)].minutes
          /\ graph.edges[Row(n)].minutes <= graph.edges[row].minutes
          /\ graph.edges[Row(n)].minutes \in Nat
      BY <2>4, <1>2, <1>5, <1>6, <1>9
    <3> HIDE DEF better, Row
    <3> QED
      BY <3>1, <2>1, <2>2, <2>4
  <2>5. CASE v = node /\ n \notin better
    <3>1. s.minutes[n] <= s.minutes[node] + graph.edges[row].minutes
      BY <2>5, <1>7
    <3> HIDE DEF better, Row
    <3> QED
      BY <3>1, <2>1, <2>2, <2>5
  <2> QED
    BY <2>3, <2>4, <2>5
<1>14. \A n \in nodes : minutes[n] <= Long =>
         [end |-> n, minutes |-> minutes[n], changes |-> changes[n]] \in rides[k + 1]
  <2> SUFFICES ASSUME NEW n \in nodes, minutes[n] <= Long
               PROVE  [end |-> n, minutes |-> minutes[n], changes |-> changes[n]] \in rides[k + 1]
    OBVIOUS
  <2>0. rides[k] \subseteq rides[k + 1]
    <3> DEFINE before == rides[k]
    <3>1. (\A r \in before : IsRideFrom(graph, origin, r)) /\ rides[k + 1] = RidesAfter(graph, before)
      OBVIOUS
    <3> HIDE DEF before
    <3>2. before \subseteq RidesAfter(graph, before)
      BY <3>1, RidesGoOn
    <3> QED
      BY <3>1, <3>2 DEF before
  <2>1. CASE n \notin better
    <3>1. minutes[n] = s.minutes[n] /\ changes[n] = s.changes[n]
      BY <2>1, <1>9
    <3>2. [end |-> n, minutes |-> s.minutes[n], changes |-> s.changes[n]] \in rides[k]
      BY <3>1, <1>1
    <3> QED
      BY <3>1, <3>2, <2>0
  <2>2. CASE n \in better
    <3> DEFINE before == [end |-> node, minutes |-> s.minutes[node], changes |-> s.changes[node]]
               row == Row(n)
    <3>1. /\ minutes[n] = s.minutes[node] + graph.edges[row].minutes
          /\ changes[n] = s.changes[node] + (IF graph.edges[row].change THEN 1 ELSE 0)
          /\ row \in Between(graph, node, n) /\ graph.edges[row].minutes \in Nat
      BY <2>2, <1>2, <1>5, <1>6, <1>9
    <3> HIDE DEF row
    <3>2. s.minutes[node] <= Long
      BY <3>1, <1>2, <1>4 DEF Long
    <3>3. before \in rides[k]
      BY <3>2, <1>1, <1>2
    <3>4. before.end = node /\ before.minutes = s.minutes[node] /\ before.changes = s.changes[node]
      OBVIOUS
    <3> HIDE DEF before
    <3>5. row \in Between(graph, before.end, n) /\ before.minutes + graph.edges[row].minutes <= Long
      BY <3>1, <3>4
    <3>6. [end |-> n, minutes |-> before.minutes + graph.edges[row].minutes,
           changes |-> before.changes + (IF graph.edges[row].change THEN 1 ELSE 0)]
             \in RidesAfter(graph, rides[k])
      BY <3>3, <3>5, RidesGoOn DEF nodes
    <3> QED
      BY <3>1, <3>4, <3>6
  <2> QED
    BY <2>1, <2>2
<1> DEFINE t == Visit(graph, s)
<1>15. t.visited = s.visited \cup {node} /\ t.minutes = minutes /\ t.changes = changes
  BY <1>3
<1> HIDE DEF t
<1>16. WayFits(graph, origin, rides, k + 1, t)
  BY <1>1, <1>2, <1>10, <1>11, <1>12, <1>13, <1>14, <1>15 DEF WayFits, nodes
<1> QED
  BY <1>2, <1>15, <1>16 DEF t, nodes

\* Every turn keeps what is known, and visits a node unless the search ended.
LEMMA TurnsFit ==
  ASSUME NEW graph, IsRailNetwork(graph), NEW origin \in NodesOf(graph), NEW target,
         NEW last \in Nat, NEW rides, AreRides(graph, origin, last, rides),
         NEW search, IsWaySearch(graph, origin, target, last, search)
  PROVE  \A k \in 0..last :
           /\ WayFits(graph, origin, rides, k, search[k])
           /\ Settled(search[k], target) \/ Cardinality(search[k].visited) = k
<1> DEFINE Fits(k) == /\ WayFits(graph, origin, rides, k, search[k])
                      /\ Settled(search[k], target) \/ Cardinality(search[k].visited) = k
           Bad == {k \in 0..last : ~Fits(k)}
<1>1. /\ \A k \in 0..last : \A r \in rides[k] : IsRideFrom(graph, origin, r)
      /\ rides[0] = {Standing(origin)}
      /\ \A k \in 1..last : rides[k] = RidesAfter(graph, rides[k - 1])
  <2>1. \A k \in 0..last : \A r \in rides[k] : IsRideFrom(graph, origin, r)
    BY RidesGrow
  <2>2. \A k \in 0..last : rides[k] = IF k = 0 THEN {Standing(origin)} ELSE RidesAfter(graph, rides[k - 1])
    BY DEF AreRides
  <2>3. 0 \in 0..last /\ \A k \in 1..last : k \in 0..last /\ k # 0
    OBVIOUS
  <2> QED
    BY <2>1, <2>2, <2>3, Zenon
<1>2. Fits(0)
  <2>1. search[0] = StartAt(graph, origin)
    BY DEF IsWaySearch
  <2> DEFINE s == StartAt(graph, origin)
  <2>2. /\ s.visited = {}
        /\ s.minutes = [n \in NodesOf(graph) |-> IF n = origin THEN 0 ELSE Infinite]
        /\ s.changes = [n \in NodesOf(graph) |-> 0]
    BY DEF StartAt
  <2> HIDE DEF s
  <2>3. Infinite \in Nat /\ ~(Infinite <= Long)
    BY DEF Infinite, Long
  <2>4. s.minutes \in [NodesOf(graph) -> 0..Infinite] /\ s.changes \in [NodesOf(graph) -> Nat]
        /\ s.minutes[origin] = 0
    BY <2>2, <2>3
  <2>5. \A n \in NodesOf(graph) : s.minutes[n] <= Long =>
          [end |-> n, minutes |-> s.minutes[n], changes |-> s.changes[n]] \in rides[0]
    <3> SUFFICES ASSUME NEW n \in NodesOf(graph), s.minutes[n] <= Long
                 PROVE  [end |-> n, minutes |-> s.minutes[n], changes |-> s.changes[n]] \in rides[0]
      OBVIOUS
    <3>1. n = origin /\ s.minutes[n] = 0 /\ s.changes[n] = 0
      BY <2>2, <2>3
    <3> QED
      BY <3>1, <1>1 DEF Standing
  <2>6. WayFits(graph, origin, rides, 0, s)
    BY <2>2, <2>4, <2>5 DEF WayFits
  <2>7. Cardinality(s.visited) = 0
    BY <2>2, FS_EmptySet
  <2> QED
    BY <2>1, <2>6, <2>7 DEF s
<1>3. ASSUME NEW k \in 1..last, Fits(k - 1) PROVE Fits(k)
  <2> DEFINE s == search[k - 1]
             j == k - 1
  <2>0. j \in Nat /\ j \in 0..last /\ j + 1 = k /\ k \in 0..last /\ k # 0
    OBVIOUS
  <2>1. search[k] = IF Settled(s, target) THEN s ELSE Visit(graph, s)
    BY <2>0 DEF IsWaySearch
  <2>2. WayFits(graph, origin, rides, j, s) /\ (Settled(s, target) \/ Cardinality(s.visited) = j)
    BY <1>3
  <2>3. rides[j + 1] = RidesAfter(graph, rides[j]) /\ \A r \in rides[j] : IsRideFrom(graph, origin, r)
    BY <2>0, <1>1
  <2> HIDE DEF s, j
  <2>4. CASE Settled(s, target)
    <3>1. rides[j] \subseteq rides[k]
      <4> DEFINE before == rides[j]
      <4>1. /\ \A q \in before : IsRideFrom(graph, origin, q)
            /\ rides[k] = RidesAfter(graph, before)
        BY <2>0, <2>3
      <4> HIDE DEF before
      <4>2. before \subseteq rides[k]
        BY <4>1, RidesGoOn
      <4> QED
        BY <4>2 DEF before
    <3>2. WayFits(graph, origin, rides, k, s)
      BY <3>1, <2>2 DEF WayFits
    <3> QED
      BY <3>2, <2>1, <2>4
  <2>5. CASE ~Settled(s, target)
    <3>1. DOMAIN s.minutes = NodesOf(graph)
      BY <2>2 DEF WayFits
    <3>2. PICK u \in NodesOf(graph) \ s.visited : s.minutes[u] # Infinite
      BY <3>1, <2>5 DEF Settled
    <3>3. /\ WayFits(graph, origin, rides, j + 1, Visit(graph, s))
          /\ \E node \in NodesOf(graph) \ s.visited : Visit(graph, s).visited = s.visited \cup {node}
      BY <3>2, <2>0, <2>2, <2>3, VisitKeepsFit
    <3>4. s.visited \subseteq NodesOf(graph) /\ IsFiniteSet(NodesOf(graph))
      BY <2>2, NodesAreFinite DEF WayFits
    <3>5. IsFiniteSet(s.visited)
      BY <3>4, FS_Subset
    <3>6. Cardinality(Visit(graph, s).visited) = j + 1
      <4>1. PICK node \in NodesOf(graph) \ s.visited : Visit(graph, s).visited = s.visited \cup {node}
        BY <3>3
      <4>2. Cardinality(s.visited \cup {node}) = Cardinality(s.visited) + 1
        BY <3>5, <4>1, FS_AddElement
      <4> QED
        BY <4>1, <4>2, <2>2, <2>5
    <3> QED
      BY <3>3, <3>6, <2>0, <2>1, <2>5
  <2> QED
    BY <2>4, <2>5
<1> SUFFICES ASSUME Bad # {} PROVE FALSE
  OBVIOUS
<1>4. PICK k \in Bad : \A j \in Bad : k <= j
  <2>1. Bad \in SUBSET Nat
    OBVIOUS
  <2> HIDE DEF Bad
  <2> QED
    BY <2>1, FirstNatural
<1>5. k # 0
  BY <1>2, <1>4
<1>6. k - 1 \in 0..last /\ k \in 1..last /\ k - 1 \notin Bad
  BY <1>4, <1>5
<1> HIDE DEF Fits
<1> QED
  BY <1>3, <1>4, <1>6

\* A ride ends at a node that the search has reached as quickly, or a node on
\* its way is still to be visited.
LEMMA RidesAreOvertaken ==
  ASSUME NEW graph, IsRailNetwork(graph), NEW origin \in NodesOf(graph),
         NEW last \in Nat, NEW rides, AreRides(graph, origin, last, rides),
         NEW s, WayFits(graph, origin, rides, last, s)
  PROVE  \A k \in 0..last : \A r \in rides[k] :
           /\ r.end \in NodesOf(graph)
           /\ \/ s.minutes[r.end] <= r.minutes
              \/ \E u \in NodesOf(graph) \ s.visited : s.minutes[u] <= r.minutes
<1> DEFINE nodes == NodesOf(graph)
           Behind(r) == /\ r.end \in nodes
                        /\ \/ s.minutes[r.end] <= r.minutes
                           \/ \E u \in nodes \ s.visited : s.minutes[u] <= r.minutes
           Bad == {k \in 0..last : ~\A r \in rides[k] : Behind(r)}
<1>1. /\ \A k \in 0..last : \A r \in rides[k] : IsRideFrom(graph, origin, r)
      /\ rides[0] = {Standing(origin)}
      /\ \A k \in 1..last : rides[k] = RidesAfter(graph, rides[k - 1])
  <2>1. \A k \in 0..last : \A r \in rides[k] : IsRideFrom(graph, origin, r)
    BY RidesGrow
  <2>2. \A k \in 0..last : rides[k] = IF k = 0 THEN {Standing(origin)} ELSE RidesAfter(graph, rides[k - 1])
    BY DEF AreRides
  <2>3. 0 \in 0..last /\ \A k \in 1..last : k \in 0..last /\ k # 0
    OBVIOUS
  <2> QED
    BY <2>1, <2>2, <2>3, Zenon
<1>2. /\ \A n \in nodes : s.minutes[n] \in Nat
      /\ s.minutes[origin] = 0
      /\ \A v \in s.visited, n \in nodes : \A row \in Between(graph, v, n) :
           s.minutes[n] <= s.minutes[v] + graph.edges[row].minutes
  <2>1. \A n \in nodes : s.minutes[n] \in 0..Infinite
    BY DEF WayFits
  <2>2. Infinite \in Nat
    BY DEF Infinite
  <2>3. \A n \in nodes : s.minutes[n] \in Nat
    BY <2>1, <2>2
  <2> QED
    BY <2>3 DEF WayFits
<1>3. ASSUME NEW k \in 1..last, \A r \in rides[k - 1] : Behind(r), NEW r \in rides[k] PROVE Behind(r)
  <2> DEFINE earlier == rides[k - 1]
  <2>1. /\ \A q \in earlier : IsRideFrom(graph, origin, q)
        /\ rides[k] = RidesAfter(graph, earlier)
    <3>1. k - 1 \in 0..last
      OBVIOUS
    <3> QED
      BY <3>1, <1>1
  <2> HIDE DEF earlier
  <2>2. r \in earlier \/
          \E before \in earlier, n \in NodesOf(graph) : \E row \in Between(graph, before.end, n) :
            /\ before.end \in NodesOf(graph)
            /\ r.end = n /\ r.minutes = before.minutes + graph.edges[row].minutes
    <3>1. \A q \in RidesAfter(graph, earlier) :
            \/ q \in earlier
            \/ \E before \in earlier, n \in NodesOf(graph) : \E row \in Between(graph, before.end, n) :
                 /\ before.end \in NodesOf(graph)
                 /\ q.end = n /\ q.minutes = before.minutes + graph.edges[row].minutes
      BY <2>1, RidesGoOn
    <3> QED
      BY <3>1, <2>1, <1>3
  <2>3. CASE r \in earlier
    BY <2>3, <1>3 DEF earlier
  <2>4. ASSUME NEW before \in earlier, NEW n \in nodes, NEW row \in Between(graph, before.end, n),
               before.end \in nodes, r.end = n, r.minutes = before.minutes + graph.edges[row].minutes
        PROVE  Behind(r)
    <3>1. Behind(before)
      BY <1>3 DEF earlier
    <3>2. graph.edges[row].minutes \in Nat
      BY EdgesTyped DEF Between
    <3>3. before.minutes \in Nat
      BY <2>1 DEF IsRideFrom, Long
    <3>4. r.end \in nodes
      BY <2>4
    <3>5. CASE \E u \in nodes \ s.visited : s.minutes[u] <= before.minutes
      <4>1. PICK u \in nodes \ s.visited : s.minutes[u] <= before.minutes
        BY <3>5
      <4>2. s.minutes[u] \in Nat
        BY <1>2
      <4>3. s.minutes[u] <= r.minutes
        BY <4>1, <4>2, <3>2, <3>3, <2>4
      <4> QED
        BY <4>1, <4>3, <3>4
    <3>6. CASE s.minutes[before.end] <= before.minutes /\ before.end \notin s.visited
      <4>1. s.minutes[before.end] \in Nat
        BY <1>2, <2>4
      <4>2. s.minutes[before.end] <= r.minutes
        BY <4>1, <3>2, <3>3, <3>6, <2>4
      <4> QED
        BY <4>2, <3>4, <3>6, <2>4
    <3>7. CASE s.minutes[before.end] <= before.minutes /\ before.end \in s.visited
      <4>1. s.minutes[n] <= s.minutes[before.end] + graph.edges[row].minutes
        BY <3>7, <1>2
      <4>2. s.minutes[before.end] \in Nat /\ s.minutes[n] \in Nat
        BY <1>2, <2>4
      <4>3. s.minutes[n] <= r.minutes
        BY <4>1, <4>2, <3>2, <3>3, <3>7, <2>4
      <4> QED
        BY <4>3, <3>4, <2>4
    <3> QED
      BY <3>1, <3>5, <3>6, <3>7
  <2> QED
    BY <2>2, <2>3, <2>4
<1>4. \A r \in rides[0] : Behind(r)
  BY <1>1, <1>2 DEF Standing
<1> SUFFICES ASSUME Bad # {} PROVE FALSE
  OBVIOUS
<1>5. PICK k \in Bad : \A j \in Bad : k <= j
  <2>1. Bad \in SUBSET Nat
    OBVIOUS
  <2> HIDE DEF Bad
  <2> QED
    BY <2>1, FirstNatural
<1>6. k # 0
  BY <1>4, <1>5
<1>7. k - 1 \in 0..last /\ k \in 1..last /\ k - 1 \notin Bad
  BY <1>5, <1>6
<1> HIDE DEF Behind
<1> QED
  BY <1>3, <1>5, <1>7

\* shortest_path finds a ride, and none is quicker.
LEMMA ShortestPathIsARide ==
  ASSUME NEW graph, IsRailNetwork(graph), NoRoute \notin Ways,
         NEW origin, NEW target
  PROVE  LET path == ShortestPath(graph, origin, target)
             rides == {r \in RideTimes(graph, origin) : r.end = target}
         IN  /\ path = NoRoute \/ path \in Ways
             /\ path # NoRoute /\ path.minutes <= Long =>
                  \E r \in rides : r.minutes = path.minutes /\ r.changes = path.changes
             /\ \A r \in rides : path # NoRoute /\ path.minutes <= r.minutes /\ r.minutes \in 0..Long
<1> DEFINE nodes == NodesOf(graph)
           last == Cardinality(nodes)
           path == ShortestPath(graph, origin, target)
<1>1. last \in Nat /\ IsFiniteSet(nodes)
  BY NodesAreFinite
<1>2. PICK rides : AreRides(graph, origin, last, rides) /\ RideTimes(graph, origin) = rides[last]
  BY RideTimesAreFound
<1>3. PICK search :
        /\ IsWaySearch(graph, origin, target, last, search)
        /\ path = IF origin = target THEN [minutes |-> 0, changes |-> 0]
                  ELSE IF {origin, target} \subseteq nodes /\ search[last].minutes[target] < Infinite
                  THEN [minutes |-> search[last].minutes[target], changes |-> search[last].changes[target]]
                  ELSE NoRoute
  BY ShortestPathIsSearched
<1> HIDE DEF path
<1>4. /\ \A r \in rides[last] : IsRideFrom(graph, origin, r)
      /\ Standing(origin) \in rides[last]
  <2>1. rides[0] = {Standing(origin)}
    BY <1>1, <1>2 DEF AreRides
  <2> DEFINE l == last
  <2>2. l \in Nat /\ AreRides(graph, origin, l, rides)
    BY <1>1, <1>2
  <2> HIDE DEF l
  <2>3. /\ \A k \in 0..l : \A r \in rides[k] : IsRideFrom(graph, origin, r)
        /\ \A k \in 0..l : rides[k] \subseteq rides[l]
    BY <2>2, RidesGrow
  <2>4. 0 \in 0..l /\ l \in 0..l
    BY <2>2
  <2> QED
    BY <2>1, <2>3, <2>4 DEF l
<1>5. CASE origin = target
  <2>1. path = [minutes |-> 0, changes |-> 0]
    BY <1>3, <1>5
  <2>2. \A r \in rides[last] : r.minutes \in 0..Long
    BY <1>4 DEF IsRideFrom
  <2>3. path # NoRoute /\ path \in Ways
    BY <2>1 DEF Ways
  <2> QED
    BY <1>2, <1>4, <1>5, <2>1, <2>2, <2>3 DEF path, Standing, Long
<1>6. CASE origin # target /\ ~({origin, target} \subseteq nodes)
  <2>1. path = NoRoute
    BY <1>3, <1>6
  <2>2. \A r \in rides[last] : r.end # target
    BY <1>4, <1>6 DEF IsRideFrom
  <2> QED
    BY <2>1, <2>2, <1>2 DEF path
<1>7. CASE origin # target /\ {origin, target} \subseteq nodes
  <2> DEFINE s == search[last]
             l == last
  <2>1. l \in Nat /\ AreRides(graph, origin, l, rides) /\ IsWaySearch(graph, origin, target, l, search)
        /\ s = search[l] /\ l \in 0..l
    BY <1>1, <1>2, <1>3
  <2> HIDE DEF l, s
  <2>2. WayFits(graph, origin, rides, l, s) /\ (Settled(s, target) \/ Cardinality(s.visited) = l)
    BY <2>1, <1>7, TurnsFit
  <2>3. Infinite \in Nat /\ \A n \in nodes : s.minutes[n] \in 0..Infinite /\ s.changes[n] \in Nat
    <3>1. \A n \in nodes : s.minutes[n] \in 0..Infinite /\ s.changes[n] \in Nat
      BY <2>2 DEF WayFits
    <3>2. Infinite \in Nat
      BY DEF Infinite
    <3> QED
      BY <3>1, <3>2
  <2>4. path = IF s.minutes[target] < Infinite
               THEN [minutes |-> s.minutes[target], changes |-> s.changes[target]] ELSE NoRoute
    BY <1>3, <1>7 DEF s
  <2>5. target \in s.visited \/ \A n \in nodes \ s.visited : s.minutes[n] = Infinite
    <3>1. CASE Settled(s, target)
      <4>1. DOMAIN s.minutes = nodes
        BY <2>2 DEF WayFits
      <4> QED
        BY <4>1, <3>1 DEF Settled
    <3>2. CASE Cardinality(s.visited) = l
      <4>1. s.visited \subseteq nodes /\ Cardinality(s.visited) = Cardinality(nodes)
        BY <3>2, <2>2 DEF WayFits, l
      <4>2. s.visited = nodes
        BY <4>1, <1>1, FS_Subset
      <4> QED
        BY <4>2
    <3> QED
      BY <3>1, <3>2, <2>2
  <2>6. ASSUME NEW r \in rides[l], r.end = target
        PROVE  s.minutes[target] <= r.minutes /\ r.minutes \in 0..Long
    <3>1. r.minutes \in 0..Long
      BY <1>4, <2>6 DEF IsRideFrom, l
    <3>2. \/ s.minutes[target] <= r.minutes
          \/ \E u \in nodes \ s.visited : s.minutes[u] <= r.minutes
      BY <2>1, <2>2, <2>6, <1>7, RidesAreOvertaken
    <3>3. ASSUME NEW u \in nodes \ s.visited, s.minutes[u] <= r.minutes
          PROVE  s.minutes[target] <= r.minutes
      <4>1. s.minutes[u] # Infinite
        BY <3>1, <3>3 DEF Infinite, Long
      <4>2. target \in s.visited
        BY <4>1, <2>5
      <4>3. s.minutes[target] <= s.minutes[u]
        BY <4>2, <2>2 DEF WayFits
      <4>4. s.minutes[target] \in Nat /\ s.minutes[u] \in Nat /\ r.minutes \in Nat
        BY <2>3, <3>1, <1>7 DEF Long
      <4> QED
        BY <4>3, <4>4, <3>3
    <3> QED
      BY <3>1, <3>2, <3>3
  <2>7. ASSUME path # NoRoute, path.minutes <= Long
        PROVE  \E r \in rides[l] : r.end = target /\ r.minutes = path.minutes /\ r.changes = path.changes
    <3>1. path.minutes = s.minutes[target] /\ path.changes = s.changes[target]
      BY <2>4, <2>7
    <3>2. [end |-> target, minutes |-> s.minutes[target], changes |-> s.changes[target]] \in rides[l]
      BY <3>1, <2>2, <2>7, <1>7 DEF WayFits
    <3> QED
      BY <3>1, <3>2
  <2>8. path = NoRoute \/ path \in Ways
    <3>1. s.minutes[target] \in Nat /\ s.changes[target] \in Nat
      BY <2>3, <1>7
    <3> QED
      BY <3>1, <2>4 DEF Ways
  <2>9. \A r \in rides[l] : r.end = target => path # NoRoute /\ path.minutes <= r.minutes /\ r.minutes \in 0..Long
    <3> SUFFICES ASSUME NEW r \in rides[l], r.end = target
                 PROVE  path # NoRoute /\ path.minutes <= r.minutes /\ r.minutes \in 0..Long
      OBVIOUS
    <3>1. s.minutes[target] <= r.minutes /\ r.minutes \in 0..Long
      BY <2>6
    <3>2. s.minutes[target] \in Nat /\ s.changes[target] \in Nat
      BY <2>3, <1>7
    <3>3. s.minutes[target] < Infinite
      BY <3>1, <3>2 DEF Infinite, Long
    <3>4. path = [minutes |-> s.minutes[target], changes |-> s.changes[target]]
      BY <3>3, <2>4
    <3>5. path \in Ways
      BY <3>2, <3>4 DEF Ways
    <3> QED
      BY <3>1, <3>4, <3>5
  <2> QED
    BY <2>7, <2>8, <2>9, <1>2 DEF path, l
<1> QED
  BY <1>5, <1>6, <1>7

\* There is a best path as soon as there is a path.
LEMMA BestPathIsBest ==
  ASSUME NEW paths, paths # {}, paths \subseteq Ways
  PROVE  /\ BestPath(paths) \in paths
         /\ \A q \in paths : BestPath(paths).minutes <= q.minutes
<1> DEFINE IsBest(p) == \A q \in paths :
             p.minutes < q.minutes \/ (p.minutes = q.minutes /\ p.changes <= q.changes)
           times == {p.minutes : p \in paths}
<1>1. \A p \in paths : p.minutes \in Nat /\ p.changes \in Nat
  BY DEF Ways
<1>2. PICK m \in times : \A k \in times : m <= k
  <2>1. times \in SUBSET Nat /\ times # {}
    BY <1>1
  <2> HIDE DEF times
  <2> QED
    BY <2>1, FirstNatural
<1> DEFINE counts == {p.changes : p \in {q \in paths : q.minutes = m}}
<1>3. PICK c \in counts : \A k \in counts : c <= k
  <2>1. counts \in SUBSET Nat /\ counts # {}
    BY <1>1, <1>2
  <2> HIDE DEF counts
  <2> QED
    BY <2>1, FirstNatural
<1>4. PICK p \in paths : p.minutes = m /\ p.changes = c
  BY <1>3
<1>5. IsBest(p)
  <2> SUFFICES ASSUME NEW q \in paths
               PROVE  p.minutes < q.minutes \/ (p.minutes = q.minutes /\ p.changes <= q.changes)
    OBVIOUS
  <2>1. m <= q.minutes /\ (q.minutes = m => c <= q.changes)
    BY <1>2, <1>3
  <2> QED
    BY <2>1, <1>1, <1>4
<1>6. BestPath(paths) \in paths /\ IsBest(BestPath(paths))
  BY <1>5 DEF BestPath
<1> HIDE DEF IsBest
<1>7. \A q \in paths : BestPath(paths).minutes <= q.minutes
  BY <1>1, <1>6 DEF IsBest
<1> QED
  BY <1>6, <1>7

\* What the codes of a station have to do with the rides to it.
LEMMA PathsAreRides ==
  ASSUME NEW graph, IsRailNetwork(graph), NoRoute \notin Ways,
         NEW origins, NEW s
  PROVE  LET paths == PathsTo(graph, origins, s)
             To == {r \in UNION {RideTimes(graph, o) : o \in origins} : r.end \in graph.codes[s]}
         IN  /\ paths \subseteq Ways
             /\ \A p \in paths : p.minutes <= Long =>
                  \E r \in To : r.minutes = p.minutes /\ r.changes = p.changes
             /\ \A r \in To : r.minutes \in 0..Long /\ \E p \in paths : p.minutes <= r.minutes
<1> DEFINE paths == PathsTo(graph, origins, s)
           To == {r \in UNION {RideTimes(graph, o) : o \in origins} : r.end \in graph.codes[s]}
<1>1. ASSUME NEW p \in paths
      PROVE  /\ p \in Ways
             /\ p.minutes <= Long => \E r \in To : r.minutes = p.minutes /\ r.changes = p.changes
  <2>1. PICK o \in origins, d \in graph.codes[s] : p = ShortestPath(graph, o, d) /\ p # NoRoute
    BY DEF PathsTo
  <2>2. /\ p \in Ways
        /\ p.minutes <= Long =>
             \E r \in {q \in RideTimes(graph, o) : q.end = d} :
               r.minutes = p.minutes /\ r.changes = p.changes
    BY <2>1, ShortestPathIsARide
  <2> QED
    BY <2>2
<1>2. ASSUME NEW r \in To
      PROVE  r.minutes \in 0..Long /\ \E p \in paths : p.minutes <= r.minutes
  <2>1. PICK o \in origins : r \in RideTimes(graph, o)
    OBVIOUS
  <2> DEFINE p == ShortestPath(graph, o, r.end)
  <2>2. p # NoRoute /\ p.minutes <= r.minutes /\ r.minutes \in 0..Long
    BY <2>1, ShortestPathIsARide
  <2>3. p \in paths
    BY <2>2 DEF PathsTo
  <2> HIDE DEF p, paths
  <2> QED
    BY <2>2, <2>3
<1> HIDE DEF paths, To
<1>3. /\ paths \subseteq Ways
      /\ \A p \in paths : p.minutes <= Long =>
           \E r \in To : r.minutes = p.minutes /\ r.changes = p.changes
      /\ \A r \in To : r.minutes \in 0..Long /\ \E p \in paths : p.minutes <= r.minutes
  BY <1>1, <1>2
<1> QED
  BY <1>3 DEF paths, To

\* The bands of one assessment are what the rides say.
LEMMA BandsAreRides ==
  ASSUME NEW graph, IsRailNetwork(graph), NoRoute \notin Ways,
         NEW station, NEW s \in graph.active
  PROVE  LET found == Banded(station, BestPaths(PathsFrom(graph, station)))
             rides == UNION {RideTimes(graph, o) : o \in graph.codes[station]}
             To == {r \in rides : r.end \in graph.codes[s]}
             near == found.zero \cup found.one \cup found.multi
         IN  /\ s \in near <=> \E r \in To : r.minutes <= Short
             /\ s \in found.extended <=> s \notin near /\ To # {}
             /\ Cardinality({b \in {"zero", "one", "multi", "extended"} : s \in found[b]}) <= 1
             /\ s \in found.zero => \E r \in To : r.minutes <= Short /\ r.changes = 0
<1> DEFINE all == PathsFrom(graph, station)
           paths == PathsTo(graph, graph.codes[station], s)
           To == {r \in UNION {RideTimes(graph, o) : o \in graph.codes[station]} : r.end \in graph.codes[s]}
           best == BestPaths(all)
           short == {t \in DOMAIN best : best[t].minutes <= Short}
           zero == {t \in short : best[t].changes = 0}
           one == {t \in short : best[t].changes = 1}
           found == Banded(station, best)
           near == found.zero \cup found.one \cup found.multi
<1>1. /\ paths \subseteq Ways
      /\ \A p \in paths : p.minutes <= Long =>
           \E r \in To : r.minutes = p.minutes /\ r.changes = p.changes
      /\ \A r \in To : r.minutes \in 0..Long /\ \E p \in paths : p.minutes <= r.minutes
  BY PathsAreRides
<1>2. /\ found.zero = zero /\ found.one = one /\ found.multi = short \ (zero \cup one)
      /\ found.extended = DOMAIN best \ short
      /\ found["zero"] = zero /\ found["one"] = one /\ found["multi"] = short \ (zero \cup one)
      /\ found["extended"] = DOMAIN best \ short
  <2> HIDE DEF best
  <2> QED
    BY DEF Banded
<1>3. /\ s \in DOMAIN best <=> \E p \in paths : p.minutes <= Long
      /\ s \in DOMAIN best => best[s] = BestPath(paths)
  BY DEF BestPaths, PathsFrom
<1> HIDE DEF paths, To, best, found
<1>4. s \in DOMAIN best =>
        /\ best[s] \in paths /\ best[s].minutes <= Long /\ best[s].minutes \in Nat
        /\ \A q \in paths : best[s].minutes <= q.minutes
  <2> SUFFICES ASSUME s \in DOMAIN best
               PROVE  /\ best[s] \in paths /\ best[s].minutes <= Long /\ best[s].minutes \in Nat
                      /\ \A q \in paths : best[s].minutes <= q.minutes
    OBVIOUS
  <2>1. PICK p \in paths : p.minutes <= Long
    BY <1>3
  <2>2. best[s] \in paths /\ \A q \in paths : best[s].minutes <= q.minutes
    BY <2>1, <1>1, <1>3, BestPathIsBest
  <2>3. best[s].minutes \in Nat /\ p.minutes \in Nat /\ best[s].minutes <= p.minutes
    BY <2>1, <2>2, <1>1 DEF Ways
  <2> QED
    BY <2>1, <2>2, <2>3 DEF Long
<1>5. \A r \in To : s \in DOMAIN best /\ best[s].minutes <= r.minutes
  <2> SUFFICES ASSUME NEW r \in To PROVE s \in DOMAIN best /\ best[s].minutes <= r.minutes
    OBVIOUS
  <2>1. PICK p \in paths : p.minutes <= r.minutes
    BY <1>1
  <2>2. p.minutes \in Nat /\ r.minutes \in Nat /\ r.minutes <= Long
    BY <2>1, <1>1 DEF Long, Ways
  <2>3. p.minutes <= Long
    BY <2>1, <2>2 DEF Long
  <2>4. s \in DOMAIN best
    BY <2>3, <1>3
  <2>5. best[s].minutes <= p.minutes /\ best[s].minutes \in Nat
    BY <2>4, <1>4
  <2> QED
    BY <2>1, <2>2, <2>4, <2>5
<1>6. s \in DOMAIN best => \E r \in To : r.minutes = best[s].minutes /\ r.changes = best[s].changes
  BY <1>1, <1>4
<1>7. s \in short <=> \E r \in To : r.minutes <= Short
  <2>1. ASSUME s \in short PROVE \E r \in To : r.minutes <= Short
    BY <2>1, <1>6
  <2>2. ASSUME NEW r \in To, r.minutes <= Short PROVE s \in short
    <3>1. s \in DOMAIN best /\ best[s].minutes <= r.minutes
      BY <1>5
    <3>2. best[s].minutes \in Nat /\ r.minutes \in Nat
      BY <3>1, <1>1, <1>4 DEF Long
    <3> QED
      BY <3>1, <3>2, <2>2 DEF Short
  <2> QED
    BY <2>1, <2>2
<1>8. s \in DOMAIN best <=> To # {}
  BY <1>5, <1>6
<1>9. near = short
  BY <1>2
<1>10. s \in found.extended <=> s \notin near /\ To # {}
  BY <1>2, <1>8, <1>9
<1>11. s \in found.zero => \E r \in To : r.minutes <= Short /\ r.changes = 0
  BY <1>2, <1>6
<1>12. Cardinality({b \in {"zero", "one", "multi", "extended"} : s \in found[b]}) <= 1
  <2> DEFINE bands == {b \in {"zero", "one", "multi", "extended"} : s \in found[b]}
  <2>1. bands = {} \/ bands = {"zero"} \/ bands = {"one"} \/ bands = {"multi"} \/ bands = {"extended"}
    <3>1. /\ s \in zero => s \in short /\ s \notin one
          /\ s \in one => s \in short
          /\ zero \subseteq short /\ one \subseteq short
      OBVIOUS
    <3> HIDE DEF zero, one, short
    <3>2. CASE s \in zero
      <4>1. bands = {"zero"}
        BY <3>1, <3>2, <1>2
      <4> QED
        BY <4>1
    <3>3. CASE s \in one
      <4>1. bands = {"one"}
        BY <3>1, <3>3, <1>2
      <4> QED
        BY <4>1
    <3>4. CASE s \in short /\ s \notin zero /\ s \notin one
      <4>1. bands = {"multi"}
        BY <3>4, <1>2
      <4> QED
        BY <4>1
    <3>5. CASE s \in DOMAIN best /\ s \notin short
      <4>1. bands = {"extended"}
        BY <3>1, <3>5, <1>2
      <4> QED
        BY <4>1
    <3>6. CASE s \notin DOMAIN best /\ s \notin short
      <4>1. bands = {}
        BY <3>1, <3>6, <1>2
      <4> QED
        BY <4>1
    <3> QED
      BY <3>1, <3>2, <3>3, <3>4, <3>5, <3>6
  <2> HIDE DEF bands
  <2>2. Cardinality(bands) \in {0, 1}
    <3>1. CASE bands = {}
      BY <3>1, FS_EmptySet
    <3>2. CASE bands # {}
      <4>1. PICK b : bands = {b}
        BY <3>2, <2>1
      <4> QED
        BY <4>1, FS_Singleton
    <3> QED
      BY <3>1, <3>2
  <2> QED
    BY <2>2 DEF bands
<1>13. /\ s \in near <=> \E r \in To : r.minutes <= Short
       /\ s \in found.extended <=> s \notin near /\ To # {}
       /\ Cardinality({b \in {"zero", "one", "multi", "extended"} : s \in found[b]}) <= 1
       /\ s \in found.zero => \E r \in To : r.minutes <= Short /\ r.changes = 0
  BY <1>7, <1>9, <1>10, <1>11, <1>12
<1> QED
  BY <1>13 DEF To, found, best

(***************************************************************************)
(* What an assessment finds.                                               *)
(***************************************************************************)

\* What is shown is what one network and one list of entries give.
ReachIsOfAFlat ==
  reach.found.status = "calculated" =>
    \E graph \in RailGraphs, entries \in EntryLists :
      reach.of = <<graph, entries>> /\ reach.found = ReachFrom(graph, entries)

\* Each active station is in at most one band, in the band of the half hour
\* exactly when some ride reaches it in that time, in the extended band exactly
\* when only longer rides do, and no station is said to need no change unless
\* some ride within the half hour needs none.
THEOREM StationsAreBanded == ReachSpec => []EveryStationOnce
<1>1. ReachInit => ReachIsOfAFlat
  BY DEF ReachInit, NoReachYet, NoReach, ReachIsOfAFlat
<1>2. ReachIsOfAFlat /\ [ReachNext]_reach => ReachIsOfAFlat'
  <2> SUFFICES ASSUME ReachIsOfAFlat, [ReachNext]_reach PROVE ReachIsOfAFlat'
    OBVIOUS
  <2>1. CASE ReachNext
    <3>1. PICK graph \in RailGraphs, entries \in EntryLists : AssessReach(graph, entries)
      BY <2>1 DEF ReachNext
    <3>2. reach'.of = <<graph, entries>> /\ reach'.found = ReachFrom(graph, entries)
      BY <3>1 DEF AssessReach
    <3> QED
      BY <3>2 DEF ReachIsOfAFlat
  <2>2. CASE UNCHANGED reach
    BY <2>2 DEF ReachIsOfAFlat
  <2> QED
    BY <2>1, <2>2
<1>3. ReachIsOfAFlat => EveryStationOnce
  <2> SUFFICES ASSUME ReachIsOfAFlat, reach.found.status = "calculated" PROVE EveryStationOnce
    BY DEF EveryStationOnce
  <2>1. PICK graph \in RailGraphs, entries \in EntryLists :
          reach.of = <<graph, entries>> /\ reach.found = ReachFrom(graph, entries)
    BY DEF ReachIsOfAFlat
  <2> DEFINE station == EntryStation(graph, entries)
             found == Banded(station, BestPaths(PathsFrom(graph, station)))
  <2>2. reach.found = found
    <3>1. reach.found # NoReach
      BY DEF NoReach
    <3> QED
      BY <2>1, <3>1 DEF ReachFrom
  <2>3. found.station = station /\ reach.of[1] = graph
    BY <2>1 DEF Banded
  <2>4. IsRailNetwork(graph) /\ NoRoute \notin Ways
    BY RailAssumption
  <2> HIDE DEF station
  <2>5. \A s \in graph.active :
          LET rides == UNION {RideTimes(graph, o) : o \in graph.codes[station]}
              To == {r \in rides : r.end \in graph.codes[s]}
              near == found.zero \cup found.one \cup found.multi
          IN  /\ s \in near <=> \E r \in To : r.minutes <= Short
              /\ s \in found.extended <=> s \notin near /\ To # {}
              /\ Cardinality({b \in {"zero", "one", "multi", "extended"} : s \in found[b]}) <= 1
              /\ s \in found.zero => \E r \in To : r.minutes <= Short /\ r.changes = 0
    BY <2>4, BandsAreRides
  <2> HIDE DEF found
  <2>6. /\ reach.of[1] = graph /\ reach.found = found
        /\ graph.codes[found.station] = graph.codes[station]
    BY <2>2, <2>3
  <2>7. EveryStationOnce <=>
          \A s \in reach.of[1].active :
            LET rides == UNION {RideTimes(reach.of[1], o) : o \in reach.of[1].codes[reach.found.station]}
                To == {r \in rides : r.end \in reach.of[1].codes[s]}
                near == reach.found.zero \cup reach.found.one \cup reach.found.multi
            IN  /\ s \in near <=> \E r \in To : r.minutes <= Short
                /\ s \in reach.found.extended <=> s \notin near /\ To # {}
                /\ Cardinality({b \in {"zero", "one", "multi", "extended"} : s \in reach.found[b]}) <= 1
                /\ s \in reach.found.zero => \E r \in To : r.minutes <= Short /\ r.changes = 0
    BY DEF EveryStationOnce
  <2> QED
    BY <2>5, <2>6, <2>7
<1> QED
  BY <1>1, <1>2, <1>3, PTL DEF ReachSpec

-----------------------------------------------------------------------------

(***************************************************************************)
(* RouteOverlap: two drives and the roads they share.                      *)
(***************************************************************************)

\* Among finite sets that lack something there is one that no longer lacks
\* it when any of its elements is taken out.
LEMMA SmallestOf ==
  ASSUME NEW Bad, Bad # {}, \A S \in Bad : IsFiniteSet(S)
  PROVE  \E S \in Bad : \A x \in S : S \ {x} \notin Bad
<1> DEFINE sizes == {Cardinality(S) : S \in Bad}
<1>1. sizes \in SUBSET Nat /\ sizes # {}
  BY FS_CardinalityType
<1>2. PICK n \in sizes : \A m \in sizes : n <= m
  <2> HIDE DEF sizes
  <2> QED
    BY <1>1, FirstNatural
<1>3. PICK S \in Bad : n = Cardinality(S)
  BY <1>2
<1>4. ASSUME NEW x \in S, S \ {x} \in Bad PROVE FALSE
  <2>1. Cardinality(S \ {x}) \in sizes
    BY <1>4
  <2>2. IsFiniteSet(S) /\ S \ {x} \subseteq S /\ S \ {x} # S
    BY <1>3, <1>4
  <2>3. Cardinality(S \ {x}) < Cardinality(S) /\ Cardinality(S) \in Nat /\ Cardinality(S \ {x}) \in Nat
    BY <2>2, ManyInSubset
  <2> QED
    BY <2>1, <2>3, <1>2, <1>3
<1> QED
  BY <1>3, <1>4

(***************************************************************************)
(* Sums over a finite set.                                                 *)
(***************************************************************************)

\* The element that a sum over a set takes out of it first.
AnyOf(S) == CHOOSE x \in S : TRUE

\* The sums of f over every subset of S with at most that many elements.
IsSummation(f, S, most, sums) ==
  sums = [T \in {U \in SUBSET S : Cardinality(U) <= most} |->
            IF T = {} THEN 0 ELSE f[AnyOf(T)] + sums[T \ {AnyOf(T)}]]

\* There are such sums, whatever the number: those of the smaller subsets
\* give those that have one element more.
LEMMA SummationExists ==
  ASSUME NEW f, NEW S, IsFiniteSet(S), NEW most \in Nat
  PROVE  \E sums : IsSummation(f, S, most, sums)
<1> DEFINE Bad == {n \in Nat : ~\E sums : IsSummation(f, S, n, sums)}
           Upto(n) == {U \in SUBSET S : Cardinality(U) <= n}
<1> SUFFICES ASSUME Bad # {} PROVE FALSE
  OBVIOUS
<1>1. PICK n \in Bad : \A m \in Bad : n <= m
  <2>1. Bad \in SUBSET Nat
    OBVIOUS
  <2> HIDE DEF Bad
  <2> QED
    BY <2>1, FirstNatural
<1>2. \A T \in SUBSET S : IsFiniteSet(T) /\ Cardinality(T) \in Nat
  BY FS_Subset, FS_CardinalityType
<1>3. \A T \in SUBSET S : T # {} => AnyOf(T) \in T /\ T \ {AnyOf(T)} \in SUBSET S
                                     /\ Cardinality(T \ {AnyOf(T)}) = Cardinality(T) - 1
  <2> SUFFICES ASSUME NEW T \in SUBSET S, T # {}
               PROVE  AnyOf(T) \in T /\ T \ {AnyOf(T)} \in SUBSET S
                      /\ Cardinality(T \ {AnyOf(T)}) = Cardinality(T) - 1
    OBVIOUS
  <2>1. AnyOf(T) \in T
    BY DEF AnyOf
  <2> QED
    BY <2>1, <1>2, FS_RemoveElement
<1>4. n # 0
  <2> SUFFICES ASSUME n = 0 PROVE FALSE
    OBVIOUS
  <2>1. \A T \in Upto(0) : T = {}
    BY <1>2, FS_EmptySet
  <2>2. IsSummation(f, S, 0, [T \in Upto(0) |-> 0])
    <3>1. [T \in Upto(0) |-> 0] = [T \in Upto(0) |-> IF T = {} THEN 0
              ELSE f[AnyOf(T)] + [U \in Upto(0) |-> 0][T \ {AnyOf(T)}]]
      BY <2>1, Zenon
    <3> QED
      BY <3>1, Zenon DEF IsSummation
  <2> QED
    BY <2>2, <1>1
<1>5. PICK sums : IsSummation(f, S, n - 1, sums)
  BY <1>1, <1>4
<1> DEFINE more == [T \in Upto(n) |-> IF Cardinality(T) = n THEN f[AnyOf(T)] + sums[T \ {AnyOf(T)}] ELSE sums[T]]
<1>6. IsSummation(f, S, n, more)
  <2>1. \A T \in Upto(n - 1) : sums[T] = IF T = {} THEN 0 ELSE f[AnyOf(T)] + sums[T \ {AnyOf(T)}]
    BY <1>5 DEF IsSummation
  <2>2. ASSUME NEW T \in Upto(n)
        PROVE  more[T] = IF T = {} THEN 0 ELSE f[AnyOf(T)] + more[T \ {AnyOf(T)}]
    <3>1. n \in Nat /\ Cardinality(T) \in Nat /\ Cardinality(T) <= n
      BY <1>1, <1>2
    <3>2. CASE T = {}
      <4>1. Cardinality(T) = 0
        BY <3>2, FS_EmptySet
      <4>2. T \in Upto(n - 1)
        BY <4>1, <3>1, <1>4
      <4>3. sums[T] = 0
        BY <4>2, <3>2, <2>1
      <4> QED
        BY <4>1, <4>3, <3>2, <1>4
    <3>3. CASE T # {}
      <4> DEFINE rest == T \ {AnyOf(T)}
      <4>1. rest \in SUBSET S /\ Cardinality(rest) = Cardinality(T) - 1
        BY <3>3, <1>3
      <4>2. rest \in Upto(n) /\ Cardinality(rest) # n /\ rest \in Upto(n - 1)
        BY <4>1, <3>1
      <4> HIDE DEF rest
      <4>3. more[rest] = sums[rest]
        BY <4>2
      <4>4. CASE Cardinality(T) = n
        BY <4>3, <4>4, <3>3 DEF rest
      <4>5. CASE Cardinality(T) # n
        <5>1. T \in Upto(n - 1)
          BY <4>5, <3>1
        <5>2. sums[T] = f[AnyOf(T)] + sums[rest]
          BY <5>1, <2>1, <3>3 DEF rest
        <5> QED
          BY <5>2, <4>3, <4>5, <3>3 DEF rest
      <4> QED
        BY <4>4, <4>5
    <3> QED
      BY <3>2, <3>3
  <2>3. more = [T \in Upto(n) |-> more[T]]
    OBVIOUS
  <2> HIDE DEF more
  <2>4. more = [T \in Upto(n) |-> IF T = {} THEN 0 ELSE f[AnyOf(T)] + more[T \ {AnyOf(T)}]]
    BY <2>2, <2>3
  <2> QED
    BY <2>4 DEF IsSummation
<1> QED
  BY <1>1, <1>6

\* The sums over all subsets of S, whose last one SumFunctionOnSet is.
IsSum(f, S, sums) ==
  sums = [T \in SUBSET S |-> IF T = {} THEN 0 ELSE f[AnyOf(T)] + sums[T \ {AnyOf(T)}]]

\* The sum of the community modules is the last of such sums.
LEMMA SumExists ==
  ASSUME NEW f, NEW S, IsFiniteSet(S)
  PROVE  \E sums : IsSum(f, S, sums) /\ SumFunctionOnSet(f, S) = sums[S]
<1>1. Cardinality(S) \in Nat
  BY FS_CardinalityType
<1>2. {U \in SUBSET S : Cardinality(U) <= Cardinality(S)} = SUBSET S
  BY ManyInSubset
<1>3. PICK some : IsSummation(f, S, Cardinality(S), some)
  BY <1>1, SummationExists
<1>4. IsSum(f, S, some)
  BY <1>2, <1>3, Zenon DEF IsSummation, IsSum
<1>5. SumFunctionOnSet(f, S) = (CHOOSE sums : IsSum(f, S, sums))[S]
  BY DEF SumFunctionOnSet, FoldFunctionOnSet, MapThenFoldSet, IsSum, AnyOf
<1> QED
  BY <1>4, <1>5

\* The sums over the subsets of a set do not depend on the set.
LEMMA SumsAgree ==
  ASSUME NEW f, NEW S, IsFiniteSet(S), NEW sums, IsSum(f, S, sums),
         NEW T, T \subseteq S, NEW others, IsSum(f, T, others)
  PROVE  \A U \in SUBSET T : sums[U] = others[U]
<1> DEFINE Bad == {U \in SUBSET T : sums[U] # others[U]}
<1> SUFFICES ASSUME Bad # {} PROVE FALSE
  OBVIOUS
<1>1. \A U \in Bad : IsFiniteSet(U)
  BY FS_Subset
<1>2. PICK U \in Bad : \A x \in U : U \ {x} \notin Bad
  <2> HIDE DEF Bad
  <2> QED
    BY <1>1, SmallestOf
<1>3. U \in SUBSET T /\ U \in SUBSET S
  BY <1>2
<1>4. sums[U] = (IF U = {} THEN 0 ELSE f[AnyOf(U)] + sums[U \ {AnyOf(U)}])
  BY <1>3 DEF IsSum
<1>5. others[U] = (IF U = {} THEN 0 ELSE f[AnyOf(U)] + others[U \ {AnyOf(U)}])
  BY <1>3 DEF IsSum
<1>6. U # {} => AnyOf(U) \in U
  BY DEF AnyOf
<1>7. U # {} => sums[U \ {AnyOf(U)}] = others[U \ {AnyOf(U)}]
  BY <1>2, <1>3, <1>6
<1> QED
  BY <1>2, <1>4, <1>5, <1>7

\* The sum over no element is nothing.
LEMMA SumOfNone ==
  ASSUME NEW f
  PROVE  SumFunctionOnSet(f, {}) = 0
<1>1. IsFiniteSet({})
  BY FS_EmptySet
<1>2. PICK sums : IsSum(f, {}, sums) /\ SumFunctionOnSet(f, {}) = sums[{}]
  BY <1>1, SumExists
<1> QED
  BY <1>2 DEF IsSum

\* The sum over some elements is one of them and the sum over the others.
LEMMA SumOfSome ==
  ASSUME NEW f, NEW S, IsFiniteSet(S), S # {}
  PROVE  /\ AnyOf(S) \in S
         /\ SumFunctionOnSet(f, S) = f[AnyOf(S)] + SumFunctionOnSet(f, S \ {AnyOf(S)})
<1> DEFINE rest == S \ {AnyOf(S)}
<1>1. AnyOf(S) \in S
  BY DEF AnyOf
<1>2. IsFiniteSet(rest) /\ rest \subseteq S
  BY FS_Subset
<1> HIDE DEF rest
<1>3. PICK sums : IsSum(f, S, sums) /\ SumFunctionOnSet(f, S) = sums[S]
  BY SumExists
<1>4. PICK others : IsSum(f, rest, others) /\ SumFunctionOnSet(f, rest) = others[rest]
  BY <1>2, SumExists
<1>5. sums[S] = f[AnyOf(S)] + sums[rest]
  BY <1>3 DEF IsSum, rest
<1>6. sums[rest] = others[rest]
  BY <1>2, <1>3, <1>4, SumsAgree
<1> QED
  BY <1>1, <1>3, <1>4, <1>5, <1>6 DEF rest

\* A sum of integers is an integer.
LEMMA SumIsInt ==
  ASSUME NEW f, NEW S, IsFiniteSet(S), \A x \in S : f[x] \in Int
  PROVE  SumFunctionOnSet(f, S) \in Int
<1> DEFINE Bad == {T \in SUBSET S : SumFunctionOnSet(f, T) \notin Int}
<1> SUFFICES ASSUME Bad # {} PROVE FALSE
  OBVIOUS
<1>1. \A T \in Bad : IsFiniteSet(T)
  BY FS_Subset
<1>2. PICK T \in Bad : \A x \in T : T \ {x} \notin Bad
  <2> HIDE DEF Bad
  <2> QED
    BY <1>1, SmallestOf
<1>3. T # {}
  BY <1>2, SumOfNone
<1>4. AnyOf(T) \in T /\ SumFunctionOnSet(f, T) = f[AnyOf(T)] + SumFunctionOnSet(f, T \ {AnyOf(T)})
  BY <1>1, <1>2, <1>3, SumOfSome
<1>5. SumFunctionOnSet(f, T \ {AnyOf(T)}) \in Int /\ f[AnyOf(T)] \in Int
  BY <1>2, <1>4
<1> QED
  BY <1>2, <1>4, <1>5

\* A sum does not depend on the element it starts with.
LEMMA SumWithout ==
  ASSUME NEW f, NEW S, IsFiniteSet(S), \A x \in S : f[x] \in Int
  PROVE  \A x \in S : SumFunctionOnSet(f, S) = f[x] + SumFunctionOnSet(f, S \ {x})
<1> DEFINE Sum(T) == SumFunctionOnSet(f, T)
           Bad == {T \in SUBSET S : ~(\A x \in T : Sum(T) = f[x] + Sum(T \ {x}))}
<1> SUFFICES ASSUME Bad # {} PROVE FALSE
  OBVIOUS
<1>1. \A T \in SUBSET S : IsFiniteSet(T) /\ Sum(T) \in Int
  <2>1. \A T \in SUBSET S : IsFiniteSet(T)
    BY FS_Subset
  <2> QED
    BY <2>1, SumIsInt
<1>2. PICK T \in Bad : \A x \in T : T \ {x} \notin Bad
  <2>1. \A U \in Bad : IsFiniteSet(U)
    BY <1>1
  <2> HIDE DEF Bad
  <2> QED
    BY <2>1, SmallestOf
<1>3. PICK x \in T : Sum(T) # f[x] + Sum(T \ {x})
  BY <1>2
<1> DEFINE c == AnyOf(T)
           U == (T \ {c}) \ {x}
<1>4. c \in T /\ Sum(T) = f[c] + Sum(T \ {c})
  BY <1>1, <1>2, <1>3, SumOfSome
<1>5. x # c
  BY <1>3, <1>4
<1>6. Sum(T \ {c}) = f[x] + Sum(U)
  BY <1>2, <1>4, <1>5
<1>7. Sum(T \ {x}) = f[c] + Sum(U)
  <2>1. U = (T \ {x}) \ {c}
    OBVIOUS
  <2> HIDE DEF U, c
  <2> QED
    BY <1>2, <1>3, <1>4, <1>5, <2>1
<1>8. U \in SUBSET S /\ f[x] \in Int /\ f[c] \in Int
  BY <1>2, <1>4
<1> HIDE DEF U, c, Sum
<1> QED
  BY <1>1, <1>3, <1>4, <1>6, <1>7, <1>8

\* Smaller numbers over fewer elements have a smaller sum.
LEMMA SumGrows ==
  ASSUME NEW S, IsFiniteSet(S), NEW T, T \subseteq S, NEW f, NEW g,
         \A x \in T : f[x] \in Int /\ f[x] <= g[x],
         \A x \in S : g[x] \in Nat
  PROVE  SumFunctionOnSet(f, T) <= SumFunctionOnSet(g, S)
<1> DEFINE Bad == {U \in SUBSET S : ~(SumFunctionOnSet(f, U \cap T) <= SumFunctionOnSet(g, U))}
<1> SUFFICES ASSUME Bad # {} PROVE FALSE
  <2>1. S \in SUBSET S /\ S \cap T = T
    OBVIOUS
  <2> QED
    BY <2>1
<1>1. \A U \in SUBSET S : IsFiniteSet(U) /\ IsFiniteSet(U \cap T)
  BY FS_Subset
<1>2. PICK U \in Bad : \A x \in U : U \ {x} \notin Bad
  <2>1. \A U \in Bad : IsFiniteSet(U)
    BY <1>1
  <2> HIDE DEF Bad
  <2> QED
    BY <2>1, SmallestOf
<1>3. U # {}
  <2> SUFFICES ASSUME U = {} PROVE FALSE
    OBVIOUS
  <2>1. U \cap T = {}
    OBVIOUS
  <2>2. SumFunctionOnSet(f, U \cap T) = 0 /\ SumFunctionOnSet(g, U) = 0
    BY <2>1, SumOfNone
  <2> QED
    BY <2>2, <1>2
<1>4. PICK x \in U : TRUE
  BY <1>3
<1> DEFINE rest == U \ {x}
<1>5. rest \in SUBSET S /\ rest \notin Bad
  BY <1>2, <1>4
<1>6. SumFunctionOnSet(f, rest \cap T) <= SumFunctionOnSet(g, rest)
  BY <1>5
<1>7. SumFunctionOnSet(g, U) = g[x] + SumFunctionOnSet(g, rest)
  BY <1>1, <1>2, <1>4, SumWithout
<1> HIDE DEF Bad
<1>8. SumFunctionOnSet(g, rest) \in Int /\ g[x] \in Nat /\ U \in SUBSET S
  <2>1. \A y \in rest : g[y] \in Int
    BY <1>5
  <2> HIDE DEF rest
  <2> QED
    BY <2>1, <1>1, <1>2, <1>4, <1>5, SumIsInt DEF Bad
<1>9. SumFunctionOnSet(f, rest \cap T) \in Int
  <2>1. \A y \in rest \cap T : f[y] \in Int
    OBVIOUS
  <2> HIDE DEF rest
  <2> QED
    BY <2>1, <1>1, <1>5, SumIsInt
<1>10. CASE x \in T
  <2>1. (U \cap T) \ {x} = rest \cap T /\ x \in U \cap T
    BY <1>4, <1>10
  <2>2. \A y \in U \cap T : f[y] \in Int
    OBVIOUS
  <2>3. SumFunctionOnSet(f, U \cap T) = f[x] + SumFunctionOnSet(f, rest \cap T)
    <3> HIDE DEF rest
    <3>1. SumFunctionOnSet(f, U \cap T) = f[x] + SumFunctionOnSet(f, (U \cap T) \ {x})
      BY <2>1, <2>2, <1>1, <1>8, SumWithout
    <3> QED
      BY <3>1, <2>1
  <2>4. f[x] \in Int /\ f[x] <= g[x]
    BY <1>10
  <2> HIDE DEF rest
  <2> QED
    BY <2>3, <2>4, <1>2, <1>6, <1>7, <1>8, <1>9 DEF Bad
<1>11. CASE x \notin T
  <2>1. U \cap T = rest \cap T
    BY <1>11
  <2> HIDE DEF rest
  <2>2. SumFunctionOnSet(f, U \cap T) <= SumFunctionOnSet(g, rest)
    BY <2>1, <1>6
  <2>3. SumFunctionOnSet(g, rest) <= SumFunctionOnSet(g, U)
    BY <1>7, <1>8
  <2>4. SumFunctionOnSet(f, U \cap T) <= SumFunctionOnSet(g, U)
    BY <2>1, <2>2, <2>3, <1>7, <1>8, <1>9
  <2> QED
    BY <2>4, <1>2 DEF Bad
<1> QED
  BY <1>10, <1>11

\* The same numbers have the same sum.
LEMMA SumOfSame ==
  ASSUME NEW S, IsFiniteSet(S), NEW f, NEW g, \A x \in S : f[x] \in Nat /\ f[x] = g[x]
  PROVE  SumFunctionOnSet(f, S) = SumFunctionOnSet(g, S)
<1>1. SumFunctionOnSet(f, S) <= SumFunctionOnSet(g, S)
  BY SumGrows
<1>2. SumFunctionOnSet(g, S) <= SumFunctionOnSet(f, S)
  BY SumGrows
<1>3. SumFunctionOnSet(f, S) \in Int /\ SumFunctionOnSet(g, S) \in Int
  BY SumIsInt
<1> QED
  BY <1>1, <1>2, <1>3

\* A sum of natural numbers is one.
LEMMA SumIsNatural ==
  ASSUME NEW S, IsFiniteSet(S), NEW f, \A x \in S : f[x] \in Nat
  PROVE  SumFunctionOnSet(f, S) \in Nat
<1>1. SumFunctionOnSet(f, S) \in Int
  BY SumIsInt
<1>2. SumFunctionOnSet(f, {}) <= SumFunctionOnSet(f, S)
  BY SumGrows
<1> QED
  BY <1>1, <1>2, SumOfNone

\* The sum over two sets that have nothing in common.
LEMMA SumOfParts ==
  ASSUME NEW S, IsFiniteSet(S), NEW T, IsFiniteSet(T), S \cap T = {},
         NEW f, \A x \in S \cup T : f[x] \in Nat
  PROVE  SumFunctionOnSet(f, S \cup T) = SumFunctionOnSet(f, S) + SumFunctionOnSet(f, T)
<1> DEFINE Sum(U) == SumFunctionOnSet(f, U)
           Bad == {U \in SUBSET T : Sum(S \cup U) # Sum(S) + Sum(U)}
<1> SUFFICES ASSUME Bad # {} PROVE FALSE
  OBVIOUS
<1>1. \A U \in SUBSET T : IsFiniteSet(U) /\ IsFiniteSet(S \cup U) /\ Sum(U) \in Nat /\ Sum(S \cup U) \in Nat
  <2>1. \A U \in SUBSET T : IsFiniteSet(U) /\ IsFiniteSet(S \cup U)
    BY FS_Subset, FS_Union
  <2> QED
    BY <2>1, SumIsNatural
<1>2. PICK U \in Bad : \A x \in U : U \ {x} \notin Bad
  <2>1. \A U \in Bad : IsFiniteSet(U)
    BY <1>1
  <2> HIDE DEF Bad
  <2> QED
    BY <2>1, SmallestOf
<1>3. Sum(S) \in Nat
  BY SumIsNatural
<1>4. U # {}
  <2> SUFFICES ASSUME U = {} PROVE FALSE
    OBVIOUS
  <2>1. S \cup U = S /\ Sum(U) = 0
    BY SumOfNone
  <2> HIDE DEF Sum
  <2> QED
    BY <2>1, <1>2, <1>3
<1>5. PICK x \in U : TRUE
  BY <1>4
<1> DEFINE rest == U \ {x}
<1>6. rest \in SUBSET T /\ Sum(S \cup rest) = Sum(S) + Sum(rest)
  BY <1>2, <1>5
<1>7. Sum(U) = f[x] + Sum(rest) /\ f[x] \in Nat
  <2>1. U \in SUBSET T
    BY <1>2
  <2>2. IsFiniteSet(U) /\ \A y \in U : f[y] \in Nat /\ f[y] \in Int
    BY <2>1, <1>1
  <2>3. \A y \in U : Sum(U) = f[y] + Sum(U \ {y})
    BY <2>2, SumWithout
  <2> QED
    BY <2>2, <2>3, <1>5
<1>8. Sum(S \cup U) = f[x] + Sum(S \cup rest)
  <2>1. (S \cup U) \ {x} = S \cup rest /\ x \in S \cup U /\ U \in SUBSET T
    BY <1>2, <1>5
  <2>2. \A y \in S \cup U : f[y] \in Int
    BY <2>1
  <2>3. IsFiniteSet(S \cup U)
    BY <1>1, <2>1
  <2>4. Sum(S \cup U) = f[x] + Sum((S \cup U) \ {x})
    <3> HIDE DEF rest
    <3> QED
      BY <2>1, <2>2, <2>3, SumWithout
  <2> QED
    BY <2>1, <2>4
<1>9. Sum(rest) \in Nat /\ Sum(S \cup rest) \in Nat /\ Sum(S \cup U) # Sum(S) + Sum(U)
  BY <1>1, <1>2, <1>6
<1> HIDE DEF rest, Sum, Bad
<1> QED
  BY <1>3, <1>6, <1>7, <1>8, <1>9

(***************************************************************************)
(* RouteOverlap: the options of every segment.                             *)
(***************************************************************************)

\* A list of options ends with the one to leave the segment out.
IsOptionList(list) ==
  /\ Len(list) \in 1 .. MaxCandidates + 1 /\ DOMAIN list = 1 .. Len(list)
  /\ \A o \in 1 .. Len(list) - 1 : list[o].edge \in DriveGraph /\ list[o].cost \in Nat
  /\ list[Len(list)] = [edge |-> OffRoad, cost |-> UnmatchedCost]

\* One list of options for every segment of a drive that has some.
AreOptions(options) ==
  /\ Len(options) \in Nat \ {0} /\ DOMAIN options = 1 .. Len(options)
  /\ \A i \in 1 .. Len(options) : IsOptionList(options[i])

\* The smaller and the greater of two numbers.
LEMMA MinMaxOfTwo ==
  ASSUME NEW a \in Int, NEW b \in Int
  PROVE  /\ Min({a, b}) \in {a, b} /\ Min({a, b}) <= a /\ Min({a, b}) <= b
         /\ Max({a, b}) \in {a, b} /\ Max({a, b}) >= a /\ Max({a, b}) >= b
<1>1. IsFiniteSet({a, b})
  <2>1. IsFiniteSet({a})
    BY FS_Singleton
  <2>2. {a, b} = {a} \cup {b}
    OBVIOUS
  <2> QED
    BY <2>1, <2>2, FS_AddElement
<1>2. {a, b} \in SUBSET Int /\ {a, b} # {}
  OBVIOUS
<1> QED
  BY <1>1, <1>2, LeastOf, GreatestOf

\* A function over the first numbers is a sequence.
LEMMA SequenceOf ==
  ASSUME NEW S, NEW n \in Nat, NEW f, f = [k \in 1 .. n |-> f[k]], \A k \in 1 .. n : f[k] \in S
  PROVE  f \in Seq(S) /\ Len(f) = n
  OBVIOUS

\* What a path is once it is continued by one edge.
LEMMA AppendedTo ==
  ASSUME NEW S, NEW f \in Seq(S), NEW x
  PROVE  /\ Len(f) \in Nat /\ Len(Append(f, x)) = Len(f) + 1
         /\ DOMAIN Append(f, x) = 1 .. Len(f) + 1 /\ Append(f, x)[Len(f) + 1] = x
         /\ \A k \in 1 .. Len(f) : Append(f, x)[k] = f[k] /\ f[k] \in S
  OBVIOUS

\* The nearest edges of a segment each take a place of their own.
LEMMA CandidatesAreEdges ==
  ASSUME NEW segment, IsSegment(segment)
  PROVE  /\ EdgeCandidates(segment) \in Seq([edge : DriveGraph, cost : Nat])
         /\ Len(EdgeCandidates(segment)) <= MaxCandidates
<1> DEFINE Cheaper(n, o) == n.cost < o.cost \/ (n.cost = o.cost /\ n.edge.id < o.edge.id)
           usable == {n \in segment.near : n.metres <= MatchRadius /\ n.turn <= MaxTurn}
           pair == [n \in usable |-> [edge |-> n.edge, cost |-> 36 * n.metres + 7 * n.turn]]
           costed == {[edge |-> n.edge, cost |-> 36 * n.metres + 7 * n.turn] : n \in usable}
           before == {b \in costed \X costed : Cheaper(b[1], b[2])}
           ahead == [n \in costed |-> Cardinality({m \in costed : <<m, n>> \in before})]
           kept == Min({Cardinality(costed), MaxCandidates})
           Placed(k) == CHOOSE n \in costed : Cardinality({m \in costed : <<m, n>> \in before}) + 1 = k
           sorted == [k \in 1 .. kept |-> Placed(k)]
<1>1. IsFiniteSet(costed)
  <2>1. IsFiniteSet(usable)
    BY FS_Subset DEF IsSegment
  <2>2. costed = {pair[n] : n \in usable}
    OBVIOUS
  <2> HIDE DEF usable, pair, costed
  <2> QED
    BY <2>1, <2>2, ValuesOf
<1>2. \A n \in costed : n \in [edge : DriveGraph, cost : Nat] /\ n.edge \in DriveGraph /\ n.cost \in Nat
  BY DEF IsSegment
<1>3. \A n \in costed : n.edge.id \in Nat
  <2> HIDE DEF costed
  <2> QED
    BY <1>2, GraphOfEdges DEF IsDriveGraph
<1>4. \A m, n \in costed : m # n => m.cost # n.cost \/ m.edge.id # n.edge.id
  <2> HIDE DEF costed
  <2> QED
    BY <1>2, GraphOfEdges DEF IsDriveGraph
<1>5. \A m, n \in costed : <<m, n>> \in before <=> Cheaper(m, n)
  <2> HIDE DEF costed
  <2> QED
    OBVIOUS
<1>6. \A k \in 0 .. Cardinality(costed) - 1 : \E n \in costed : ahead[n] = k
  <2>1. \A m, n \in costed : m # n => (<<m, n>> \in before <=> <<n, m>> \notin before)
    <3> HIDE DEF costed, before
    <3> QED
      BY <1>2, <1>3, <1>4, <1>5
  <2>2. \A n \in costed : <<n, n>> \notin before
    <3> HIDE DEF costed, before
    <3> QED
      BY <1>2, <1>3, <1>5
  <2>3. \A l, m, n \in costed : <<l, m>> \in before /\ <<m, n>> \in before => <<l, n>> \in before
    <3> HIDE DEF costed, before
    <3> QED
      BY <1>2, <1>3, <1>5
  <2>4. \A n \in costed : ahead[n] = Cardinality({m \in costed : <<m, n>> \in before})
    OBVIOUS
  <2> HIDE DEF costed, before, ahead
  <2>5. /\ \A k \in 0 .. Cardinality(costed) - 1 : \E n \in costed : ahead[n] = k
        /\ \A n \in costed : ahead[n] \in 0 .. Cardinality(costed) - 1
        /\ \A m, n \in costed : <<m, n>> \in before => ahead[m] < ahead[n]
    BY <1>1, <2>1, <2>2, <2>3, <2>4, EveryPlaceIsTaken
  <2> QED
    BY <2>5
<1>7. kept \in Nat /\ kept <= MaxCandidates /\ kept <= Cardinality(costed) /\ Cardinality(costed) \in Nat
  <2>1. Cardinality(costed) \in Nat
    BY <1>1, FS_CardinalityType
  <2> HIDE DEF costed
  <2>2. kept \in {Cardinality(costed), MaxCandidates} /\ kept <= Cardinality(costed) /\ kept <= MaxCandidates
    BY <2>1, MatchIsBounded, MinMaxOfTwo
  <2> QED
    BY <2>1, <2>2, MatchIsBounded
<1>8. \A k \in 1 .. kept : sorted[k] \in costed
  <2> SUFFICES ASSUME NEW k \in 1 .. kept PROVE sorted[k] \in costed
    OBVIOUS
  <2>1. k - 1 \in 0 .. Cardinality(costed) - 1
    <3> HIDE DEF costed, kept
    <3> QED
      BY <1>7
  <2>2. PICK n \in costed : ahead[n] = k - 1
    <3> HIDE DEF costed, ahead
    <3> QED
      BY <2>1, <1>6
  <2>3. \A m \in costed : Cardinality({l \in costed : <<l, m>> \in before}) \in Nat
    <3> HIDE DEF costed, before
    <3> QED
      BY <1>1, ManyInSubset
  <2>4. Cardinality({m \in costed : <<m, n>> \in before}) + 1 = k
    <3> HIDE DEF costed, before, kept
    <3> QED
      BY <2>2, <2>3, <1>7
  <2> HIDE DEF costed, before, kept
  <2> QED
    BY <2>4
<1>9. EdgeCandidates(segment) = sorted
  BY DEF EdgeCandidates
<1>10. sorted \in Seq([edge : DriveGraph, cost : Nat]) /\ Len(sorted) = kept
  <2>1. \A k \in 1 .. kept : sorted[k] \in [edge : DriveGraph, cost : Nat]
    <3> HIDE DEF costed, sorted, kept
    <3> QED
      BY <1>2, <1>8
  <2>2. sorted = [k \in 1 .. kept |-> sorted[k]]
    <3> HIDE DEF costed, kept, Placed
    <3> QED
      OBVIOUS
  <2> DEFINE Costed == [edge : DriveGraph, cost : Nat]
  <2> HIDE DEF costed, sorted, kept, Costed
  <2>3. \A k \in 1 .. kept : sorted[k] \in Costed
    BY <2>1 DEF Costed
  <2>4. sorted \in Seq(Costed) /\ Len(sorted) = kept
    BY <2>2, <2>3, <1>7, SequenceOf
  <2> QED
    BY <2>4 DEF Costed
<1> HIDE DEF costed, sorted, kept
<1> QED
  BY <1>7, <1>9, <1>10

\* The options of a segment are its nearest edges and to be off the road.
LEMMA OptionsAreListed ==
  ASSUME NEW segments, segments \in Seq(Range(segments)), segments # <<>>,
         \A segment \in Range(segments) : IsSegment(segment)
  PROVE  AreOptions(OptionsOf(segments)) /\ Len(OptionsOf(segments)) = Len(segments)
<1>1. Len(segments) \in Nat \ {0} /\ DOMAIN segments = 1 .. Len(segments)
  OBVIOUS
<1>2. ASSUME NEW i \in 1 .. Len(segments) PROVE IsOptionList(OptionsOf(segments)[i])
  <2>1. IsSegment(segments[i])
    BY <1>1 DEF Range
  <2> DEFINE Costed == [edge : DriveGraph, cost : Nat]
             listed == EdgeCandidates(segments[i])
             off == [edge |-> OffRoad, cost |-> UnmatchedCost]
  <2>2. listed \in Seq(Costed) /\ Len(listed) <= MaxCandidates
    BY <2>1, CandidatesAreEdges
  <2>3. OptionsOf(segments)[i] = Append(listed, off)
    BY <1>1 DEF OptionsOf, Options
  <2> HIDE DEF listed, off
  <2>4. /\ Len(Append(listed, off)) = Len(listed) + 1 /\ DOMAIN Append(listed, off) = 1 .. Len(listed) + 1
        /\ Append(listed, off)[Len(listed) + 1] = off
        /\ \A o \in 1 .. Len(listed) : /\ Append(listed, off)[o] = listed[o]
                                       /\ listed[o].edge \in DriveGraph /\ listed[o].cost \in Nat
    <3>1. /\ Len(listed) \in Nat /\ Len(Append(listed, off)) = Len(listed) + 1
          /\ DOMAIN Append(listed, off) = 1 .. Len(listed) + 1 /\ Append(listed, off)[Len(listed) + 1] = off
          /\ \A o \in 1 .. Len(listed) :
               Append(listed, off)[o] = listed[o] /\ listed[o] \in Costed
      <4> HIDE DEF Costed
      <4> QED
        BY <2>2, AppendedTo
    <3> QED
      BY <3>1
  <2>5. Len(listed) \in Nat /\ Len(listed) + 1 \in 1 .. MaxCandidates + 1 /\ (Len(listed) + 1) - 1 = Len(listed)
    <3> HIDE DEF Costed
    <3> QED
      BY <2>2, MatchIsBounded
  <2> QED
    BY <2>3, <2>4, <2>5 DEF IsOptionList, off
<1>3. Len(OptionsOf(segments)) = Len(segments) /\ DOMAIN OptionsOf(segments) = 1 .. Len(segments)
  BY <1>1 DEF OptionsOf
<1> QED
  BY <1>1, <1>2, <1>3 DEF AreOptions

(***************************************************************************)
(* RouteOverlap: the cheapest path to every option.                        *)
(***************************************************************************)

\* The place that min() answers holds the least of the costs.
LEMMA LeastIsFirst ==
  ASSUME NEW n \in Nat \ {0}, NEW costs, DOMAIN costs = 1 .. n, \A i \in 1 .. n : costs[i] \in Int
  PROVE  Least(costs) \in 1 .. n /\ \A i \in 1 .. n : costs[Least(costs)] <= costs[i]
<1> DEFINE lowest == {i \in 1 .. n : \A j \in 1 .. n : costs[i] <= costs[j]}
<1>1. lowest # {}
  <2>1. 1 \in Int /\ n \in Int /\ 1 .. n # {}
    OBVIOUS
  <2>2. IsFiniteSet(1 .. n)
    BY <2>1, FS_Interval
  <2> QED
    BY <2>1, <2>2, FirstByValue
<1>2. lowest \in SUBSET Nat
  OBVIOUS
<1>3. PICK i \in lowest : \A j \in lowest : i <= j
  <2> HIDE DEF lowest
  <2> QED
    BY <1>1, <1>2, FirstNatural
<1>4. \A j \in 1 .. n : costs[i] < costs[j] \/ (costs[i] = costs[j] /\ i <= j)
  <2> SUFFICES ASSUME NEW j \in 1 .. n PROVE costs[i] < costs[j] \/ (costs[i] = costs[j] /\ i <= j)
    OBVIOUS
  <2>1. costs[i] <= costs[j] /\ costs[i] \in Int /\ costs[j] \in Int
    BY <1>3
  <2>2. CASE costs[i] = costs[j]
    <3>1. j \in lowest
      BY <1>3, <2>2
    <3> QED
      BY <3>1, <1>3, <2>2
  <2> QED
    BY <2>1, <2>2
<1>5. \E k \in 1 .. n : \A j \in 1 .. n : costs[k] < costs[j] \/ (costs[k] = costs[j] /\ k <= j)
  BY <1>3, <1>4
<1>6. /\ Least(costs) \in 1 .. n
      /\ \A j \in 1 .. n : costs[Least(costs)] < costs[j] \/ (costs[Least(costs)] = costs[j] /\ Least(costs) <= j)
  BY <1>5 DEF Least
<1> QED
  BY <1>6

\* The cheapest state is one of the states and costs no more than any.
LEMMA CheapestIsOne ==
  ASSUME NEW n \in Nat \ {0}, NEW states, DOMAIN states = 1 .. n, \A s \in 1 .. n : states[s].cost \in Int
  PROVE  \E s \in 1 .. n : CheapestOf(states) = states[s] /\ \A t \in 1 .. n : states[s].cost <= states[t].cost
<1> DEFINE costs == [s \in DOMAIN states |-> states[s].cost]
<1>1. DOMAIN costs = 1 .. n /\ \A s \in 1 .. n : costs[s] = states[s].cost
  OBVIOUS
<1>2. CheapestOf(states) = states[Least(costs)]
  BY DEF CheapestOf
<1> HIDE DEF costs
<1>3. Least(costs) \in 1 .. n /\ \A i \in 1 .. n : costs[Least(costs)] <= costs[i]
  BY <1>1, LeastIsFirst
<1> QED
  BY <1>1, <1>2, <1>3

\* The states after each segment, up to the last one asked for.
IsProgress(options, last, states) ==
  states = [k \in 1 .. last |->
              IF k = 1 THEN Start(options[1]) ELSE Extend(states[k - 1], options[k])]

\* The loop over the segments can be carried as far as one likes.
LEMMA ProgressExists ==
  ASSUME NEW options, NEW last \in Nat
  PROVE  \E states : IsProgress(options, last, states)
<1> DEFINE Bad == {n \in Nat : ~\E states : IsProgress(options, n, states)}
<1> SUFFICES ASSUME Bad # {} PROVE FALSE
  OBVIOUS
<1>1. PICK n \in Bad : \A m \in Bad : n <= m
  <2>1. Bad \in SUBSET Nat
    OBVIOUS
  <2> HIDE DEF Bad
  <2> QED
    BY <2>1, FirstNatural
<1>2. n # 0
  <2>1. IsProgress(options, 0, [k \in 1 .. 0 |-> 0])
    BY DEF IsProgress
  <2> QED
    BY <2>1, <1>1
<1>3. PICK states : IsProgress(options, n - 1, states)
  BY <1>1, <1>2
<1> DEFINE Turn(k) == IF k = 1 THEN Start(options[1]) ELSE Extend(states[k - 1], options[k])
           longer == [k \in 1 .. n |-> IF k = n THEN Turn(n) ELSE states[k]]
<1>4. IsProgress(options, n, longer)
  <2>1. n \in Nat /\ n - 1 \in Nat
    BY <1>1, <1>2
  <2>2. \A k \in 1 .. n - 1 : states[k] = Turn(k)
    BY <1>3 DEF IsProgress
  <2>3. \A k \in 1 .. n : longer[k] = IF k = 1 THEN Start(options[1]) ELSE Extend(longer[k - 1], options[k])
    <3> SUFFICES ASSUME NEW k \in 1 .. n
                 PROVE  longer[k] = IF k = 1 THEN Start(options[1]) ELSE Extend(longer[k - 1], options[k])
      OBVIOUS
    <3>1. longer[k] = Turn(k)
      <4> HIDE DEF Turn
      <4> QED
        BY <2>1, <2>2
    <3>2. k # 1 => longer[k - 1] = states[k - 1]
      BY <2>1
    <3> HIDE DEF longer
    <3> QED
      BY <3>1, <3>2
  <2> HIDE DEF longer
  <2>4. longer = [k \in 1 .. n |-> longer[k]]
    BY DEF longer
  <2> QED
    BY <2>3, <2>4 DEF IsProgress
<1> QED
  BY <1>1, <1>4

\* What the match answers is the cheapest of the states after the last turn.
LEMMA PathIsFound ==
  ASSUME NEW options, AreOptions(options)
  PROVE  \E states : /\ IsProgress(options, Len(options), states)
                     /\ CheapestPath(options) = CheapestOf(states[Len(options)])
<1>1. Len(options) \in Nat
  BY DEF AreOptions
<1> DEFINE found == CHOOSE states : IsProgress(options, Len(options), states)
<1>2. IsProgress(options, Len(options), found)
  BY <1>1, ProgressExists
<1>3. CheapestPath(options) = CheapestOf(found[Len(options)])
  BY DEF CheapestPath, IsProgress
<1> QED
  BY <1>2, <1>3

\* What a way through the options costs up to one of the segments.
CostUpTo(options, way, k) == SumFunctionOnSet(Terms(options, way), 1 .. k)

\* The edges that a way through the options takes up to a segment.
PathUpTo(options, way, k) == [i \in 1 .. k |-> options[i][way[i]].edge]

\* Every option costs a natural number, and is an edge or to be off the road.
LEMMA OptionsCost ==
  ASSUME NEW options, AreOptions(options), NEW i \in 1 .. Len(options), NEW o \in DOMAIN options[i]
  PROVE  /\ options[i][o].cost \in Nat /\ options[i][o].edge \in DriveGraph \cup {OffRoad}
         /\ o \in 1 .. MaxCandidates + 1 /\ 1 \in DOMAIN options[i] /\ Len(options[i]) \in Nat \ {0}
         /\ DOMAIN options[i] = 1 .. Len(options[i])
<1>1. /\ Len(options[i]) \in 1 .. MaxCandidates + 1 /\ DOMAIN options[i] = 1 .. Len(options[i])
      /\ \A p \in 1 .. Len(options[i]) - 1 : options[i][p].edge \in DriveGraph /\ options[i][p].cost \in Nat
      /\ options[i][Len(options[i])] = [edge |-> OffRoad, cost |-> UnmatchedCost]
  BY DEF AreOptions, IsOptionList
<1>2. CASE o = Len(options[i])
  BY <1>1, <1>2, MatchIsBounded DEF UnmatchedCost
<1>3. CASE o # Len(options[i])
  <2>1. o \in 1 .. Len(options[i]) - 1
    BY <1>1, <1>3
  <2> QED
    BY <1>1, <2>1, MatchIsBounded
<1> QED
  BY <1>2, <1>3

\* A transition costs a natural number, and a jump costs the most.
LEMMA TransitionCosts ==
  ASSUME NEW e, NEW f
  PROVE  /\ TransitionCost(e, f) \in Nat
         /\ (e = OffRoad \/ f = OffRoad => TransitionCost(e, f) = 0)
         /\ (e # OffRoad /\ f # OffRoad /\ ~CanFollow(e, f) => TransitionCost(e, f) = DisconnectedCost)
  BY DEF TransitionCost, CanFollow, ConnectedGapCost, DisconnectedCost

\* What a segment adds to the cost of a way through the options.
LEMMA TermsAreCosts ==
  ASSUME NEW options, AreOptions(options), NEW way \in WaysThrough(options), NEW i \in 1 .. Len(options)
  PROVE  /\ Terms(options, way)[i] = options[i][way[i]].cost
                + (IF i = 1 THEN 0 ELSE TransitionCost(options[i - 1][way[i - 1]].edge, options[i][way[i]].edge))
         /\ Terms(options, way)[i] \in Nat
         /\ way[i] \in DOMAIN options[i]
<1>1. DOMAIN options = 1 .. Len(options)
  BY DEF AreOptions
<1>2. way[i] \in DOMAIN options[i]
  BY <1>1 DEF WaysThrough
<1>3. options[i][way[i]].cost \in Nat
  BY <1>2, OptionsCost
<1>4. Terms(options, way)[i] = options[i][way[i]].cost
         + (IF i = 1 THEN 0 ELSE TransitionCost(options[i - 1][way[i - 1]].edge, options[i][way[i]].edge))
  BY <1>1 DEF Terms
<1> QED
  BY <1>2, <1>3, <1>4, TransitionCosts

\* Up to the first segment a way costs what its first option costs.
LEMMA CostOfOne ==
  ASSUME NEW options, AreOptions(options), NEW way \in WaysThrough(options)
  PROVE  CostUpTo(options, way, 1) = options[1][way[1]].cost
<1>1. 1 \in 1 .. Len(options)
  BY DEF AreOptions
<1>2. Terms(options, way)[1] = options[1][way[1]].cost + 0 /\ Terms(options, way)[1] \in Nat
      /\ options[1][way[1]].cost \in Nat
  BY <1>1, TermsAreCosts, OptionsCost
<1>3. 1 .. 1 = {1} /\ IsFiniteSet({1}) /\ {1} \ {1} = {}
  BY FS_Singleton
<1>4. SumFunctionOnSet(Terms(options, way), {1}) = Terms(options, way)[1] + SumFunctionOnSet(Terms(options, way), {})
  <2>1. \A x \in {1} : Terms(options, way)[x] \in Int
    BY <1>2
  <2>2. \A x \in {1} : SumFunctionOnSet(Terms(options, way), {1})
           = Terms(options, way)[x] + SumFunctionOnSet(Terms(options, way), {1} \ {x})
    BY <2>1, <1>3, SumWithout
  <2> QED
    BY <2>2, <1>3
<1>5. SumFunctionOnSet(Terms(options, way), {}) = 0
  BY SumOfNone
<1> QED
  BY <1>2, <1>3, <1>4, <1>5 DEF CostUpTo

\* The first segments are finitely many.
LEMMA UpToIsFinite ==
  ASSUME NEW k \in Nat
  PROVE  IsFiniteSet(1 .. k)
<1>1. 1 \in Int /\ k \in Int
  OBVIOUS
<1> QED
  BY <1>1, FS_Interval

\* Up to the next segment a way costs what that segment adds.
LEMMA CostOfNext ==
  ASSUME NEW options, AreOptions(options), NEW way \in WaysThrough(options),
         NEW k \in 2 .. Len(options)
  PROVE  /\ CostUpTo(options, way, k) = CostUpTo(options, way, k - 1) + options[k][way[k]].cost
                + TransitionCost(options[k - 1][way[k - 1]].edge, options[k][way[k]].edge)
         /\ CostUpTo(options, way, k - 1) \in Nat
<1> DEFINE terms == Terms(options, way)
<1>1. k \in Nat /\ k - 1 \in Nat /\ k # 1 /\ k \in 1 .. Len(options) /\ (1 .. k) \ {k} = 1 .. k - 1
      /\ k \in 1 .. k /\ Len(options) \in Nat
  BY DEF AreOptions
<1>2. \A i \in 1 .. k : terms[i] \in Nat /\ terms[i] \in Int
  <2>1. \A i \in 1 .. k : i \in 1 .. Len(options)
    BY <1>1
  <2> QED
    BY <2>1, TermsAreCosts
<1>3. terms[k] = options[k][way[k]].cost
         + TransitionCost(options[k - 1][way[k - 1]].edge, options[k][way[k]].edge)
  BY <1>1, TermsAreCosts
<1>4. options[k][way[k]].cost \in Nat
  BY <1>1, TermsAreCosts, OptionsCost
<1>5. TransitionCost(options[k - 1][way[k - 1]].edge, options[k][way[k]].edge) \in Nat
  BY TransitionCosts
<1> HIDE DEF terms
<1>6. SumFunctionOnSet(terms, 1 .. k) = terms[k] + SumFunctionOnSet(terms, 1 .. k - 1)
  <2>1. IsFiniteSet(1 .. k)
    BY <1>1, UpToIsFinite
  <2>2. \A i \in 1 .. k : SumFunctionOnSet(terms, 1 .. k) = terms[i] + SumFunctionOnSet(terms, (1 .. k) \ {i})
    BY <2>1, <1>2, SumWithout
  <2> QED
    BY <2>2, <1>1
<1>7. SumFunctionOnSet(terms, 1 .. k - 1) \in Nat
  <2>1. IsFiniteSet(1 .. k - 1) /\ \A i \in 1 .. k - 1 : terms[i] \in Nat
    BY <1>1, <1>2, UpToIsFinite
  <2> QED
    BY <2>1, SumIsNatural
<1> QED
  BY <1>3, <1>4, <1>5, <1>6, <1>7 DEF CostUpTo, terms

\* Another option for one segment is another way, that costs the same up to
\* the segment before.
LEMMA OtherWay ==
  ASSUME NEW options, AreOptions(options), NEW way \in WaysThrough(options),
         NEW k \in 1 .. Len(options), NEW o \in DOMAIN options[k]
  PROVE  /\ [way EXCEPT ![k] = o] \in WaysThrough(options)
         /\ [way EXCEPT ![k] = o][k] = o
         /\ \A i \in 1 .. Len(options) : i # k => [way EXCEPT ![k] = o][i] = way[i]
<1>1. DOMAIN options = 1 .. Len(options) /\ o \in 1 .. MaxCandidates + 1
  BY OptionsCost DEF AreOptions
<1>2. way \in [DOMAIN options -> 1 .. MaxCandidates + 1] /\ \A i \in DOMAIN options : way[i] \in DOMAIN options[i]
  BY DEF WaysThrough
<1> DEFINE other == [way EXCEPT ![k] = o]
<1>3. /\ other \in [DOMAIN options -> 1 .. MaxCandidates + 1] /\ other[k] = o
      /\ \A i \in DOMAIN options : i # k => other[i] = way[i]
  BY <1>1, <1>2
<1>4. \A i \in DOMAIN options : other[i] \in DOMAIN options[i]
  <2> HIDE DEF other
  <2> QED
    BY <1>1, <1>2, <1>3
<1> HIDE DEF other
<1>5. other \in WaysThrough(options)
  BY <1>3, <1>4 DEF WaysThrough
<1>6. other[k] = o /\ \A i \in 1 .. Len(options) : i # k => other[i] = way[i]
  BY <1>1, <1>3
<1> QED
  BY <1>5, <1>6 DEF other

\* Two ways that take the same options up to a segment cost the same.
LEMMA SameUpTo ==
  ASSUME NEW options, AreOptions(options), NEW way \in WaysThrough(options),
         NEW other \in WaysThrough(options),
         NEW k \in 1 .. Len(options), \A i \in 1 .. k : way[i] = other[i]
  PROVE  /\ CostUpTo(options, way, k) = CostUpTo(options, other, k)
         /\ PathUpTo(options, way, k) = PathUpTo(options, other, k)
<1>1. k \in Nat /\ \A i \in 1 .. k : i \in 1 .. Len(options) /\ (i # 1 => i - 1 \in 1 .. k)
  BY DEF AreOptions
<1>2. \A i \in 1 .. k : Terms(options, way)[i] \in Nat /\ Terms(options, way)[i] = Terms(options, other)[i]
  <2> SUFFICES ASSUME NEW i \in 1 .. k
               PROVE  Terms(options, way)[i] \in Nat /\ Terms(options, way)[i] = Terms(options, other)[i]
    OBVIOUS
  <2>1. i \in 1 .. Len(options) /\ way[i] = other[i] /\ (i # 1 => way[i - 1] = other[i - 1])
    BY <1>1
  <2>2. /\ Terms(options, way)[i] = options[i][way[i]].cost
             + (IF i = 1 THEN 0 ELSE TransitionCost(options[i - 1][way[i - 1]].edge, options[i][way[i]].edge))
        /\ Terms(options, way)[i] \in Nat
    BY <2>1, TermsAreCosts
  <2>3. Terms(options, other)[i] = options[i][other[i]].cost
          + (IF i = 1 THEN 0 ELSE TransitionCost(options[i - 1][other[i - 1]].edge, options[i][other[i]].edge))
    BY <2>1, TermsAreCosts
  <2> QED
    BY <2>1, <2>2, <2>3
<1>3. IsFiniteSet(1 .. k)
  BY <1>1, UpToIsFinite
<1>4. SumFunctionOnSet(Terms(options, way), 1 .. k) = SumFunctionOnSet(Terms(options, other), 1 .. k)
  BY <1>2, <1>3, SumOfSame
<1> QED
  BY <1>4 DEF CostUpTo, PathUpTo

\* Some way takes any option one asks for.
LEMMA SomeWay ==
  ASSUME NEW options, AreOptions(options), NEW k \in 1 .. Len(options), NEW o \in DOMAIN options[k]
  PROVE  \E way \in WaysThrough(options) : way[k] = o
<1> DEFINE first == [i \in DOMAIN options |-> 1]
<1>1. DOMAIN options = 1 .. Len(options)
  BY DEF AreOptions
<1>2. \A i \in DOMAIN options : 1 \in DOMAIN options[i]
  BY <1>1 DEF AreOptions, IsOptionList
<1>3. first \in WaysThrough(options)
  BY <1>1, <1>2, MatchIsBounded DEF WaysThrough
<1> HIDE DEF first
<1>4. /\ [first EXCEPT ![k] = o] \in WaysThrough(options)
      /\ [first EXCEPT ![k] = o][k] = o
  BY <1>3, OtherWay
<1> QED
  BY <1>4

\* The cost of a way is a natural number.
LEMMA CostIsNatural ==
  ASSUME NEW options, AreOptions(options), NEW way \in WaysThrough(options), NEW k \in 1 .. Len(options)
  PROVE  CostUpTo(options, way, k) \in Nat
<1>1. k \in Nat /\ Len(options) \in Nat /\ \A i \in 1 .. k : i \in 1 .. Len(options)
  BY DEF AreOptions
<1>2. \A i \in 1 .. k : Terms(options, way)[i] \in Nat
  BY <1>1, TermsAreCosts
<1>3. IsFiniteSet(1 .. k)
  BY <1>1, UpToIsFinite
<1> QED
  BY <1>2, <1>3, SumIsNatural DEF CostUpTo

\* What holds of the states after a segment: there is one for each of its
\* options, it is a way that ends there, and no such way costs less.
AreCheapest(options, k, states) ==
  /\ DOMAIN states = DOMAIN options[k]
  /\ \A o \in DOMAIN options[k] :
       /\ \E way \in WaysThrough(options) :
            way[k] = o /\ states[o] = [cost |-> CostUpTo(options, way, k), path |-> PathUpTo(options, way, k)]
       /\ \A way \in WaysThrough(options) : way[k] = o => states[o].cost <= CostUpTo(options, way, k)

\* The first segment: every option is its own cheapest path.
LEMMA StartIsCheapest ==
  ASSUME NEW options, AreOptions(options)
  PROVE  AreCheapest(options, 1, Start(options[1]))
<1>1. 1 \in 1 .. Len(options)
  BY DEF AreOptions
<1>2. DOMAIN Start(options[1]) = DOMAIN options[1]
  BY DEF Start
<1>3. ASSUME NEW o \in DOMAIN options[1]
      PROVE  Start(options[1])[o] = [cost |-> options[1][o].cost, path |-> <<options[1][o].edge>>]
  BY <1>3 DEF Start
<1>4. ASSUME NEW way \in WaysThrough(options), NEW o \in DOMAIN options[1], way[1] = o
      PROVE  CostUpTo(options, way, 1) = options[1][o].cost /\ PathUpTo(options, way, 1) = <<options[1][o].edge>>
  <2>1. CostUpTo(options, way, 1) = options[1][o].cost
    BY <1>4, CostOfOne
  <2>2. PathUpTo(options, way, 1) = [i \in 1 .. 1 |-> options[1][o].edge]
    BY <1>4 DEF PathUpTo
  <2> QED
    BY <2>1, <2>2
<1>5. ASSUME NEW o \in DOMAIN options[1]
      PROVE  \E way \in WaysThrough(options) : way[1] = o
               /\ Start(options[1])[o] = [cost |-> CostUpTo(options, way, 1), path |-> PathUpTo(options, way, 1)]
  <2>1. PICK way \in WaysThrough(options) : way[1] = o
    BY <1>1, SomeWay
  <2>2. CostUpTo(options, way, 1) = options[1][o].cost /\ PathUpTo(options, way, 1) = <<options[1][o].edge>>
    BY <2>1, <1>4
  <2> QED
    BY <2>1, <2>2, <1>3
<1>6. ASSUME NEW o \in DOMAIN options[1], NEW way \in WaysThrough(options), way[1] = o
      PROVE  Start(options[1])[o].cost <= CostUpTo(options, way, 1)
  <2>1. options[1][o].cost \in Nat
    BY <1>1, OptionsCost
  <2>2. Start(options[1])[o].cost = options[1][o].cost
    BY DEF Start
  <2>3. CostUpTo(options, way, 1) = options[1][o].cost
    BY <1>4, <1>6
  <2> QED
    BY <2>1, <2>2, <2>3
<1> QED
  BY <1>2, <1>5, <1>6 DEF AreCheapest

\* A way that is continued by one option.
LEMMA StepContinues ==
  ASSUME NEW options, AreOptions(options), NEW k \in 2 .. Len(options),
         NEW way \in WaysThrough(options), NEW o \in DOMAIN options[k], way[k] = o
  PROVE  Step([cost |-> CostUpTo(options, way, k - 1), path |-> PathUpTo(options, way, k - 1)], options[k][o])
           = [cost |-> CostUpTo(options, way, k), path |-> PathUpTo(options, way, k)]
<1> DEFINE edges == [i \in 1 .. k - 1 |-> options[i][way[i]].edge]
<1>1. k \in Nat /\ k - 1 \in Nat /\ k - 1 \in 1 .. k - 1
  OBVIOUS
<1>2. Len(edges) = k - 1 /\ edges[k - 1] = options[k - 1][way[k - 1]].edge
  BY <1>1
<1>3. Append(edges, options[k][o].edge) = PathUpTo(options, way, k)
  <2>1. \A i \in 1 .. k : i # k => i \in 1 .. k - 1
    BY <1>1
  <2> DEFINE S == {options[i][way[i]].edge : i \in 1 .. k}
  <2>2. \A i \in 1 .. k - 1 : edges[i] \in S
    BY <1>1
  <2>3. edges = [i \in 1 .. k - 1 |-> edges[i]]
    OBVIOUS
  <2> HIDE DEF edges, S
  <2>4. edges \in Seq(S)
    BY <2>2, <2>3, <1>1, SequenceOf
  <2>5. Append(edges, options[k][o].edge) = [i \in 1 .. k |-> IF i = k THEN options[k][o].edge ELSE edges[i]]
    BY <1>1, <1>2, <2>4
  <2>6. \A i \in 1 .. k : (IF i = k THEN options[k][o].edge ELSE edges[i]) = options[i][way[i]].edge
    BY <2>1 DEF edges
  <2> QED
    BY <2>5, <2>6 DEF PathUpTo
<1>4. Last(edges) = options[k - 1][way[k - 1]].edge
  BY <1>2 DEF Last
<1>5. CostUpTo(options, way, k) = CostUpTo(options, way, k - 1) + options[k][o].cost
         + TransitionCost(options[k - 1][way[k - 1]].edge, options[k][o].edge)
  BY CostOfNext
<1>6. PathUpTo(options, way, k - 1) = edges
  BY DEF PathUpTo
<1> HIDE DEF edges
<1> QED
  BY <1>3, <1>4, <1>5, <1>6 DEF Step

\* One turn of the loop: if every option of a segment is reached at the least
\* cost, so is every option of the next one.
LEMMA ExtendIsCheapest ==
  ASSUME NEW options, AreOptions(options), NEW k \in 2 .. Len(options),
         NEW states, AreCheapest(options, k - 1, states)
  PROVE  AreCheapest(options, k, Extend(states, options[k]))
<1>1. k \in 1 .. Len(options) /\ k - 1 \in 1 .. Len(options) /\ k - 1 \in Nat /\ Len(options) \in Nat
  BY DEF AreOptions
<1>2. /\ DOMAIN states = 1 .. Len(options[k - 1]) /\ DOMAIN options[k - 1] = 1 .. Len(options[k - 1])
      /\ Len(options[k - 1]) \in Nat \ {0}
  BY <1>1, MatchIsBounded DEF AreOptions, IsOptionList, AreCheapest
<1> DEFINE Steps(o) == [s \in DOMAIN states |-> Step(states[s], options[k][o])]
<1>3. /\ DOMAIN Extend(states, options[k]) = DOMAIN options[k]
      /\ \A o \in DOMAIN options[k] : Extend(states, options[k])[o] = CheapestOf(Steps(o))
  BY DEF Extend
<1>4. ASSUME NEW s \in DOMAIN options[k - 1], NEW o \in DOMAIN options[k]
      PROVE  \E way \in WaysThrough(options) : way[k - 1] = s /\ way[k] = o
               /\ Steps(o)[s] = [cost |-> CostUpTo(options, way, k), path |-> PathUpTo(options, way, k)]
  <2>1. PICK prior \in WaysThrough(options) : /\ prior[k - 1] = s
          /\ states[s] = [cost |-> CostUpTo(options, prior, k - 1), path |-> PathUpTo(options, prior, k - 1)]
    BY DEF AreCheapest
  <2> DEFINE way == [prior EXCEPT ![k] = o]
  <2>2. /\ way \in WaysThrough(options) /\ way[k] = o
        /\ \A i \in 1 .. Len(options) : i # k => way[i] = prior[i]
    BY <1>1, <2>1, OtherWay
  <2> HIDE DEF way
  <2>3. \A i \in 1 .. k - 1 : way[i] = prior[i]
    BY <2>2, <1>1
  <2>4. /\ CostUpTo(options, way, k - 1) = CostUpTo(options, prior, k - 1)
        /\ PathUpTo(options, way, k - 1) = PathUpTo(options, prior, k - 1)
    BY <1>1, <2>1, <2>2, <2>3, SameUpTo
  <2>5. Steps(o)[s] = Step(states[s], options[k][o])
    BY <1>2
  <2>6. way[k - 1] = s
    BY <2>1, <2>3, <1>1
  <2> QED
    BY <2>1, <2>2, <2>4, <2>5, <2>6, StepContinues
<1>5. ASSUME NEW way \in WaysThrough(options), NEW o \in DOMAIN options[k], way[k] = o
      PROVE  /\ way[k - 1] \in DOMAIN options[k - 1]
             /\ Steps(o)[way[k - 1]].cost <= CostUpTo(options, way, k)
  <2> DEFINE s == way[k - 1]
  <2>1. s \in DOMAIN options[k - 1]
    BY <1>1, TermsAreCosts
  <2>2. PICK other \in WaysThrough(options) : other[k - 1] = s /\ other[k] = o
               /\ Steps(o)[s] = [cost |-> CostUpTo(options, other, k), path |-> PathUpTo(options, other, k)]
    <3> HIDE DEF s, Steps
    <3> QED
      BY <2>1, <1>4
  <2>3. PICK prior \in WaysThrough(options) : /\ prior[k - 1] = s
          /\ states[s] = [cost |-> CostUpTo(options, prior, k - 1), path |-> PathUpTo(options, prior, k - 1)]
    BY <2>1 DEF AreCheapest
  <2>4. states[s].cost <= CostUpTo(options, way, k - 1)
    BY <2>1 DEF AreCheapest
  <2> DEFINE onto == TransitionCost(options[k - 1][s].edge, options[k][o].edge)
  <2>5. CostUpTo(options, way, k) = CostUpTo(options, way, k - 1) + options[k][o].cost + onto
        /\ CostUpTo(options, way, k - 1) \in Nat
    BY <1>5, CostOfNext
  <2>6. Steps(o)[s].cost = states[s].cost + options[k][o].cost + onto /\ states[s].cost \in Nat
    <3>1. Steps(o)[s] = Step(states[s], options[k][o])
      BY <1>2, <2>1
    <3>2. Step(states[s], options[k][o]).cost = states[s].cost + options[k][o].cost
              + TransitionCost(Last(states[s].path), options[k][o].edge)
      BY DEF Step
    <3>3. Last(states[s].path) = options[k - 1][s].edge
      <4>1. states[s].path = [i \in 1 .. k - 1 |-> options[i][prior[i]].edge]
        BY <2>3 DEF PathUpTo
      <4>2. Len(states[s].path) = k - 1 /\ k - 1 \in 1 .. k - 1
        BY <4>1, <1>1
      <4> QED
        BY <4>1, <4>2, <2>3 DEF Last
    <3>4. CostUpTo(options, prior, k - 1) \in Nat
      BY <2>3, CostOfNext
    <3> QED
      BY <3>1, <3>2, <3>3, <3>4, <2>3
  <2>7. options[k][o].cost \in Nat /\ onto \in Nat
    BY <1>1, OptionsCost, TransitionCosts
  <2> HIDE DEF s, onto, Steps
  <2>8. Steps(o)[s].cost <= CostUpTo(options, way, k)
    BY <2>4, <2>5, <2>6, <2>7
  <2> QED
    BY <2>1, <2>8 DEF s
<1>6. ASSUME NEW o \in DOMAIN options[k]
      PROVE  \E s \in DOMAIN options[k - 1] :
               /\ Extend(states, options[k])[o] = Steps(o)[s] /\ Steps(o)[s].cost \in Int
               /\ \A t \in DOMAIN options[k - 1] : Steps(o)[t].cost \in Int /\ Steps(o)[s].cost <= Steps(o)[t].cost
  <2>1. \A s \in DOMAIN options[k - 1] : Steps(o)[s].cost \in Int
    <3> SUFFICES ASSUME NEW s \in DOMAIN options[k - 1] PROVE Steps(o)[s].cost \in Int
      OBVIOUS
    <3>1. PICK way \in WaysThrough(options) : way[k - 1] = s /\ way[k] = o
               /\ Steps(o)[s] = [cost |-> CostUpTo(options, way, k), path |-> PathUpTo(options, way, k)]
      BY <1>4
    <3>2. CostUpTo(options, way, k) \in Nat
      BY <1>1, CostIsNatural
    <3> HIDE DEF Steps
    <3> QED
      BY <3>1, <3>2
  <2>2. DOMAIN Steps(o) = 1 .. Len(options[k - 1])
    BY <1>2
  <2>3. Extend(states, options[k])[o] = CheapestOf(Steps(o))
    BY <1>3
  <2> HIDE DEF Steps
  <2> QED
    BY <2>1, <2>2, <2>3, <1>2, CheapestIsOne
<1> HIDE DEF Steps
<1>7. ASSUME NEW o \in DOMAIN options[k]
      PROVE  \E way \in WaysThrough(options) : way[k] = o
        /\ Extend(states, options[k])[o] = [cost |-> CostUpTo(options, way, k), path |-> PathUpTo(options, way, k)]
  BY <1>4, <1>6
<1>8. ASSUME NEW o \in DOMAIN options[k], NEW way \in WaysThrough(options), way[k] = o
      PROVE  Extend(states, options[k])[o].cost <= CostUpTo(options, way, k)
  <2>1. way[k - 1] \in DOMAIN options[k - 1] /\ Steps(o)[way[k - 1]].cost <= CostUpTo(options, way, k)
    BY <1>5, <1>8
  <2>2. PICK s \in DOMAIN options[k - 1] :
          /\ Extend(states, options[k])[o] = Steps(o)[s] /\ Steps(o)[s].cost \in Int
          /\ \A t \in DOMAIN options[k - 1] : Steps(o)[t].cost \in Int /\ Steps(o)[s].cost <= Steps(o)[t].cost
    BY <1>6
  <2>3. CostUpTo(options, way, k) \in Nat
    BY <1>1, CostIsNatural
  <2> QED
    BY <2>1, <2>2, <2>3
<1> QED
  BY <1>3, <1>7, <1>8 DEF AreCheapest

\* Every turn of the loop leaves the cheapest path to every option.
LEMMA EveryStateIsCheapest ==
  ASSUME NEW options, AreOptions(options), NEW states, IsProgress(options, Len(options), states)
  PROVE  AreCheapest(options, Len(options), states[Len(options)])
<1> DEFINE Bad == {k \in 1 .. Len(options) : ~AreCheapest(options, k, states[k])}
<1>1. Len(options) \in Nat \ {0} /\ Len(options) \in 1 .. Len(options)
  BY DEF AreOptions
<1> SUFFICES ASSUME Bad # {} PROVE FALSE
  BY <1>1
<1>2. PICK k \in Bad : \A l \in Bad : k <= l
  <2>1. Bad \in SUBSET Nat
    BY <1>1
  <2> HIDE DEF Bad
  <2> QED
    BY <2>1, FirstNatural
<1>3. k \in 1 .. Len(options) /\ ~AreCheapest(options, k, states[k])
  BY <1>2
<1>4. states[k] = IF k = 1 THEN Start(options[1]) ELSE Extend(states[k - 1], options[k])
  BY <1>3 DEF IsProgress
<1>5. CASE k = 1
  BY <1>3, <1>4, <1>5, StartIsCheapest
<1>6. CASE k # 1
  <2>1. k \in 2 .. Len(options) /\ k - 1 \in 1 .. Len(options) /\ ~(k <= k - 1)
    BY <1>1, <1>3, <1>6
  <2>2. AreCheapest(options, k - 1, states[k - 1])
    BY <2>1, <1>2
  <2> HIDE DEF Bad
  <2> QED
    BY <2>1, <2>2, <1>3, <1>4, <1>6, ExtendIsCheapest
<1> QED
  BY <1>5, <1>6

\* The path that is found is one of the ways, and none of them costs less.
LEMMA PathIsCheapest ==
  ASSUME NEW options, AreOptions(options)
  PROVE  \E way \in WaysThrough(options) :
           /\ CheapestPath(options) = [cost |-> PathCost(options, way), path |-> PathUpTo(options, way, Len(options))]
           /\ PathCost(options, way) \in Nat
           /\ \A other \in WaysThrough(options) :
                PathCost(options, other) \in Nat /\ PathCost(options, way) <= PathCost(options, other)
<1> DEFINE n == Len(options)
<1>1. n \in Nat \ {0} /\ n \in 1 .. n /\ DOMAIN options = 1 .. n
  BY DEF AreOptions
<1>2. DOMAIN options[n] = 1 .. Len(options[n]) /\ Len(options[n]) \in Nat \ {0}
  BY <1>1, MatchIsBounded DEF AreOptions, IsOptionList
<1>3. \A way \in WaysThrough(options) : /\ PathCost(options, way) = CostUpTo(options, way, n)
                                        /\ CostUpTo(options, way, n) \in Nat
                                        /\ way[n] \in DOMAIN options[n]
  <2>1. \A way : PathCost(options, way) = CostUpTo(options, way, n)
    BY <1>1 DEF PathCost, CostUpTo
  <2>2. \A way \in WaysThrough(options) : CostUpTo(options, way, n) \in Nat /\ way[n] \in DOMAIN options[n]
    BY <1>1, CostIsNatural, TermsAreCosts
  <2> QED
    BY <2>1, <2>2
<1>4. PICK states : /\ IsProgress(options, n, states)
                    /\ CheapestPath(options) = CheapestOf(states[n])
  BY PathIsFound
<1>5. AreCheapest(options, n, states[n])
  BY <1>4, EveryStateIsCheapest
<1> HIDE DEF n
<1>6. ASSUME NEW o \in DOMAIN options[n] PROVE states[n][o].cost \in Int
  <2>1. PICK way \in WaysThrough(options) :
          states[n][o] = [cost |-> CostUpTo(options, way, n), path |-> PathUpTo(options, way, n)]
    BY <1>5 DEF AreCheapest
  <2>2. states[n][o].cost = CostUpTo(options, way, n)
    BY <2>1
  <2> QED
    BY <2>2, <1>3
<1>7. PICK o \in 1 .. Len(options[n]) : /\ CheapestOf(states[n]) = states[n][o]
                                        /\ \A p \in 1 .. Len(options[n]) : states[n][o].cost <= states[n][p].cost
  <2>1. DOMAIN states[n] = 1 .. Len(options[n])
    BY <1>2, <1>5 DEF AreCheapest
  <2> QED
    BY <2>1, <1>2, <1>6, CheapestIsOne
<1>8. PICK way \in WaysThrough(options) :
        states[n][o] = [cost |-> CostUpTo(options, way, n), path |-> PathUpTo(options, way, n)]
  BY <1>2, <1>5, <1>7 DEF AreCheapest
<1>9. ASSUME NEW other \in WaysThrough(options) PROVE CostUpTo(options, way, n) <= CostUpTo(options, other, n)
  <2>1. other[n] \in 1 .. Len(options[n])
    BY <1>2, <1>3
  <2>2. states[n][other[n]].cost <= CostUpTo(options, other, n) /\ states[n][other[n]].cost \in Int
    BY <2>1, <1>2, <1>5, <1>6 DEF AreCheapest
  <2>3. states[n][o].cost <= states[n][other[n]].cost
    BY <2>1, <1>7
  <2>4. states[n][o].cost = CostUpTo(options, way, n)
    BY <1>8
  <2> QED
    BY <2>2, <2>3, <2>4, <1>3
<1> QED
  BY <1>3, <1>4, <1>7, <1>8, <1>9 DEF n

\* An edge is not an option to leave the segment out.
LEMMA EdgesAreOnRoad ==
  ASSUME NEW e \in DriveGraph
  PROVE  e # OffRoad /\ e.metres \in Nat
<1>1. e.id # 0 /\ e.metres \in Nat
  BY GraphOfEdges DEF IsDriveGraph
<1>2. OffRoad.id = 0
  BY DEF OffRoad
<1> QED
  BY <1>1, <1>2

\* Where the path jumps it would cost less to leave the segment out.
LEMMA NoJumps ==
  ASSUME NEW options, AreOptions(options), NEW way \in WaysThrough(options),
         \A other \in WaysThrough(options) : PathCost(options, way) <= PathCost(options, other),
         NEW i \in 2 .. Len(options),
         options[i - 1][way[i - 1]].edge # OffRoad, options[i][way[i]].edge # OffRoad
  PROVE  CanFollow(options[i - 1][way[i - 1]].edge, options[i][way[i]].edge)
<1> DEFINE n == Len(options)
<1>1. n \in Nat \ {0} /\ DOMAIN options = 1 .. n /\ i \in 1 .. n /\ i - 1 \in 1 .. n /\ i - 1 # i /\ i # 1
  BY DEF AreOptions
<1> SUFFICES ASSUME ~CanFollow(options[i - 1][way[i - 1]].edge, options[i][way[i]].edge) PROVE FALSE
  OBVIOUS
<1> DEFINE o == Len(options[i])
           other == [way EXCEPT ![i] = o]
           dear == Terms(options, way)
           cheap == Terms(options, other)
<1>2. o \in DOMAIN options[i] /\ options[i][o] = [edge |-> OffRoad, cost |-> UnmatchedCost]
  BY <1>1, MatchIsBounded DEF AreOptions, IsOptionList
<1>3. other \in WaysThrough(options) /\ other[i] = o /\ \A j \in 1 .. n : j # i => other[j] = way[j]
  BY <1>1, <1>2, OtherWay
<1> HIDE DEF other, o
<1>4. dear[i] \in Nat /\ dear[i] >= DisconnectedCost
  <2>1. dear[i] = options[i][way[i]].cost + TransitionCost(options[i - 1][way[i - 1]].edge, options[i][way[i]].edge)
    BY <1>1, TermsAreCosts
  <2>2. options[i][way[i]].cost \in Nat
    BY <1>1, TermsAreCosts, OptionsCost
  <2>3. TransitionCost(options[i - 1][way[i - 1]].edge, options[i][way[i]].edge) = DisconnectedCost
    BY TransitionCosts
  <2> HIDE DEF dear
  <2> QED
    BY <2>1, <2>2, <2>3 DEF DisconnectedCost
<1>5. cheap[i] = UnmatchedCost
  <2>1. cheap[i] = options[i][other[i]].cost
                    + TransitionCost(options[i - 1][other[i - 1]].edge, options[i][other[i]].edge)
    BY <1>1, <1>3, TermsAreCosts
  <2>2. options[i][other[i]].cost = UnmatchedCost /\ options[i][other[i]].edge = OffRoad
    BY <1>2, <1>3
  <2>3. TransitionCost(options[i - 1][other[i - 1]].edge, options[i][other[i]].edge) = 0
    BY <2>2, TransitionCosts
  <2> HIDE DEF cheap
  <2> QED
    BY <2>1, <2>2, <2>3 DEF UnmatchedCost
<1>6. ASSUME NEW j \in (1 .. n) \ {i} PROVE cheap[j] \in Nat /\ dear[j] \in Nat /\ cheap[j] <= dear[j]
  <2>1. /\ dear[j] = options[j][way[j]].cost
             + (IF j = 1 THEN 0 ELSE TransitionCost(options[j - 1][way[j - 1]].edge, options[j][way[j]].edge))
        /\ dear[j] \in Nat
    BY TermsAreCosts
  <2>2. /\ cheap[j] = options[j][other[j]].cost
             + (IF j = 1 THEN 0 ELSE TransitionCost(options[j - 1][other[j - 1]].edge, options[j][other[j]].edge))
        /\ cheap[j] \in Nat
    BY <1>3, TermsAreCosts
  <2>3. other[j] = way[j]
    BY <1>3
  <2> HIDE DEF dear, cheap
  <2>4. CASE j = 1
    BY <2>1, <2>2, <2>3, <2>4
  <2>5. CASE j # 1 /\ j - 1 # i
    <3>1. other[j - 1] = way[j - 1]
      BY <1>1, <1>3, <2>5
    <3> QED
      BY <3>1, <2>1, <2>2, <2>3, <2>5
  <2>6. CASE j # 1 /\ j - 1 = i
    <3>1. options[j - 1][other[j - 1]].edge = OffRoad
      BY <1>2, <1>3, <2>6
    <3>2. TransitionCost(options[j - 1][other[j - 1]].edge, options[j][other[j]].edge) = 0
      BY <3>1, TransitionCosts
    <3>3. TransitionCost(options[j - 1][way[j - 1]].edge, options[j][way[j]].edge) \in Nat
      BY TransitionCosts
    <3>4. options[j][way[j]].cost \in Nat
      BY TermsAreCosts, OptionsCost
    <3> QED
      BY <3>2, <3>3, <3>4, <2>1, <2>2, <2>3, <2>6
  <2> QED
    BY <2>4, <2>5, <2>6
<1> HIDE DEF dear, cheap
<1>7. IsFiniteSet(1 .. n) /\ IsFiniteSet((1 .. n) \ {i})
  <2>1. IsFiniteSet(1 .. n) /\ (1 .. n) \ {i} \subseteq 1 .. n
    BY <1>1, UpToIsFinite
  <2> QED
    BY <2>1, FS_Subset
<1> DEFINE rest == (1 .. n) \ {i}
<1>8. SumFunctionOnSet(cheap, rest) <= SumFunctionOnSet(dear, rest)
  BY <1>6, <1>7, SumGrows
<1>9. SumFunctionOnSet(cheap, rest) \in Nat /\ SumFunctionOnSet(dear, rest) \in Nat
  BY <1>6, <1>7, SumIsNatural
<1>10. SumFunctionOnSet(dear, 1 .. n) = dear[i] + SumFunctionOnSet(dear, rest)
  <2>1. \A j \in 1 .. n : dear[j] \in Int
    BY <1>4, <1>6
  <2> QED
    BY <2>1, <1>1, <1>7, SumWithout
<1>11. SumFunctionOnSet(cheap, 1 .. n) = cheap[i] + SumFunctionOnSet(cheap, rest)
  <2>1. \A j \in 1 .. n : cheap[j] \in Int
    BY <1>5, <1>6 DEF UnmatchedCost
  <2> QED
    BY <2>1, <1>1, <1>7, SumWithout
<1>12. SumFunctionOnSet(dear, 1 .. n) <= SumFunctionOnSet(cheap, 1 .. n)
  BY <1>1, <1>3 DEF PathCost, dear, cheap
<1> HIDE DEF rest, n
<1> QED
  BY <1>4, <1>5, <1>8, <1>9, <1>10, <1>11, <1>12 DEF DisconnectedCost, UnmatchedCost

(***************************************************************************)
(* RouteOverlap: the match of a drive.                                     *)
(***************************************************************************)

\* The lengths of the segments of a drive.
LEMMA LengthsAreSums ==
  ASSUME NEW segments, segments \in Seq(Range(segments)),
         \A segment \in Range(segments) : IsSegment(segment)
  PROVE  /\ IsFiniteSet(DOMAIN segments)
         /\ \A i \in DOMAIN segments : segments[i].metres \in Nat \ {0}
         /\ \A S \in SUBSET DOMAIN segments :
              /\ IsFiniteSet(S)
              /\ LengthOf(segments, S) = SumFunctionOnSet([i \in DOMAIN segments |-> segments[i].metres], S)
              /\ LengthOf(segments, S) \in Nat
<1>1. Len(segments) \in Nat /\ DOMAIN segments = 1 .. Len(segments)
  OBVIOUS
<1>2. IsFiniteSet(DOMAIN segments)
  BY <1>1, UpToIsFinite
<1>3. \A i \in DOMAIN segments : segments[i].metres \in Nat \ {0}
  BY DEF Range, IsSegment
<1>4. ASSUME NEW S \in SUBSET DOMAIN segments
      PROVE  /\ IsFiniteSet(S)
             /\ LengthOf(segments, S) = SumFunctionOnSet([i \in DOMAIN segments |-> segments[i].metres], S)
             /\ LengthOf(segments, S) \in Nat
  <2> DEFINE some == [i \in S |-> segments[i].metres]
             all == [i \in DOMAIN segments |-> segments[i].metres]
  <2>1. IsFiniteSet(S)
    BY <1>2, FS_Subset
  <2>2. \A i \in S : some[i] \in Nat /\ some[i] = all[i]
    BY <1>3
  <2>3. LengthOf(segments, S) = SumFunctionOnSet(some, S)
    BY DEF LengthOf
  <2> HIDE DEF some, all
  <2>4. SumFunctionOnSet(some, S) = SumFunctionOnSet(all, S) /\ SumFunctionOnSet(some, S) \in Nat
    BY <2>1, <2>2, SumOfSame, SumIsNatural
  <2> QED
    BY <2>1, <2>3, <2>4 DEF all
<1> QED
  BY <1>2, <1>3, <1>4

\* A match gives every edge its share, and counts what it shares as matched.
IsMatch(m) ==
  /\ IsFiniteSet(DOMAIN m.shares) /\ \A e \in DOMAIN m.shares : m.shares[e] \in Nat
  /\ m.matched = SumFunctionOnSet(m.shares, DOMAIN m.shares)

\* What is shared of the edges is no more than what is driven on them.
LEMMA SharesAreDriven ==
  ASSUME NEW segments, segments \in Seq(Range(segments)),
         \A segment \in Range(segments) : IsSegment(segment),
         NEW path, DOMAIN path = DOMAIN segments,
         \A i \in DOMAIN path : path[i] \in DriveGraph \cup {OffRoad}
  PROVE  /\ IsFiniteSet(DOMAIN Shares(segments, path))
         /\ \A e \in DOMAIN Shares(segments, path) :
              Shares(segments, path)[e] \in Nat /\ Shares(segments, path)[e] <= e.metres
         /\ SumFunctionOnSet(Shares(segments, path), DOMAIN Shares(segments, path))
              <= LengthOf(segments, {i \in DOMAIN path : path[i] # OffRoad})
<1> DEFINE edges == Range(path) \ {OffRoad}
           On(e) == {i \in DOMAIN path : path[i] = e}
           Within(F) == {i \in DOMAIN path : path[i] \in F}
           shares == Shares(segments, path)
           lens == [i \in DOMAIN segments |-> segments[i].metres]
<1>1. DOMAIN shares = edges /\ \A e \in edges : shares[e] = Min({e.metres, LengthOf(segments, On(e))})
  BY DEF Shares
<1>2. IsFiniteSet(edges)
  <2>1. Range(path) = {path[i] : i \in DOMAIN path}
    BY DEF Range
  <2>2. IsFiniteSet(Range(path))
    BY <2>1, LengthsAreSums, ValuesOf
  <2> QED
    BY <2>2, FS_Subset
<1>3. \A e \in edges : e \in DriveGraph
  BY DEF Range
<1>4. \A S \in SUBSET DOMAIN segments :
        IsFiniteSet(S) /\ LengthOf(segments, S) = SumFunctionOnSet(lens, S) /\ LengthOf(segments, S) \in Nat
  BY LengthsAreSums
<1>5. \A i \in DOMAIN segments : lens[i] \in Nat
  BY LengthsAreSums
<1>6. \A e : On(e) \in SUBSET DOMAIN segments
  OBVIOUS
<1>7. \A F : Within(F) \in SUBSET DOMAIN segments
  OBVIOUS
<1> HIDE DEF shares, lens
<1>8. ASSUME NEW e \in edges
      PROVE  shares[e] \in Nat /\ shares[e] <= e.metres /\ shares[e] <= SumFunctionOnSet(lens, On(e))
  <2>1. e.metres \in Nat
    BY <1>3, EdgesAreOnRoad
  <2>2. LengthOf(segments, On(e)) \in Nat /\ LengthOf(segments, On(e)) = SumFunctionOnSet(lens, On(e))
    BY <1>4, <1>6
  <2>3. shares[e] = Min({e.metres, LengthOf(segments, On(e))})
    BY <1>1
  <2> DEFINE driven == LengthOf(segments, On(e))
             length == e.metres
  <2>4. length \in Nat /\ driven \in Nat /\ shares[e] = Min({length, driven})
    BY <2>1, <2>2, <2>3
  <2> HIDE DEF driven, length
  <2>5. shares[e] \in {length, driven} /\ shares[e] <= length /\ shares[e] <= driven
    <3>1. length \in Int /\ driven \in Int
      BY <2>4
    <3>2. /\ Min({length, driven}) \in {length, driven}
          /\ Min({length, driven}) <= length /\ Min({length, driven}) <= driven
      BY <3>1, MinMaxOfTwo
    <3> QED
      BY <3>2, <2>4
  <2>6. shares[e] \in Nat /\ shares[e] <= length /\ shares[e] <= driven
    BY <2>4, <2>5
  <2> HIDE DEF edges, On
  <2> QED
    BY <2>2, <2>6 DEF driven, length
<1> DEFINE Bad == {F \in SUBSET edges : ~(SumFunctionOnSet(shares, F) <= SumFunctionOnSet(lens, Within(F)))}
<1>9. Bad = {}
  <2> SUFFICES ASSUME Bad # {} PROVE FALSE
    OBVIOUS
  <2>1. \A F \in SUBSET edges : IsFiniteSet(F)
    BY <1>2, FS_Subset
  <2>2. PICK F \in Bad : \A e \in F : F \ {e} \notin Bad
    <3>1. \A F \in Bad : IsFiniteSet(F)
      BY <2>1
    <3> HIDE DEF Bad
    <3> QED
      BY <3>1, SmallestOf
  <2>3. F \in SUBSET edges /\ IsFiniteSet(F)
    BY <2>1, <2>2
  <2>4. F # {}
    <3> SUFFICES ASSUME F = {} PROVE FALSE
      OBVIOUS
    <3>1. Within(F) = {}
      OBVIOUS
    <3>2. SumFunctionOnSet(shares, F) = 0 /\ SumFunctionOnSet(lens, Within(F)) = 0
      BY <3>1, SumOfNone
    <3> HIDE DEF Within
    <3> QED
      BY <3>2, <2>2
  <2>5. PICK e \in F : TRUE
    BY <2>4
  <2> DEFINE rest == F \ {e}
  <2>6. rest \in SUBSET edges /\ SumFunctionOnSet(shares, rest) <= SumFunctionOnSet(lens, Within(rest))
    BY <2>2, <2>5
  <2>7. SumFunctionOnSet(shares, F) = shares[e] + SumFunctionOnSet(shares, rest)
    <3>1. \A x \in F : shares[x] \in Int
      <4>1. F \subseteq edges
        BY <2>3
      <4>2. \A x \in edges : shares[x] \in Int
        <5> HIDE DEF edges, On
        <5> QED
          BY <1>8
      <4> QED
        BY <4>1, <4>2
    <3>2. \A x \in F : SumFunctionOnSet(shares, F) = shares[x] + SumFunctionOnSet(shares, F \ {x})
      BY <3>1, <2>3, SumWithout
    <3> QED
      BY <3>2, <2>5
  <2>8. SumFunctionOnSet(shares, rest) \in Nat
    <3>1. IsFiniteSet(rest) /\ \A x \in rest : shares[x] \in Nat
      BY <1>8, <2>1, <2>6
    <3> QED
      BY <3>1, SumIsNatural
  <2>9. SumFunctionOnSet(lens, Within(F)) = SumFunctionOnSet(lens, Within(rest)) + SumFunctionOnSet(lens, On(e))
    <3>1. Within(F) = Within(rest) \cup On(e) /\ Within(rest) \cap On(e) = {}
      BY <2>5
    <3>2. IsFiniteSet(Within(rest)) /\ IsFiniteSet(On(e))
      <4> HIDE DEF Within, On
      <4> QED
        BY <1>4, <1>6, <1>7
    <3>3. \A i \in Within(rest) \cup On(e) : lens[i] \in Nat
      BY <1>5
    <3> HIDE DEF Within, On, rest
    <3> QED
      BY <3>1, <3>2, <3>3, SumOfParts
  <2>10. /\ SumFunctionOnSet(lens, Within(rest)) \in Nat /\ SumFunctionOnSet(lens, On(e)) \in Nat
    <3> HIDE DEF Within, On
    <3> QED
      BY <1>4, <1>6, <1>7
  <2>11. shares[e] \in Nat /\ shares[e] <= SumFunctionOnSet(lens, On(e))
    BY <1>8, <2>3, <2>5
  <2>12. ~(SumFunctionOnSet(shares, F) <= SumFunctionOnSet(lens, Within(F)))
    BY <2>2
  <2> HIDE DEF Within, On, rest, Bad
  <2> QED
    BY <2>6, <2>7, <2>8, <2>9, <2>10, <2>11, <2>12
<1>10. SumFunctionOnSet(shares, edges) <= SumFunctionOnSet(lens, Within(edges))
  <2>1. edges \in SUBSET edges
    OBVIOUS
  <2> HIDE DEF edges, Within
  <2> QED
    BY <2>1, <1>9
<1>11. Within(edges) = {i \in DOMAIN path : path[i] # OffRoad}
  BY DEF Range
<1>12. LengthOf(segments, Within(edges)) = SumFunctionOnSet(lens, Within(edges))
  <2> HIDE DEF Within
  <2> QED
    BY <1>4, <1>7
<1> HIDE DEF edges, Within
<1> QED
  BY <1>1, <1>2, <1>8, <1>10, <1>11, <1>12 DEF shares

\* What is asked of a match, of every drive with segments.
LEMMA MatchOfSegments ==
  ASSUME NEW segments, segments \in Seq(Range(segments)), segments # <<>>,
         \A segment \in Range(segments) : IsSegment(segment)
  PROVE  MatchIsCheapest(segments) /\ IsMatch(MapMatch(segments))
<1> DEFINE options == OptionsOf(segments)
           best == CheapestPath(options)
           shares == Shares(segments, best.path)
           m == MapMatch(segments)
           on == {i \in DOMAIN best.path : best.path[i] # OffRoad}
           off == DOMAIN best.path \ on
           broken == {i \in on : i > 1 /\ best.path[i - 1] # OffRoad /\ ~CanFollow(best.path[i - 1], best.path[i])}
           n == Len(options)
<1>1. AreOptions(options) /\ n = Len(segments) /\ DOMAIN segments = 1 .. n /\ n \in Nat \ {0}
  BY OptionsAreListed
<1>2. /\ m.shares = shares /\ m.cost = best.cost
      /\ m.matched = SumFunctionOnSet(shares, DOMAIN shares)
      /\ m.total = LengthOf(segments, DOMAIN segments)
      /\ m.off = LengthOf(segments, off) /\ m.broken = LengthOf(segments, broken)
  BY DEF MapMatch, MatchWith, MatchAlong
<1> HIDE DEF options, shares, m, best
<1>3. PICK way \in WaysThrough(options) :
           /\ best = [cost |-> PathCost(options, way), path |-> PathUpTo(options, way, n)]
           /\ PathCost(options, way) \in Nat
           /\ \A other \in WaysThrough(options) :
                PathCost(options, other) \in Nat /\ PathCost(options, way) <= PathCost(options, other)
  BY <1>1, PathIsCheapest DEF best
<1>4. DOMAIN best.path = 1 .. n /\ \A i \in 1 .. n : best.path[i] = options[i][way[i]].edge
  BY <1>3 DEF PathUpTo
<1>5. \A i \in 1 .. n : best.path[i] \in DriveGraph \cup {OffRoad}
  <2> SUFFICES ASSUME NEW i \in 1 .. n PROVE best.path[i] \in DriveGraph \cup {OffRoad}
    OBVIOUS
  <2>1. way[i] \in DOMAIN options[i]
    BY <1>1, TermsAreCosts
  <2> QED
    BY <2>1, <1>1, <1>4, OptionsCost
<1>6. /\ IsFiniteSet(DOMAIN shares)
      /\ \A e \in DOMAIN shares : shares[e] \in Nat /\ shares[e] <= e.metres
      /\ SumFunctionOnSet(shares, DOMAIN shares) <= LengthOf(segments, on)
  <2> DEFINE path == best.path
  <2>1. DOMAIN path = DOMAIN segments /\ \A i \in DOMAIN path : path[i] \in DriveGraph \cup {OffRoad}
    BY <1>1, <1>4, <1>5
  <2> HIDE DEF path
  <2>2. /\ IsFiniteSet(DOMAIN Shares(segments, path))
        /\ \A e \in DOMAIN Shares(segments, path) :
              Shares(segments, path)[e] \in Nat /\ Shares(segments, path)[e] <= e.metres
        /\ SumFunctionOnSet(Shares(segments, path), DOMAIN Shares(segments, path))
              <= LengthOf(segments, {i \in DOMAIN path : path[i] # OffRoad})
    BY <2>1, SharesAreDriven
  <2> QED
    BY <2>2 DEF path, shares
<1>7. SumFunctionOnSet(shares, DOMAIN shares) \in Nat
  BY <1>6, SumIsNatural
<1>8. m.cost = Min({PathCost(options, c) : c \in WaysThrough(options)})
  <2> DEFINE costs == {PathCost(options, c) : c \in WaysThrough(options)}
  <2>1. m.cost = PathCost(options, way)
    BY <1>2, <1>3
  <2>2. m.cost \in costs /\ \A x \in costs : m.cost <= x /\ x \in Nat
    BY <2>1, <1>3
  <2> HIDE DEF costs
  <2>3. \A x \in costs : (\A y \in costs : x <= y) => x = m.cost
    BY <2>2
  <2>4. Min(costs) = m.cost
    BY <2>2, <2>3 DEF Min
  <2> QED
    BY <2>4 DEF costs
<1>9. m.broken = 0
  <2>1. broken = {}
    <3> SUFFICES ASSUME NEW i \in broken PROVE FALSE
      OBVIOUS
    <3>1. /\ i \in 1 .. n /\ best.path[i] # OffRoad /\ i > 1 /\ best.path[i - 1] # OffRoad
          /\ ~CanFollow(best.path[i - 1], best.path[i])
      BY <1>4
    <3>2. i \in 2 .. n /\ i - 1 \in 1 .. n
      BY <3>1, <1>1
    <3>3. best.path[i] = options[i][way[i]].edge /\ best.path[i - 1] = options[i - 1][way[i - 1]].edge
      BY <3>1, <3>2, <1>4
    <3> QED
      BY <3>1, <3>2, <3>3, <1>1, <1>3, NoJumps
  <2>2. LengthOf(segments, {}) = 0
    BY SumOfNone DEF LengthOf
  <2> QED
    BY <2>1, <2>2, <1>2
<1>10. m.matched + m.off <= m.total
  <2> DEFINE lens == [i \in DOMAIN segments |-> segments[i].metres]
  <2>1. \A S \in SUBSET DOMAIN segments :
          IsFiniteSet(S) /\ LengthOf(segments, S) = SumFunctionOnSet(lens, S) /\ LengthOf(segments, S) \in Nat
    BY LengthsAreSums
  <2>2. on \in SUBSET DOMAIN segments /\ off \in SUBSET DOMAIN segments /\ DOMAIN segments = on \cup off
        /\ on \cap off = {} /\ DOMAIN segments \in SUBSET DOMAIN segments
    BY <1>1, <1>4
  <2>3. \A i \in on \cup off : lens[i] \in Nat
    <3>1. \A i \in DOMAIN segments : lens[i] \in Nat
      BY LengthsAreSums
    <3> QED
      BY <2>2, <3>1
  <2> HIDE DEF lens, on, off
  <2>4. SumFunctionOnSet(lens, on \cup off) = SumFunctionOnSet(lens, on) + SumFunctionOnSet(lens, off)
    BY <2>1, <2>2, <2>3, SumOfParts
  <2>5. LengthOf(segments, DOMAIN segments) = LengthOf(segments, on) + LengthOf(segments, off)
    BY <2>1, <2>2, <2>4
  <2>6. LengthOf(segments, on) \in Nat /\ LengthOf(segments, off) \in Nat
    BY <2>1, <2>2
  <2> QED
    BY <2>5, <2>6, <1>2, <1>6, <1>7
<1>11. CheapestIs(options, m)
  BY <1>2, <1>6, <1>8, <1>9, <1>10 DEF CheapestIs
<1>12. IsMatch(m)
  BY <1>2, <1>6 DEF IsMatch
<1> QED
  BY <1>11, <1>12 DEF MatchIsCheapest, options, m

(***************************************************************************)
(* RouteOverlap: the overlap of two drives.                                *)
(***************************************************************************)

\* A part of something in thousandths of it.
LEMMA PartInThousand ==
  ASSUME NEW part \in Nat, NEW whole \in Nat, whole > 0, part <= whole
  PROVE  (1000 * part) \div whole \in 0 .. 1000
<1> DEFINE q == (1000 * part) \div whole
<1>1. 1000 * part \in Int
  OBVIOUS
<1>2. q \in Int /\ whole * q <= 1000 * part /\ 1000 * part < whole * q + whole
  BY <1>1, Quotient
<1> HIDE DEF q
<1>3. 1000 < q => whole * 1000 + whole <= whole * q
  BY <1>2, Scaled
<1>4. q < 0 => whole * q + whole <= whole * 0
  BY <1>2, Scaled
<1>5. whole * q \in Int /\ whole * 1000 = 1000 * whole /\ whole * 0 = 0
  BY <1>2
<1>6. q >= 0 /\ q <= 1000
  BY <1>2, <1>3, <1>4, <1>5
<1> QED
  BY <1>2, <1>6 DEF q

\* The values of a share.
Thousandths == 0 .. 1000

\* What two matches share is part of either, and is shared both ways.
LEMMA SharedIsPart ==
  ASSUME NEW m, IsMatch(m), NEW n, IsMatch(n)
  PROVE  /\ SharedMetres(m, n) \in Nat /\ m.matched \in Nat
         /\ SharedMetres(m, n) <= m.matched
         /\ SharedMetres(m, n) = SharedMetres(n, m)
<1> DEFINE both == DOMAIN m.shares \cap DOMAIN n.shares
           shared == [e \in both |-> Min({m.shares[e], n.shares[e]})]
<1>1. SharedMetres(m, n) = SumFunctionOnSet(shared, both)
  BY DEF SharedMetres
<1>2. IsFiniteSet(both) /\ both \subseteq DOMAIN m.shares
  BY FS_Subset DEF IsMatch
<1>3. \A e \in both : shared[e] \in Nat /\ shared[e] <= m.shares[e]
  <2> SUFFICES ASSUME NEW e \in both PROVE shared[e] \in Nat /\ shared[e] <= m.shares[e]
    OBVIOUS
  <2>1. m.shares[e] \in Nat /\ n.shares[e] \in Nat
    BY DEF IsMatch
  <2> DEFINE a == m.shares[e]
             b == n.shares[e]
  <2>2. a \in Nat /\ b \in Nat /\ a \in Int /\ b \in Int /\ shared[e] = Min({a, b})
    BY <2>1
  <2> HIDE DEF a, b, shared
  <2>3. Min({a, b}) \in {a, b} /\ Min({a, b}) <= a
    BY <2>2, MinMaxOfTwo
  <2>4. shared[e] \in Nat /\ shared[e] <= a
    BY <2>2, <2>3
  <2> QED
    BY <2>4 DEF a
<1>4. SharedMetres(n, m) = SharedMetres(m, n)
  <2>1. \A e : {m.shares[e], n.shares[e]} = {n.shares[e], m.shares[e]}
    OBVIOUS
  <2>2. both = DOMAIN n.shares \cap DOMAIN m.shares
    OBVIOUS
  <2>3. shared = [e \in both |-> Min({n.shares[e], m.shares[e]})]
    BY <2>1
  <2> QED
    BY <2>2, <2>3 DEF SharedMetres
<1>5. \A e \in DOMAIN m.shares : m.shares[e] \in Nat
  BY DEF IsMatch
<1> HIDE DEF both, shared
<1>6. SumFunctionOnSet(shared, both) \in Nat
  BY <1>2, <1>3, SumIsNatural
<1>7. IsFiniteSet(DOMAIN m.shares) /\ m.matched = SumFunctionOnSet(m.shares, DOMAIN m.shares)
  BY DEF IsMatch
<1>8. SumFunctionOnSet(shared, both) <= SumFunctionOnSet(m.shares, DOMAIN m.shares)
  BY <1>2, <1>3, <1>5, <1>7, SumGrows
<1>9. SumFunctionOnSet(m.shares, DOMAIN m.shares) \in Nat
  BY <1>5, <1>7, SumIsNatural
<1> QED
  BY <1>1, <1>4, <1>6, <1>7, <1>8, <1>9

\* The share of a part in a whole that may be nothing.
LEMMA PartOrNone ==
  ASSUME NEW part \in Nat, NEW whole \in Nat, part <= whole
  PROVE  (IF whole = 0 THEN 0 ELSE (1000 * part) \div whole) \in 0 .. 1000
<1>1. CASE whole = 0
  BY <1>1
<1>2. CASE whole # 0
  <2>1. whole > 0
    BY <1>2
  <2>2. (1000 * part) \div whole \in 0 .. 1000
    BY <2>1, PartInThousand
  <2> QED
    BY <1>2, <2>2
<1> QED
  BY <1>1, <1>2

\* The share of the edges is a share, the same both ways.
LEMMA EdgesOverlap ==
  ASSUME NEW m, IsMatch(m), NEW n, IsMatch(n)
  PROVE  EdgeOverlap(m, n) \in Thousandths /\ EdgeOverlap(m, n) = EdgeOverlap(n, m)
<1> DEFINE s == SharedMetres(m, n)
           ofFirst == IF m.matched = 0 THEN 0 ELSE (1000 * s) \div m.matched
           ofSecond == IF n.matched = 0 THEN 0 ELSE (1000 * s) \div n.matched
<1>1. /\ s \in Nat /\ m.matched \in Nat /\ n.matched \in Nat /\ s <= m.matched /\ s <= n.matched
      /\ SharedMetres(n, m) = s
  <2>1. SharedMetres(m, n) \in Nat /\ m.matched \in Nat /\ s <= m.matched /\ s = SharedMetres(n, m)
    BY SharedIsPart
  <2>2. n.matched \in Nat /\ SharedMetres(n, m) <= n.matched
    BY SharedIsPart
  <2> QED
    BY <2>1, <2>2
<1>2. EdgeOverlap(m, n) = (ofFirst + ofSecond) \div 2 /\ EdgeOverlap(n, m) = (ofSecond + ofFirst) \div 2
  BY <1>1 DEF EdgeOverlap
<1>3. ofFirst \in 0 .. 1000 /\ ofSecond \in 0 .. 1000
  <2> DEFINE first == m.matched
             second == n.matched
  <2>1. s \in Nat /\ first \in Nat /\ second \in Nat /\ s <= first /\ s <= second
    BY <1>1
  <2> HIDE DEF s, first, second
  <2>2. (IF first = 0 THEN 0 ELSE (1000 * s) \div first) \in 0 .. 1000
    BY <2>1, PartOrNone
  <2>3. (IF second = 0 THEN 0 ELSE (1000 * s) \div second) \in 0 .. 1000
    BY <2>1, PartOrNone
  <2> QED
    BY <2>2, <2>3 DEF first, second
<1> HIDE DEF ofFirst, ofSecond
<1>4. ofFirst + ofSecond = ofSecond + ofFirst
  BY <1>3
<1>5. (ofFirst + ofSecond) \div 2 \in 0 .. 1000
  BY <1>3
<1> QED
  BY <1>2, <1>4, <1>5 DEF Thousandths

\* How much of a polyline lies beside the other.
BesideShare(drive) ==
  (1000 * LengthOf(drive.segments, {i \in DOMAIN drive.segments : drive.segments[i].beside}))
     \div LengthOf(drive.segments, DOMAIN drive.segments)

\* The share of a drive that runs beside the other is a share.
LEMMA BesideIsPart ==
  ASSUME NEW drive, IsDrive(drive), drive.segments # <<>>
  PROVE  BesideShare(drive) \in Thousandths
<1> DEFINE segments == drive.segments
           beside == {i \in DOMAIN segments : segments[i].beside}
           lens == [i \in DOMAIN segments |-> segments[i].metres]
           part == LengthOf(segments, beside)
           whole == LengthOf(segments, DOMAIN segments)
<1>1. segments \in Seq(Range(segments)) /\ \A segment \in Range(segments) : IsSegment(segment)
  BY DEF IsDrive
<1>2. 1 \in DOMAIN segments
  <2>1. Len(segments) \in Nat /\ DOMAIN segments = 1 .. Len(segments) /\ Len(segments) # 0
    BY <1>1
  <2> QED
    BY <2>1
<1> HIDE DEF segments
<1>3. /\ \A i \in DOMAIN segments : segments[i].metres \in Nat \ {0}
      /\ \A S \in SUBSET DOMAIN segments :
            IsFiniteSet(S) /\ LengthOf(segments, S) = SumFunctionOnSet(lens, S) /\ LengthOf(segments, S) \in Nat
  BY <1>1, LengthsAreSums
<1>4. \A i \in DOMAIN segments : lens[i] \in Nat
  BY <1>3
<1>5. lens[1] \in Nat /\ lens[1] > 0
  BY <1>2, <1>3
<1>6. beside \in SUBSET DOMAIN segments /\ beside \subseteq DOMAIN segments /\ {1} \subseteq DOMAIN segments
      /\ {1} \in SUBSET DOMAIN segments /\ DOMAIN segments \in SUBSET DOMAIN segments
  BY <1>2
<1> HIDE DEF beside, lens
<1>7. part \in Nat /\ whole \in Nat /\ part <= whole
  <2>1. \A i \in beside : lens[i] \in Int /\ lens[i] <= lens[i]
    BY <1>4, <1>6
  <2>2. SumFunctionOnSet(lens, beside) <= SumFunctionOnSet(lens, DOMAIN segments)
    BY <2>1, <1>3, <1>4, <1>6, SumGrows
  <2> QED
    BY <2>2, <1>3, <1>6
<1>8. whole > 0
  <2>1. SumFunctionOnSet(lens, DOMAIN segments) = lens[1] + SumFunctionOnSet(lens, DOMAIN segments \ {1})
    <3>1. \A i \in DOMAIN segments : lens[i] \in Int
      BY <1>4
    <3> QED
      BY <3>1, <1>2, <1>3, <1>6, SumWithout
  <2>2. SumFunctionOnSet(lens, DOMAIN segments \ {1}) \in Nat
    <3>1. DOMAIN segments \ {1} \in SUBSET DOMAIN segments
      OBVIOUS
    <3> QED
      BY <3>1, <1>3
  <2> QED
    BY <2>1, <2>2, <1>3, <1>5, <1>6
<1>9. BesideShare(drive) = (1000 * part) \div whole
  BY Zenon DEF BesideShare, beside, segments
<1> HIDE DEF part, whole
<1>10. (1000 * part) \div whole \in 0 .. 1000
  BY <1>7, <1>8, PartInThousand
<1> QED
  BY <1>9, <1>10 DEF Thousandths

\* The polylines of two drives that have one each.
LEMMA PolylinesOverlap ==
  ASSUME NEW p, NEW a, IsDrive(p), p.segments # <<>>, IsDrive(a), a.segments # <<>>,
         NEW pair, pair = [primary |-> p, alternative |-> a],
         NEW other, other = [primary |-> a, alternative |-> p]
  PROVE  GeometricOverlap(pair) \in Thousandths /\ GeometricOverlap(other) = GeometricOverlap(pair)
<1> DEFINE first == BesideShare(p)
           second == BesideShare(a)
<1>1. first \in Thousandths /\ second \in Thousandths
  BY BesideIsPart, Zenon
<1>2. pair.primary = p /\ pair.alternative = a /\ other.primary = a /\ other.alternative = p
  OBVIOUS
<1>3. GeometricOverlap(pair) = (first + second) \div 2 /\ GeometricOverlap(other) = (second + first) \div 2
  BY <1>2 DEF GeometricOverlap, BesideShare
<1> HIDE DEF first, second
<1>4. first + second = second + first
  <2>1. first \in Int /\ second \in Int
    BY <1>1 DEF Thousandths
  <2> QED
    BY <2>1
<1>5. (first + second) \div 2 \in Thousandths
  BY <1>1 DEF Thousandths
<1> QED
  BY <1>3, <1>4, <1>5

\* Drives without polylines.
LEMMA FallbacksOverlap ==
  ASSUME NEW p, IsDrive(p), NEW a, IsDrive(a)
  PROVE  FallbackOverlap(p, a) \in Thousandths /\ FallbackOverlap(p, a) = FallbackOverlap(a, p)
<1>1. CASE p.names # {} /\ a.names # {}
  <2> DEFINE part == Cardinality(p.names \cap a.names)
             whole == Cardinality(p.names \cup a.names)
  <2>1. FallbackOverlap(p, a) = (1000 * part) \div whole
    BY <1>1 DEF FallbackOverlap
  <2>2. FallbackOverlap(a, p) = (1000 * part) \div whole
    <3>1. p.names \cap a.names = a.names \cap p.names /\ p.names \cup a.names = a.names \cup p.names
      OBVIOUS
    <3> HIDE DEF part, whole
    <3>2. FallbackOverlap(a, p) = (1000 * Cardinality(a.names \cap p.names)) \div Cardinality(a.names \cup p.names)
      BY <1>1, SMTT(20) DEF FallbackOverlap
    <3>3. Cardinality(a.names \cap p.names) = part /\ Cardinality(a.names \cup p.names) = whole
      BY <3>1 DEF part, whole
    <3> QED
      BY <3>2, <3>3
  <2>3. IsFiniteSet(p.names \cup a.names) /\ p.names \cap a.names \subseteq p.names \cup a.names
    BY FS_Union DEF IsDrive
  <2>4. part \in Nat /\ whole \in Nat /\ part <= whole
    BY <2>3, ManyInSubset
  <2>5. whole # 0
    BY <2>3, <1>1, FS_EmptySet
  <2> HIDE DEF part, whole
  <2>6. whole > 0
    BY <2>4, <2>5
  <2>7. (1000 * part) \div whole \in 0 .. 1000
    BY <2>4, <2>6, PartInThousand
  <2> QED
    BY <2>1, <2>2, <2>7 DEF Thousandths
<1>2. CASE ~(p.names # {} /\ a.names # {})
  <2> DEFINE u == p.metres
             v == a.metres
             short == Min({u, v})
             long == Max({u, v})
  <2>1. {a.metres, p.metres} = {u, v}
    OBVIOUS
  <2>2. /\ FallbackOverlap(p, a) = (IF long = 0 THEN 0 ELSE (1000 * short) \div long)
        /\ FallbackOverlap(a, p) = (IF long = 0 THEN 0 ELSE (1000 * short) \div long)
    <3>1. Max({a.metres, p.metres}) = long /\ Min({a.metres, p.metres}) = short
      BY <2>1
    <3> HIDE DEF short, long
    <3>2. Max({p.metres, a.metres}) = long /\ Min({p.metres, a.metres}) = short
      BY DEF short, long
    <3> QED
      BY <1>2, <3>1, <3>2 DEF FallbackOverlap
  <2>3. u \in Nat /\ v \in Nat
    BY DEF IsDrive
  <2> HIDE DEF u, v
  <2>4. short \in {u, v} /\ short <= u /\ long \in {u, v} /\ long >= u
    <3>1. u \in Int /\ v \in Int
      BY <2>3
    <3> QED
      BY <3>1, MinMaxOfTwo
  <2> HIDE DEF short, long
  <2>5. short \in Nat /\ long \in Nat /\ short <= long
    BY <2>3, <2>4
  <2>6. (IF long = 0 THEN 0 ELSE (1000 * short) \div long) \in 0 .. 1000
    BY <2>5, PartOrNone
  <2> QED
    BY <2>2, <2>6 DEF Thousandths
<1> QED
  BY <1>1, <1>2

\* The overlap of two drives is a share, the same both ways, whichever of
\* the three methods measures it.
LEMMA OverlapIsPart ==
  ASSUME NEW p, IsDrive(p), NEW a, IsDrive(a), NEW graph \in BOOLEAN
  PROVE  /\ Overlap([primary |-> p, alternative |-> a], graph) \in Thousandths
         /\ Overlap([primary |-> p, alternative |-> a], graph) = Overlap([primary |-> a, alternative |-> p], graph)
<1> DEFINE pair == [primary |-> p, alternative |-> a]
           other == [primary |-> a, alternative |-> p]
<1>1. pair.primary = p /\ pair.alternative = a /\ other.primary = a /\ other.alternative = p
  OBVIOUS
<1> HIDE DEF pair, other
<1>2. CASE p.segments = <<>> \/ a.segments = <<>>
  <2>1. Overlap(pair, graph) = FallbackOverlap(p, a) /\ Overlap(other, graph) = FallbackOverlap(a, p)
    BY <1>1, <1>2 DEF Overlap
  <2> QED
    BY <2>1, FallbacksOverlap DEF pair, other
<1>3. CASE p.segments # <<>> /\ a.segments # <<>>
  <2> DEFINE m == MapMatch(p.segments)
             n == MapMatch(a.segments)
             geometric == GeometricOverlap(pair)
             onEdges == EdgeOverlap(m, n)
  <2>1. IsMatch(m) /\ IsMatch(n)
    BY <1>3, MatchOfSegments DEF IsDrive
  <2>2. geometric \in Thousandths /\ GeometricOverlap(other) = geometric
    <3>1. pair = [primary |-> p, alternative |-> a] /\ other = [primary |-> a, alternative |-> p]
      BY DEF pair, other
    <3>2. GeometricOverlap(pair) \in Thousandths /\ GeometricOverlap(other) = GeometricOverlap(pair)
      BY <1>3, <3>1, PolylinesOverlap
    <3> QED
      BY <3>2
  <2> HIDE DEF m, n
  <2>3. onEdges \in Thousandths /\ EdgeOverlap(n, m) = onEdges
    BY <2>1, EdgesOverlap
  <2>4. /\ Overlap(pair, graph) = IF graph THEN MatchedOverlap(pair, m, n) ELSE geometric
        /\ Overlap(other, graph) = IF graph THEN MatchedOverlap(other, n, m) ELSE GeometricOverlap(other)
    BY <1>1, <1>3 DEF Overlap, m, n
  <2>5. {Confidence(m), Confidence(n)} = {Confidence(n), Confidence(m)}
    OBVIOUS
  <2>6. /\ MatchedOverlap(pair, m, n) \in {onEdges, (3 * onEdges + geometric) \div 4, geometric}
        /\ MatchedOverlap(pair, m, n) = MatchedOverlap(other, n, m)
    BY <2>2, <2>3, <2>5 DEF MatchedOverlap
  <2> HIDE DEF geometric, onEdges
  <2>7. (3 * onEdges + geometric) \div 4 \in Thousandths
    BY <2>2, <2>3 DEF Thousandths
  <2>8. Overlap(pair, graph) \in Thousandths /\ Overlap(pair, graph) = Overlap(other, graph)
    <3>1. CASE graph
      <4>1. Overlap(pair, graph) = MatchedOverlap(pair, m, n) /\ Overlap(other, graph) = MatchedOverlap(other, n, m)
        BY <2>4, <3>1
      <4> DEFINE mixed == (3 * onEdges + geometric) \div 4
                 matched == MatchedOverlap(pair, m, n)
      <4>2. matched \in Thousandths
        <5>1. matched \in {onEdges, mixed, geometric}
          BY <2>6
        <5>2. mixed \in Thousandths
          BY <2>7
        <5> HIDE DEF mixed, matched
        <5> QED
          BY <5>1, <5>2, <2>2, <2>3
      <4> QED
        BY <4>1, <4>2, <2>6
    <3>2. CASE ~graph
      BY <2>2, <2>4, <3>2
    <3> QED
      BY <3>1, <3>2
  <2> QED
    BY <2>8 DEF pair, other
<1> QED
  BY <1>2, <1>3

(***************************************************************************)
(* RouteOverlap: the judgements of the program.                            *)
(***************************************************************************)

\* What is judged is the overlap of a pair of drives that are compared.
JudgedFromPair ==
  judgement.stage = "judged" =>
    \E pair \in DrivePairs, graph \in BOOLEAN : judgement = Judged(pair, graph, Overlap(pair, graph))

\* Every judgement is made of one pair of drives.
LEMMA JudgementsAreOfPairs == JudgeSpec => []JudgedFromPair
<1>1. JudgeInit => JudgedFromPair
  BY DEF JudgeInit, JudgedFromPair, NotJudged
<1>2. JudgedFromPair /\ [JudgeNext]_judgement => JudgedFromPair'
  BY DEF JudgedFromPair, JudgeNext, Judge, Judged
<1> QED
  BY <1>1, <1>2, PTL DEF JudgeSpec

\* A judgement that is made of one pair of drives is mutual.
LEMMA PairsAreMutual == JudgedFromPair => OverlapIsMutual
<1> SUFFICES ASSUME JudgedFromPair, judgement.stage = "judged"
             PROVE  LET p == judgement.pair.primary
                        a == judgement.pair.alternative
                    IN /\ \A drive \in {p, a} : drive.segments # <<>> => MatchIsCheapest(drive.segments)
                       /\ judgement.overlap \in 0..1000
                       /\ judgement.overlap = Overlap([primary |-> a, alternative |-> p], judgement.graph)
  BY DEF OverlapIsMutual
<1>1. PICK pair \in DrivePairs, graph \in BOOLEAN : judgement = Judged(pair, graph, Overlap(pair, graph))
  BY DEF JudgedFromPair
<1> DEFINE p == pair.primary
           a == pair.alternative
<1>2. judgement.pair = pair /\ judgement.graph = graph /\ judgement.overlap = Overlap(pair, graph)
  BY <1>1 DEF Judged
<1>3. IsDrive(p) /\ IsDrive(a)
  BY PairsOfDrives
<1>4. \A drive \in {p, a} : drive.segments # <<>> => MatchIsCheapest(drive.segments)
  BY <1>3, MatchOfSegments DEF IsDrive
<1>5. Overlap(pair, graph) = Overlap([primary |-> p, alternative |-> a], graph)
  <2>1. [primary |-> p, alternative |-> a].primary = p /\ [primary |-> p, alternative |-> a].alternative = a
    OBVIOUS
  <2> QED
    BY <2>1 DEF Overlap, MatchedOverlap, GeometricOverlap
<1> HIDE DEF p, a
<1>6. /\ Overlap([primary |-> p, alternative |-> a], graph) \in Thousandths
      /\ Overlap([primary |-> p, alternative |-> a], graph) = Overlap([primary |-> a, alternative |-> p], graph)
  BY <1>3, OverlapIsPart
<1> QED
  BY <1>2, <1>4, <1>5, <1>6 DEF p, a, Thousandths

\* For any drives and any road graph, both matches cost the least there is,
\* and the shared roads are a share of the two drives that is the same for the
\* pair taken the other way round; what is made of it, an independent or a
\* partly shared alternative, therefore is too, while not_practical compares
\* the alternative's time with the primary's and is not (map_match_route and
\* classify_alternative in route_overlap.py).
THEOREM OverlapMutual == JudgeSpec => []OverlapIsMutual
  BY JudgementsAreOfPairs, PairsAreMutual, PTL

=============================================================================
