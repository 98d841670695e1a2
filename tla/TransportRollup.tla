-------------------------- MODULE TransportRollup --------------------------
(***************************************************************************)
(* domain/transport_models.py: the result of one component of a transport  *)
(* model, and the score of a model from those of its components.  Weights  *)
(* are percent, scores are in tenths.                                      *)
(***************************************************************************)
EXTENDS Integers, FiniteSetsExt

\* Each of the two models has four components, in the order they are shown.
Shown == 1..4
TotalOf(f) == f[1] + f[2] + f[3] + f[4]

NoScore == -1

\* ComponentResult: one that is not calculated carries no score.
Unavailable(name, weight, status) ==
  [name |-> name, weight |-> weight, status |-> status, score |-> NoScore]
NotAssessed(name, weight) == Unavailable(name, weight, "not_assessed")
ProviderError(name, weight) == Unavailable(name, weight, "provider_error")
Calculated(name, weight, score) ==
  [name |-> name, weight |-> weight, status |-> "calculated", score |-> score]

IsAssessed(component) == component.status = "calculated"
AssessedIn(components) == {i \in Shown : IsAssessed(components[i])}
WeightOf(components, at) ==
  TotalOf([i \in Shown |-> IF i \in at THEN components[i].weight ELSE 0])

\* The gate without its share: any component that was assessed.
CountsAnyway(components, assessed) == assessed # {}

\* min_core_weight_coverage = 0.6
Counts(components, assessed) ==
  /\ assessed # {}
  /\ 100 * WeightOf(components, assessed) >= 60 * WeightOf(components, Shown)

\* A quotient rounded to the nearest integer.
Nearest(a, b) == (2 * a + b) \div (2 * b)

WeightedScore(components, assessed) ==
  TotalOf([i \in Shown |->
    IF i \in assessed THEN components[i].score * components[i].weight ELSE 0])

\* build_rollup: the display score is the mean over what was assessed, and
\* the overall score, which the recommendation reads, is only there when
\* enough was.
Rollup(components) ==
  LET assessed == AssessedIn(components)
      display ==
        IF assessed = {} THEN NoScore
        ELSE Nearest(WeightedScore(components, assessed), WeightOf(components, assessed))
  IN [components |-> components, display |-> display, complete |-> assessed = Shown,
      overall |-> IF Counts(components, assessed) THEN display ELSE NoScore]

\* The bands of a score table: the first row whose limit covers the value.
BandScore(rows, floor, value) ==
  LET covering == {r \in rows : value <= r[1]}
      first == CHOOSE r \in covering : \A s \in covering : r[1] <= s[1]
  IN IF covering = {} THEN floor ELSE first[2]

=============================================================================
