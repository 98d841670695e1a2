-------------------------- MODULE MCEnrichmentRuns --------------------------
(* EnrichmentRuns on small instances for TLC. *)
EXTENDS EnrichmentRuns, TLC

Permuted == Permutations(Listings)
=============================================================================
