-------------------------- MODULE MCEnrichmentJobs --------------------------
(* EnrichmentJobs on small instances for TLC. *)
EXTENDS EnrichmentJobs, TLC

Permuted ==
    Permutations(Workers) \cup Permutations(Apis) \cup Permutations(Jobs)
=============================================================================
