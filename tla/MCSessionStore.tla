--------------------------- MODULE MCSessionStore ---------------------------
(* SessionStore on small instances for TLC. *)
EXTENDS SessionStore, TLC

Permuted ==
    Permutations(Listings) \cup Permutations(Inputs) \cup Permutations(Requests)
    \cup Permutations(Flats)
=============================================================================
