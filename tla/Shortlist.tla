------------------------------ MODULE Shortlist ------------------------------
(***************************************************************************)
(* What a buyer may rely on: each session has a shortlist whose entries    *)
(* are flats, a flat being an address at an asking price.  A flat has one  *)
(* entry at most and a shortlist never grows beyond Capacity.              *)
(***************************************************************************)
EXTENDS FiniteSets, Naturals

CONSTANTS Sessions, Flats, Ids, Capacity

VARIABLES
    open,       \* sessions that exist
    shortlist   \* session -> its entries [id, flat]

vars == <<open, shortlist>>

Init ==
    /\ open = Sessions
    /\ shortlist = [s \in Sessions |-> {}]

Add(s, entry) ==
    /\ s \in open
    /\ \A other \in shortlist[s] :
        other.id # entry.id /\ other.flat # entry.flat
    /\ Cardinality(shortlist[s]) < Capacity
    /\ shortlist' = [shortlist EXCEPT ![s] = @ \cup {entry}]
    /\ UNCHANGED open

Remove(s, entry) ==
    /\ entry \in shortlist[s]
    /\ shortlist' = [shortlist EXCEPT ![s] = @ \ {entry}]
    /\ UNCHANGED open

Close(s) ==
    /\ s \in open
    /\ open' = open \ {s}
    /\ shortlist' = [shortlist EXCEPT ![s] = {}]

Next ==
    \E s \in Sessions :
        \/ \E entry \in [id : Ids, flat : Flats] : Add(s, entry) \/ Remove(s, entry)
        \/ Close(s)

Spec == Init /\ [][Next]_vars
=============================================================================
