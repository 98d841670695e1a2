------------------------- MODULE SessionStoreProofs -------------------------
(***************************************************************************)
(* Proofs about SessionStore for every set of sessions, flats, ids and     *)
(* requests and for every limit.                                           *)
(***************************************************************************)
EXTENDS SessionStore, FiniteSetTheorems, TLAPS

-----------------------------------------------------------------------------
(* The inductive invariant, in named parts.                                *)

\* Requests that have been promised a place in s.
Promised(s) == {r \in Requests : pc[r] = "insert" /\ rsession[r] = s}

\* Listings and promises together stay within the capacity.
PlacesAreBounded ==
    \A s \in Sessions :
        Cardinality(ListingsOf(s)) + Cardinality(Promised(s)) <= Capacity

\* The draft a request adds from belongs to its session until it is deleted.
RequestsHoldDrafts ==
    \A r \in Requests :
        pc[r] \in {"limit", "insert", "cleanup"} =>
            draft[rinput[r]] \in {rsession[r], "gone"}

\* Drafts go with their session.
DraftsAreOpen == \A i \in Inputs : draft[i] \in Sessions => draft[i] \in sessions

\* A shortlisted flat's draft belongs to the same session.
DraftsFollowListings ==
    \A l \in Listings :
        home[l] \in Sessions /\ source[l] # None => draft[source[l]] = home[l]

\* What a discard believes of its draft is only wrong if it was confirmed
\* meanwhile.
DiscardsAreFresh ==
    \A r \in Requests :
        pc[r] = "discard" =>
            ConfirmedFrom(rinput[r]) = {} \/ rinput[r] \in late

DraftsInv ==
    /\ RequestsHoldDrafts
    /\ DraftsAreOpen
    /\ DraftsFollowListings
    /\ DiscardsAreFresh
    /\ ManualDraftsAreAccountedFor

IInv == TypeOK /\ PlacesAreBounded /\ DraftsInv

-----------------------------------------------------------------------------
(* Counting.                                                               *)

USE NamesAssumption DEF NoSession

\* The sets the limit counts are finite.
LEMMA Finite ==
    ASSUME NEW s \in Sessions
    PROVE  /\ IsFiniteSet(ListingsOf(s))
           /\ IsFiniteSet(Promised(s))
           /\ Cardinality(ListingsOf(s)) \in Nat
           /\ Cardinality(Promised(s)) \in Nat
           /\ Cardinality(Requests) \in Nat
           /\ Cardinality(Promised(s)) <= Cardinality(Requests)
<1>1. ListingsOf(s) \in SUBSET Listings
  BY DEF ListingsOf
<1>2. Promised(s) \in SUBSET Requests
  BY DEF Promised
<1>3. IsFiniteSet(ListingsOf(s))
  BY <1>1, FiniteAssumption, FS_Subset
<1>4. IsFiniteSet(Promised(s)) /\ Cardinality(Promised(s)) <= Cardinality(Requests)
  BY <1>2, FiniteAssumption, FS_Subset
<1> QED
  BY <1>3, <1>4, FiniteAssumption, FS_CardinalityType

\* The room left does not shrink in a step that adds no listing and makes no
\* new promise.
LEMMA PlacesShrink ==
    ASSUME PlacesAreBounded,
           \A s \in Sessions : ListingsOf(s)' \subseteq ListingsOf(s),
           \A s \in Sessions : Promised(s)' \subseteq Promised(s)
    PROVE  PlacesAreBounded'
<1> SUFFICES ASSUME NEW s \in Sessions
             PROVE  Cardinality(ListingsOf(s)') + Cardinality(Promised(s)')
                      <= Capacity
  BY DEF PlacesAreBounded, Capacity
<1>1. Cardinality(ListingsOf(s)) + Cardinality(Promised(s)) <= Capacity
  BY DEF PlacesAreBounded
<1>2. /\ IsFiniteSet(ListingsOf(s)) /\ IsFiniteSet(Promised(s))
      /\ Cardinality(ListingsOf(s)) \in Nat /\ Cardinality(Promised(s)) \in Nat
      /\ Cardinality(Requests) \in Nat
  BY Finite
<1>3. Cardinality(ListingsOf(s)') <= Cardinality(ListingsOf(s))
  BY <1>2, FS_Subset
<1>4. Cardinality(Promised(s)') <= Cardinality(Promised(s))
  BY <1>2, FS_Subset
<1>5. Cardinality(ListingsOf(s)') \in Nat /\ Cardinality(Promised(s)') \in Nat
  <2>1. IsFiniteSet(ListingsOf(s)') /\ IsFiniteSet(Promised(s)')
    BY <1>2, FS_Subset
  <2> QED
    BY <2>1, FS_CardinalityType
<1>6. Capacity \in Int
  BY <1>2, LimitAssumption DEF Capacity
<1> QED
  BY <1>1, <1>2, <1>3, <1>4, <1>5, <1>6

-----------------------------------------------------------------------------
(* Types.                                                                  *)

\* The initial tables are well typed.
LEMMA InitTyped == Init => TypeOK
BY DEF Init, TypeOK

\* Every request, deletion and write keeps the types.
LEMMA StepTyped == TypeOK /\ [Next]_vars => TypeOK'
<1> SUFFICES ASSUME TypeOK, [Next]_vars PROVE TypeOK'
  OBVIOUS
<1> USE DEF TypeOK
<1>1. ASSUME NEW r \in Requests, ManualBegin(r) PROVE TypeOK'
  BY <1>1 DEF ManualBegin, Begin, StoreUnchanged, listingVars, inputVars,
              evidenceVars, history
<1>2. ASSUME NEW r \in Requests, ManualDraft(r) PROVE TypeOK'
  BY <1>2 DEF ManualDraft, End, listingVars, evidenceVars, history
<1>3. ASSUME NEW r \in Requests, ConfirmBegin(r) PROVE TypeOK'
  BY <1>3 DEF ConfirmBegin, Begin, StoreUnchanged, listingVars, inputVars,
              evidenceVars, history
<1>4. ASSUME NEW r \in Requests, CheckLimit(r) PROVE TypeOK'
  BY <1>4 DEF CheckLimit, Refuse, Goto, End, StoreUnchanged, listingVars,
              inputVars, evidenceVars, history
<1>5. ASSUME NEW r \in Requests, InsertListing(r) PROVE TypeOK'
  BY <1>5 DEF InsertListing, Refuse, Goto, End, inputVars, evidenceVars
<1>6. ASSUME NEW r \in Requests, Cleanup(r) PROVE TypeOK'
  BY <1>6 DEF Cleanup, End, listingVars, evidenceVars, history
<1>7. ASSUME NEW r \in Requests, DiscardBegin(r) PROVE TypeOK'
  BY <1>7 DEF DiscardBegin, Begin, StoreUnchanged, listingVars, inputVars,
              evidenceVars, history
<1>8. ASSUME NEW r \in Requests, Discard(r) PROVE TypeOK'
  BY <1>8 DEF Discard, ForgetInput, End, evidenceVars, history
<1>9. ASSUME NEW r \in Requests, RequestDies(r) PROVE TypeOK'
  BY <1>9 DEF RequestDies, End, StoreUnchanged, listingVars, inputVars,
              evidenceVars
<1>10. ASSUME NEW s \in Sessions, SmartPaste(s) PROVE TypeOK'
  BY <1>10 DEF SmartPaste, listingVars, evidenceVars, requestVars, history
<1>11. ASSUME NEW s \in Sessions, DeleteSession(s) PROVE TypeOK'
  BY <1>11 DEF DeleteSession, evidenceVars, requestVars, history
<1>12. ASSUME NEW s \in Sessions, NEW l \in Listings, DeleteListing(s, l)
       PROVE  TypeOK'
  BY <1>12 DEF DeleteListing, ForgetInput, inputVars, requestVars, history
<1>13. ASSUME NEW l \in Listings, AddEvidence(l) PROVE TypeOK'
  BY <1>13 DEF AddEvidence, listingVars, inputVars, requestVars, history
<1>14. CASE UNCHANGED vars
  BY <1>14 DEF vars, listingVars, inputVars, evidenceVars, requestVars, history
<1> QED
  BY <1>1, <1>2, <1>3, <1>4, <1>5, <1>6, <1>7, <1>8, <1>9, <1>10, <1>11, <1>12,
     <1>13, <1>14
  DEF Next, RequestStep

-----------------------------------------------------------------------------
(* The limit.                                                              *)

\* Empty tables promise nothing.
LEMMA InitPlaces == Init => PlacesAreBounded
<1> SUFFICES ASSUME Init, NEW s \in Sessions
             PROVE  Cardinality(ListingsOf(s)) + Cardinality(Promised(s)) <= Capacity
  BY DEF PlacesAreBounded
<1>1. ListingsOf(s) = {} /\ Promised(s) = {}
  BY DEF Init, ListingsOf, Promised
<1>2. Cardinality(ListingsOf(s)) = 0 /\ Cardinality(Promised(s)) = 0
  BY <1>1, FS_EmptySet
<1>3. Cardinality(Requests) \in Nat
  BY Finite
<1> QED
  BY <1>2, <1>3, LimitAssumption DEF Capacity

\* A promise is only made while a place is left among the listings.
LEMMA PromiseKeepsPlaces ==
    ASSUME TypeOK, PlacesAreBounded, NEW r \in Requests,
           pc[r] = "limit", ~Full(rsession[r]), Goto(r, "insert"), home' = home
    PROVE  PlacesAreBounded'
<1> SUFFICES ASSUME NEW s \in Sessions
             PROVE  Cardinality(ListingsOf(s)') + Cardinality(Promised(s)')
                      <= Capacity
  BY DEF PlacesAreBounded, Capacity
<1>1. ListingsOf(s)' = ListingsOf(s)
  BY DEF ListingsOf
<1>2. CASE rsession[r] = s
  <2>1. Promised(s)' = Promised(s) \cup {r} /\ r \notin Promised(s)
    BY <1>2 DEF Promised, Goto, TypeOK
  <2>2. Cardinality(Promised(s)') = Cardinality(Promised(s)) + 1
    BY <2>1, Finite, FS_AddElement
  <2>3. Cardinality(Promised(s)') <= Cardinality(Requests)
    <3>1. Promised(s)' \in SUBSET Requests
      BY DEF Promised
    <3> QED
      BY <3>1, FiniteAssumption, FS_Subset
  <2>4. Cardinality(ListingsOf(s)) < MaxListings
    BY <1>2, Finite, LimitAssumption DEF Full
  <2> QED
    BY <1>1, <2>2, <2>3, <2>4, Finite, LimitAssumption DEF Capacity
<1>3. CASE rsession[r] # s
  <2>1. Promised(s)' = Promised(s)
    BY <1>3 DEF Promised, Goto, TypeOK
  <2> QED
    BY <1>1, <2>1 DEF PlacesAreBounded
<1> QED
  BY <1>2, <1>3

\* A listing takes the place its request was promised.
LEMMA InsertKeepsPlaces ==
    ASSUME TypeOK, PlacesAreBounded, NEW r \in Requests, NEW l \in Listings,
           pc[r] = "insert", home[l] = "absent",
           home' = [home EXCEPT ![l] = rsession[r]], End(r)
    PROVE  PlacesAreBounded'
<1> SUFFICES ASSUME NEW s \in Sessions
             PROVE  Cardinality(ListingsOf(s)') + Cardinality(Promised(s)')
                      <= Capacity
  BY DEF PlacesAreBounded, Capacity
<1>1. Cardinality(ListingsOf(s)) + Cardinality(Promised(s)) <= Capacity
  BY DEF PlacesAreBounded
<1>2. CASE rsession[r] = s
  <2>1. ListingsOf(s)' = ListingsOf(s) \cup {l} /\ l \notin ListingsOf(s)
    BY <1>2 DEF ListingsOf, TypeOK
  <2>2. Promised(s)' = Promised(s) \ {r} /\ r \in Promised(s)
    BY <1>2 DEF Promised, End, TypeOK
  <2>3. Cardinality(ListingsOf(s)') = Cardinality(ListingsOf(s)) + 1
    BY <2>1, Finite, FS_AddElement
  <2>4. Cardinality(Promised(s)') = Cardinality(Promised(s)) - 1
    BY <2>2, Finite, FS_RemoveElement
  <2> QED
    BY <1>1, <2>3, <2>4, Finite
<1>3. CASE rsession[r] # s
  <2>1. ListingsOf(s)' = ListingsOf(s)
    BY <1>3 DEF ListingsOf, TypeOK
  <2>2. Promised(s)' = Promised(s)
    BY <1>3 DEF Promised, End, TypeOK
  <2> QED
    BY <1>1, <2>1, <2>2
<1> QED
  BY <1>2, <1>3

\* Every step keeps listings and promises within the capacity.
LEMMA StepPlaces == TypeOK /\ PlacesAreBounded /\ [Next]_vars => PlacesAreBounded'
<1> SUFFICES ASSUME TypeOK, PlacesAreBounded, [Next]_vars
             PROVE  PlacesAreBounded'
  OBVIOUS
<1> DEFINE Fewer == \A s \in Sessions : ListingsOf(s)' \subseteq ListingsOf(s)
           Kept == \A s \in Sessions : Promised(s)' \subseteq Promised(s)
<1> USE DEF TypeOK
<1>1. ASSUME NEW r \in Requests,
             \/ ManualBegin(r) \/ ConfirmBegin(r) \/ DiscardBegin(r)
      PROVE  Fewer /\ Kept
  BY <1>1 DEF ManualBegin, ConfirmBegin, DiscardBegin, Begin, StoreUnchanged,
              listingVars, ListingsOf, Promised
<1>2. ASSUME NEW r \in Requests,
             \/ ManualDraft(r) \/ Cleanup(r) \/ Discard(r) \/ RequestDies(r)
      PROVE  Fewer /\ Kept
  BY <1>2 DEF ManualDraft, Cleanup, Discard, RequestDies, End, StoreUnchanged,
              listingVars, ListingsOf, Promised
<1>3. ASSUME NEW r \in Requests, CheckLimit(r) PROVE PlacesAreBounded'
  <2>1. CASE rsession[r] \in sessions /\ ~Full(rsession[r])
    BY <1>3, <2>1, PromiseKeepsPlaces
    DEF CheckLimit, StoreUnchanged, listingVars
  <2>2. CASE ~(rsession[r] \in sessions /\ ~Full(rsession[r]))
    <3>1. Fewer /\ Kept
      BY <1>3, <2>2 DEF CheckLimit, Refuse, Goto, End, StoreUnchanged,
                        listingVars, ListingsOf, Promised
    <3> QED
      BY <3>1, PlacesShrink
  <2> QED
    BY <2>1, <2>2
<1>4. ASSUME NEW r \in Requests, InsertListing(r) PROVE PlacesAreBounded'
  <2>1. CASE \E l \in Listings :
                /\ home[l] = "absent"
                /\ home' = [home EXCEPT ![l] = rsession[r]]
                /\ End(r)
    BY <1>4, <2>1, InsertKeepsPlaces DEF InsertListing
  <2>2. CASE Refuse(r) /\ home' = home
    <3>1. Fewer /\ Kept
      BY <2>2 DEF Refuse, Goto, End, ListingsOf, Promised
    <3> QED
      BY <3>1, PlacesShrink
  <2> QED
    BY <1>4, <2>1, <2>2 DEF InsertListing
<1>5. ASSUME NEW s \in Sessions, SmartPaste(s) \/ DeleteSession(s)
      PROVE  Fewer /\ Kept
  BY <1>5 DEF SmartPaste, DeleteSession, listingVars, requestVars, ListingsOf,
              Promised
<1>6. ASSUME NEW s \in Sessions, NEW l \in Listings, DeleteListing(s, l)
      PROVE  Fewer /\ Kept
  BY <1>6 DEF DeleteListing, requestVars, ListingsOf, Promised
<1>7. ASSUME NEW l \in Listings, AddEvidence(l) PROVE Fewer /\ Kept
  BY <1>7 DEF AddEvidence, listingVars, requestVars, ListingsOf, Promised
<1>8. CASE UNCHANGED vars
  <2>1. Fewer /\ Kept
    BY <1>8 DEF vars, listingVars, requestVars, ListingsOf, Promised
  <2> QED
    BY <2>1, PlacesShrink
<1>9. Fewer /\ Kept => PlacesAreBounded'
  BY PlacesShrink
<1> QED
  BY <1>1, <1>2, <1>3, <1>4, <1>5, <1>6, <1>7, <1>8, <1>9 DEF Next, RequestStep

-----------------------------------------------------------------------------
(* Drafts.                                                                 *)

\* Without drafts there is nothing to account for.
LEMMA InitDrafts == Init => DraftsInv
BY DEF Init, DraftsInv, RequestsHoldDrafts, DraftsAreOpen, DraftsFollowListings,
       DiscardsAreFresh, ManualDraftsAreAccountedFor

\* Every step keeps what is known of the drafts.
LEMMA StepDrafts == TypeOK /\ DraftsInv /\ [Next]_vars => DraftsInv'
<1> SUFFICES ASSUME TypeOK, DraftsInv, [Next]_vars PROVE DraftsInv'
  OBVIOUS
<1> USE DEF TypeOK
<1>1. ASSUME NEW r \in Requests, ManualBegin(r)
      PROVE  DraftsInv'
  <2>1. RequestsHoldDrafts'
    BY <1>1 DEF ManualBegin, Begin, StoreUnchanged, listingVars, inputVars,
                history, RequestsHoldDrafts, DraftsInv
  <2>2. DraftsAreOpen'
    BY <1>1 DEF ManualBegin, Begin, StoreUnchanged, listingVars, inputVars,
                history, DraftsAreOpen, DraftsInv
  <2>3. DraftsFollowListings'
    BY <1>1 DEF ManualBegin, Begin, StoreUnchanged, listingVars, inputVars,
                history, DraftsFollowListings, RequestsHoldDrafts, DraftsInv
  <2>4. DiscardsAreFresh'
    BY <1>1 DEF ManualBegin, Begin, StoreUnchanged, listingVars, inputVars,
                history, DiscardsAreFresh, ConfirmedFrom, ListingRows,
                DraftsInv
  <2>5. ManualDraftsAreAccountedFor'
    BY <1>1 DEF ManualBegin, Begin, StoreUnchanged, listingVars, inputVars,
                history, ManualDraftsAreAccountedFor, ConfirmedFrom,
                ListingRows, IsManual, DraftsInv
  <2> QED
    BY <2>1, <2>2, <2>3, <2>4, <2>5 DEF DraftsInv
<1>2. ASSUME NEW r \in Requests, ManualDraft(r)
      PROVE  DraftsInv'
  <2>1. RequestsHoldDrafts'
    BY <1>2 DEF ManualDraft, End, listingVars, history, RequestsHoldDrafts,
                DraftsInv
  <2>2. DraftsAreOpen'
    BY <1>2 DEF ManualDraft, End, listingVars, history, DraftsAreOpen,
                DraftsInv
  <2>3. DraftsFollowListings'
    BY <1>2 DEF ManualDraft, End, listingVars, history, DraftsFollowListings,
                RequestsHoldDrafts, DraftsInv
  <2>4. DiscardsAreFresh'
    BY <1>2 DEF ManualDraft, End, listingVars, history, DiscardsAreFresh,
                ConfirmedFrom, ListingRows, DraftsInv
  <2>5. ManualDraftsAreAccountedFor'
    BY <1>2 DEF ManualDraft, End, listingVars, history,
                ManualDraftsAreAccountedFor, ConfirmedFrom, ListingRows,
                IsManual, DraftsInv
  <2> QED
    BY <2>1, <2>2, <2>3, <2>4, <2>5 DEF DraftsInv
<1>3. ASSUME NEW r \in Requests, ConfirmBegin(r)
      PROVE  DraftsInv'
  <2>1. RequestsHoldDrafts'
    BY <1>3 DEF ConfirmBegin, Begin, StoreUnchanged, listingVars, inputVars,
                history, RequestsHoldDrafts, DraftsInv
  <2>2. DraftsAreOpen'
    BY <1>3 DEF ConfirmBegin, Begin, StoreUnchanged, listingVars, inputVars,
                history, DraftsAreOpen, DraftsInv
  <2>3. DraftsFollowListings'
    BY <1>3 DEF ConfirmBegin, Begin, StoreUnchanged, listingVars, inputVars,
                history, DraftsFollowListings, RequestsHoldDrafts, DraftsInv
  <2>4. DiscardsAreFresh'
    BY <1>3 DEF ConfirmBegin, Begin, StoreUnchanged, listingVars, inputVars,
                history, DiscardsAreFresh, ConfirmedFrom, ListingRows,
                DraftsInv
  <2>5. ManualDraftsAreAccountedFor'
    BY <1>3 DEF ConfirmBegin, Begin, StoreUnchanged, listingVars, inputVars,
                history, ManualDraftsAreAccountedFor, ConfirmedFrom,
                ListingRows, IsManual, DraftsInv
  <2> QED
    BY <2>1, <2>2, <2>3, <2>4, <2>5 DEF DraftsInv
<1>4. ASSUME NEW r \in Requests, CheckLimit(r)
      PROVE  DraftsInv'
  <2>1. RequestsHoldDrafts'
    BY <1>4 DEF CheckLimit, Refuse, Goto, End, StoreUnchanged, listingVars,
                inputVars, history, RequestsHoldDrafts, IsManual, DraftsInv
  <2>2. DraftsAreOpen'
    BY <1>4 DEF CheckLimit, Refuse, Goto, End, StoreUnchanged, listingVars,
                inputVars, history, DraftsAreOpen, IsManual, DraftsInv
  <2>3. DraftsFollowListings'
    BY <1>4 DEF CheckLimit, Refuse, Goto, End, StoreUnchanged, listingVars,
                inputVars, history, DraftsFollowListings, RequestsHoldDrafts,
                IsManual, DraftsInv
  <2>4. DiscardsAreFresh'
    BY <1>4 DEF CheckLimit, Refuse, Goto, End, StoreUnchanged, listingVars,
                inputVars, history, DiscardsAreFresh, ConfirmedFrom,
                ListingRows, IsManual, DraftsInv
  <2>5. ManualDraftsAreAccountedFor'
    BY <1>4 DEF CheckLimit, Refuse, Goto, End, StoreUnchanged, listingVars,
                inputVars, history, ManualDraftsAreAccountedFor,
                ConfirmedFrom, ListingRows, IsManual, RequestsHoldDrafts,
                DraftsAreOpen, DraftsInv
  <2> QED
    BY <2>1, <2>2, <2>3, <2>4, <2>5 DEF DraftsInv
<1>5. ASSUME NEW r \in Requests, InsertListing(r)
      PROVE  DraftsInv'
  <2>1. RequestsHoldDrafts'
    BY <1>5 DEF InsertListing, Refuse, Goto, End, inputVars,
                RequestsHoldDrafts, IsManual, DraftsInv
  <2>2. DraftsAreOpen'
    BY <1>5 DEF InsertListing, Refuse, Goto, End, inputVars, DraftsAreOpen,
                IsManual, DraftsInv
  <2>3. DraftsFollowListings'
    BY <1>5 DEF InsertListing, Refuse, Goto, End, inputVars,
                DraftsFollowListings, RequestsHoldDrafts, IsManual, DraftsInv
  <2>4. DiscardsAreFresh'
    BY <1>5 DEF InsertListing, Refuse, Goto, End, inputVars, DiscardsAreFresh,
                ConfirmedFrom, ListingRows, IsManual, DraftsInv
  <2>5. ManualDraftsAreAccountedFor'
    BY <1>5 DEF InsertListing, Refuse, Goto, End, inputVars,
                ManualDraftsAreAccountedFor, ConfirmedFrom, ListingRows,
                IsManual, RequestsHoldDrafts, DraftsAreOpen, DraftsInv
  <2> QED
    BY <2>1, <2>2, <2>3, <2>4, <2>5 DEF DraftsInv
<1>6. ASSUME NEW r \in Requests, Cleanup(r)
      PROVE  DraftsInv'
  <2>1. RequestsHoldDrafts'
    BY <1>6 DEF Cleanup, End, listingVars, history, RequestsHoldDrafts,
                DraftsInv
  <2>2. DraftsAreOpen'
    BY <1>6 DEF Cleanup, End, listingVars, history, DraftsAreOpen, DraftsInv
  <2>3. DraftsFollowListings'
    BY <1>6 DEF Cleanup, End, listingVars, history, DraftsFollowListings,
                RequestsHoldDrafts, ConfirmedFrom, ListingRows, DraftsInv
  <2>4. DiscardsAreFresh'
    BY <1>6 DEF Cleanup, End, listingVars, history, DiscardsAreFresh,
                ConfirmedFrom, ListingRows, DraftsInv
  <2>5. ManualDraftsAreAccountedFor'
    BY <1>6 DEF Cleanup, End, listingVars, history,
                ManualDraftsAreAccountedFor, ConfirmedFrom, ListingRows,
                IsManual, DraftsInv
  <2> QED
    BY <2>1, <2>2, <2>3, <2>4, <2>5 DEF DraftsInv
<1>7. ASSUME NEW r \in Requests, DiscardBegin(r)
      PROVE  DraftsInv'
  <2>1. RequestsHoldDrafts'
    BY <1>7 DEF DiscardBegin, Begin, StoreUnchanged, listingVars, inputVars,
                history, RequestsHoldDrafts, DraftsInv
  <2>2. DraftsAreOpen'
    BY <1>7 DEF DiscardBegin, Begin, StoreUnchanged, listingVars, inputVars,
                history, DraftsAreOpen, DraftsInv
  <2>3. DraftsFollowListings'
    BY <1>7 DEF DiscardBegin, Begin, StoreUnchanged, listingVars, inputVars,
                history, DraftsFollowListings, RequestsHoldDrafts, DraftsInv
  <2>4. DiscardsAreFresh'
    BY <1>7 DEF DiscardBegin, Begin, StoreUnchanged, listingVars, inputVars,
                history, DiscardsAreFresh, ConfirmedFrom, ListingRows,
                DraftsInv
  <2>5. ManualDraftsAreAccountedFor'
    BY <1>7 DEF DiscardBegin, Begin, StoreUnchanged, listingVars, inputVars,
                history, ManualDraftsAreAccountedFor, ConfirmedFrom,
                ListingRows, IsManual, DraftsInv
  <2> QED
    BY <2>1, <2>2, <2>3, <2>4, <2>5 DEF DraftsInv
<1>8. ASSUME NEW r \in Requests, Discard(r)
      PROVE  DraftsInv'
  <2>1. RequestsHoldDrafts'
    BY <1>8 DEF Discard, ForgetInput, End, history, RequestsHoldDrafts,
                DraftsInv
  <2>2. DraftsAreOpen'
    BY <1>8 DEF Discard, ForgetInput, End, history, DraftsAreOpen, DraftsInv
  <2>3. DraftsFollowListings'
    BY <1>8 DEF Discard, ForgetInput, End, history, DraftsFollowListings,
                RequestsHoldDrafts, DraftsInv
  <2>4. DiscardsAreFresh'
    BY <1>8 DEF Discard, ForgetInput, End, history, DiscardsAreFresh,
                ConfirmedFrom, ListingRows, DraftsInv
  <2>5. ManualDraftsAreAccountedFor'
    <3> SUFFICES ASSUME NEW i \in Inputs,
                        draft'[i] \in Sessions, IsManual(i)', i \notin died'
                 PROVE  \/ ConfirmedFrom(i)' # {}
                        \/ \E q \in Requests :
                             /\ pc'[q] \in {"limit", "insert", "cleanup"}
                             /\ rinput'[q] = i
      BY DEF ManualDraftsAreAccountedFor
    <3>1. i # rinput[r] /\ draft[i] = draft'[i] /\ IsManual(i) /\ i \notin died
      BY <1>8 DEF Discard, IsManual, history
    <3>2. ConfirmedFrom(i)' = ConfirmedFrom(i)
      BY <1>8, <3>1 DEF Discard, ForgetInput, ConfirmedFrom, ListingRows
    <3>3. \A q \in Requests :
            pc[q] \in {"limit", "insert", "cleanup"} =>
              pc'[q] = pc[q] /\ rinput'[q] = rinput[q]
      BY <1>8 DEF Discard, End
    <3> QED
      BY <3>1, <3>2, <3>3 DEF ManualDraftsAreAccountedFor, DraftsInv
  <2> QED
    BY <2>1, <2>2, <2>3, <2>4, <2>5 DEF DraftsInv
<1>9. ASSUME NEW r \in Requests, RequestDies(r)
      PROVE  DraftsInv'
  <2>1. RequestsHoldDrafts'
    BY <1>9 DEF RequestDies, End, StoreUnchanged, listingVars, inputVars,
                RequestsHoldDrafts, DraftsInv
  <2>2. DraftsAreOpen'
    BY <1>9 DEF RequestDies, End, StoreUnchanged, listingVars, inputVars,
                DraftsAreOpen, DraftsInv
  <2>3. DraftsFollowListings'
    BY <1>9 DEF RequestDies, End, StoreUnchanged, listingVars, inputVars,
                DraftsFollowListings, RequestsHoldDrafts, DraftsInv
  <2>4. DiscardsAreFresh'
    BY <1>9 DEF RequestDies, End, StoreUnchanged, listingVars, inputVars,
                DiscardsAreFresh, ConfirmedFrom, ListingRows, DraftsInv
  <2>5. ManualDraftsAreAccountedFor'
    BY <1>9 DEF RequestDies, End, StoreUnchanged, listingVars, inputVars,
                ManualDraftsAreAccountedFor, ConfirmedFrom, ListingRows,
                IsManual, RequestsHoldDrafts, DraftsAreOpen, DraftsInv
  <2> QED
    BY <2>1, <2>2, <2>3, <2>4, <2>5 DEF DraftsInv
<1>10. ASSUME NEW s \in Sessions, SmartPaste(s)
      PROVE  DraftsInv'
  <2>1. RequestsHoldDrafts'
    BY <1>10 DEF SmartPaste, listingVars, requestVars, history,
                 RequestsHoldDrafts, DraftsInv
  <2>2. DraftsAreOpen'
    BY <1>10 DEF SmartPaste, listingVars, requestVars, history, DraftsAreOpen,
                 DraftsInv
  <2>3. DraftsFollowListings'
    BY <1>10 DEF SmartPaste, listingVars, requestVars, history,
                 DraftsFollowListings, RequestsHoldDrafts, DraftsInv
  <2>4. DiscardsAreFresh'
    BY <1>10 DEF SmartPaste, listingVars, requestVars, history,
                 DiscardsAreFresh, ConfirmedFrom, ListingRows, DraftsInv
  <2>5. ManualDraftsAreAccountedFor'
    BY <1>10 DEF SmartPaste, listingVars, requestVars, history,
                 ManualDraftsAreAccountedFor, ConfirmedFrom, ListingRows,
                 IsManual, DraftsInv
  <2> QED
    BY <2>1, <2>2, <2>3, <2>4, <2>5 DEF DraftsInv
<1>11. ASSUME NEW s \in Sessions, DeleteSession(s)
      PROVE  DraftsInv'
  <2>1. RequestsHoldDrafts'
    BY <1>11 DEF DeleteSession, requestVars, history, RequestsHoldDrafts,
                 DraftsInv
  <2>2. DraftsAreOpen'
    BY <1>11 DEF DeleteSession, requestVars, history, DraftsAreOpen, DraftsInv
  <2>3. DraftsFollowListings'
    BY <1>11 DEF DeleteSession, requestVars, history, DraftsFollowListings,
                 RequestsHoldDrafts, DraftsInv
  <2>4. DiscardsAreFresh'
    BY <1>11 DEF DeleteSession, requestVars, history, DiscardsAreFresh,
                 ConfirmedFrom, ListingRows, DraftsInv
  <2>5. ManualDraftsAreAccountedFor'
    BY <1>11 DEF DeleteSession, requestVars, history,
                 ManualDraftsAreAccountedFor, ConfirmedFrom, ListingRows,
                 IsManual, DraftsInv
  <2> QED
    BY <2>1, <2>2, <2>3, <2>4, <2>5 DEF DraftsInv
<1>12. ASSUME NEW s \in Sessions, NEW l \in Listings, DeleteListing(s, l)
      PROVE  DraftsInv'
  <2>1. RequestsHoldDrafts'
    BY <1>12 DEF DeleteListing, ForgetInput, inputVars, requestVars, history,
                 RequestsHoldDrafts, DraftsInv
  <2>2. DraftsAreOpen'
    BY <1>12 DEF DeleteListing, ForgetInput, inputVars, requestVars, history,
                 DraftsAreOpen, DraftsInv
  <2>3. DraftsFollowListings'
    BY <1>12 DEF DeleteListing, ForgetInput, inputVars, requestVars, history,
                 DraftsFollowListings, RequestsHoldDrafts, DraftsInv
  <2>4. DiscardsAreFresh'
    BY <1>12 DEF DeleteListing, ForgetInput, inputVars, requestVars, history,
                 DiscardsAreFresh, ConfirmedFrom, ListingRows, DraftsInv
  <2>5. ManualDraftsAreAccountedFor'
    BY <1>12 DEF DeleteListing, ForgetInput, inputVars, requestVars, history,
                 ManualDraftsAreAccountedFor, ConfirmedFrom, ListingRows,
                 IsManual, DraftsInv
  <2> QED
    BY <2>1, <2>2, <2>3, <2>4, <2>5 DEF DraftsInv
<1>13. ASSUME NEW l \in Listings, AddEvidence(l)
      PROVE  DraftsInv'
  <2>1. RequestsHoldDrafts'
    BY <1>13 DEF AddEvidence, listingVars, inputVars, requestVars, history,
                 RequestsHoldDrafts, DraftsInv
  <2>2. DraftsAreOpen'
    BY <1>13 DEF AddEvidence, listingVars, inputVars, requestVars, history,
                 DraftsAreOpen, DraftsInv
  <2>3. DraftsFollowListings'
    BY <1>13 DEF AddEvidence, listingVars, inputVars, requestVars, history,
                 DraftsFollowListings, RequestsHoldDrafts, DraftsInv
  <2>4. DiscardsAreFresh'
    BY <1>13 DEF AddEvidence, listingVars, inputVars, requestVars, history,
                 DiscardsAreFresh, ConfirmedFrom, ListingRows, DraftsInv
  <2>5. ManualDraftsAreAccountedFor'
    BY <1>13 DEF AddEvidence, listingVars, inputVars, requestVars, history,
                 ManualDraftsAreAccountedFor, ConfirmedFrom, ListingRows,
                 IsManual, DraftsInv
  <2> QED
    BY <2>1, <2>2, <2>3, <2>4, <2>5 DEF DraftsInv
<1>14. CASE UNCHANGED vars
  BY <1>14 DEF vars, listingVars, inputVars, requestVars, history, DraftsInv,
     RequestsHoldDrafts, DraftsAreOpen, DraftsFollowListings, DiscardsAreFresh,
     ManualDraftsAreAccountedFor, ConfirmedFrom, ListingRows, IsManual
<1> QED
  BY <1>1, <1>2, <1>3, <1>4, <1>5, <1>6, <1>7, <1>8, <1>9, <1>10, <1>11,
     <1>12, <1>13, <1>14
  DEF Next, RequestStep

-----------------------------------------------------------------------------
(* The invariant, and the invariants it implies.                           *)

\* What the tables, the drafts and the requests under way know of each other
\* is an inductive invariant of the listing tables.
THEOREM Inductive == Spec => []IInv
<1>1. Init => IInv
  BY InitTyped, InitPlaces, InitDrafts DEF IInv
<1>2. IInv /\ [Next]_vars => IInv'
  BY StepTyped, StepPlaces, StepDrafts DEF IInv
<1> QED
  BY <1>1, <1>2, PTL DEF Spec

\* The tables and the requests that act on them are well typed.
THEOREM TypeCorrect == Spec => []TypeOK
<1>1. IInv => TypeOK
  BY DEF IInv
<1> QED
  BY <1>1, Inductive, PTL

\* confirm_listing's check, though apart from its insert, bounds a shortlist by
\* the limit and one listing more for each further concurrent request.
THEOREM ShortlistsAreBounded == Spec => []ListingsBounded
<1>1. IInv => ListingsBounded
  <2> SUFFICES ASSUME IInv, NEW s \in Sessions
               PROVE  Cardinality(ListingsOf(s)) <= Capacity
    BY DEF ListingsBounded
  <2>1. Cardinality(ListingsOf(s)) + Cardinality(Promised(s)) <= Capacity
    BY DEF PlacesAreBounded, IInv
  <2> QED
    BY <2>1, Finite, LimitAssumption DEF Capacity
<1> QED
  BY <1>1, Inductive, PTL

\* Every refusal of a manual listing takes its draft back.
THEOREM NoDraftIsLeftBehind == Spec => []ManualDraftsAreAccountedFor
<1>1. IInv => ManualDraftsAreAccountedFor
  BY DEF DraftsInv, IInv
<1> QED
  BY <1>1, Inductive, PTL

-----------------------------------------------------------------------------
(* What a step may never do.                                               *)

\* A listing keeps the draft it came from, whatever is removed or discarded.
THEOREM DraftsStayWithListings == Spec => ListingsKeepTheirDrafts
<1> DEFINE Excused(l) ==
        \/ source[l] \in late
        \/ \E k \in Listings \ {l} : source[k] = source[l] /\ home'[k] = "gone"
<1>1. ASSUME TypeOK, DraftsInv, [Next]_vars, NEW l \in Listings,
             source[l] # None, source'[l] = None, home'[l] \in Sessions
      PROVE  Excused(l)
  <2> USE DEF TypeOK
  <2>1. ASSUME NEW r \in Requests,
               \/ ManualBegin(r) \/ ManualDraft(r) \/ ConfirmBegin(r)
               \/ CheckLimit(r) \/ Cleanup(r) \/ DiscardBegin(r)
               \/ RequestDies(r)
        PROVE  Excused(l)
    BY <1>1, <2>1 DEF ManualBegin, ManualDraft, ConfirmBegin, CheckLimit,
                      Cleanup, DiscardBegin, RequestDies, StoreUnchanged,
                      listingVars
  <2>2. ASSUME NEW r \in Requests, InsertListing(r) PROVE Excused(l)
    BY <1>1, <2>2 DEF InsertListing
  <2>3. ASSUME NEW r \in Requests, Discard(r) PROVE Excused(l)
    <3>1. source[l] = rinput[r] /\ l \in ConfirmedFrom(rinput[r])
      BY <1>1, <2>3 DEF Discard, ForgetInput, ConfirmedFrom, ListingRows
    <3> QED
      BY <1>1, <2>3, <3>1 DEF Discard, DiscardsAreFresh, DraftsInv
  <2>4. ASSUME NEW s \in Sessions, NEW k \in Listings, DeleteListing(s, k)
        PROVE  Excused(l)
    <3>1. home'[k] = "gone" /\ k # l
      BY <1>1, <2>4 DEF DeleteListing
    <3>2. source[k] = source[l]
      BY <1>1, <2>4 DEF DeleteListing, ForgetInput
    <3> QED
      BY <3>1, <3>2
  <2>5. ASSUME NEW s \in Sessions, DeleteSession(s) PROVE Excused(l)
    <3>1. home[l] \in Sessions /\ home[l] # s /\ draft[source[l]] = s
      BY <1>1, <2>5 DEF DeleteSession
    <3> QED
      BY <1>1, <3>1 DEF DraftsFollowListings, DraftsInv
  <2>6. ASSUME NEW s \in Sessions, SmartPaste(s) PROVE Excused(l)
    BY <1>1, <2>6 DEF SmartPaste, listingVars
  <2>7. ASSUME NEW k \in Listings, AddEvidence(k) PROVE Excused(l)
    BY <1>1, <2>7 DEF AddEvidence, listingVars
  <2>8. CASE UNCHANGED vars
    BY <1>1, <2>8 DEF vars, listingVars
  <2> QED
    BY <1>1, <2>1, <2>2, <2>3, <2>4, <2>5, <2>6, <2>7, <2>8 DEF Next, RequestStep
<1>2. IInv /\ [Next]_vars
        => [\A l \in Listings :
              source[l] # None /\ source'[l] = None /\ home'[l] \in Sessions
                => Excused(l)]_vars
  BY <1>1 DEF IInv
<1> QED
  BY <1>2, Inductive, PTL DEF Spec, ListingsKeepTheirDrafts

-----------------------------------------------------------------------------
(* Refinement.                                                             *)

\* The empty tables are the empty shortlists.
LEMMA InitRefines == Init => Abstract!Init
BY DEF Init, Abstract!Init, EntriesOf, ListingsOf

\* A shortlist has no more entries than listings.
LEMMA EntriesCounted ==
    ASSUME NEW s \in Sessions
    PROVE  Cardinality(EntriesOf(s)) <= Cardinality(ListingsOf(s))
<1> DEFINE entry == [l \in ListingsOf(s) |-> Entry(l)]
<1>1. entry \in Surjection(ListingsOf(s), EntriesOf(s))
  BY DEF Surjection, EntriesOf
<1> QED
  BY <1>1, Finite, FS_Surjection

\* An accepted insert is an Add.
LEMMA InsertRefines ==
    ASSUME TypeOK, PlacesAreBounded, NEW r \in Requests, NEW l \in Listings,
           pc[r] = "insert", rsession[r] \in sessions,
           UniqueKeyAllows(rsession[r], rflat[r]),
           home[l] = "absent", flat[l] = rflat[r],
           home' = [home EXCEPT ![l] = rsession[r]],
           UNCHANGED <<sessions, flat>>
    PROVE  Abstract!Next
<1> DEFINE s == rsession[r]
           shortlist == [t \in Sessions |-> EntriesOf(t)]
<1>1. s \in Sessions /\ Entry(l) \in [id : Listings, flat : Flats]
  BY DEF TypeOK, Entry
<1>2. \A other \in shortlist[s] :
        other.id # Entry(l).id /\ other.flat # Entry(l).flat
  BY <1>1 DEF EntriesOf, Entry, ListingsOf, UniqueKeyAllows, FlatsOf
<1>3. Cardinality(shortlist[s]) < Capacity
  <2>1. r \in Promised(s)
    BY DEF Promised
  <2>2. Cardinality(Promised(s)) >= 1
    BY <1>1, <2>1, Finite, FS_EmptySet
  <2>3. Cardinality(EntriesOf(s)) <= Cardinality(ListingsOf(s))
    BY <1>1, EntriesCounted
  <2>4. Cardinality(EntriesOf(s)) \in Nat
    <3>1. [k \in ListingsOf(s) |-> Entry(k)]
            \in Surjection(ListingsOf(s), EntriesOf(s))
      BY DEF Surjection, EntriesOf
    <3>2. IsFiniteSet(EntriesOf(s))
      BY <1>1, <3>1, Finite, FS_Surjection
    <3> QED
      BY <3>2, FS_CardinalityType
  <2>5. Cardinality(ListingsOf(s)) + Cardinality(Promised(s)) <= Capacity
    BY <1>1 DEF PlacesAreBounded
  <2>6. Capacity \in Int
    BY <1>1, Finite, LimitAssumption DEF Capacity
  <2> QED
    BY <1>1, <2>2, <2>3, <2>4, <2>5, <2>6, Finite
<1>4. shortlist' = [shortlist EXCEPT ![s] = @ \cup {Entry(l)}]
  <2>1. \A t \in Sessions :
          EntriesOf(t)' = IF t = s THEN EntriesOf(t) \cup {Entry(l)} ELSE EntriesOf(t)
    BY <1>1 DEF TypeOK, EntriesOf, Entry, ListingsOf
  <2> QED
    BY <1>1, <2>1
<1>5. Abstract!Cardinality(shortlist[s]) = Cardinality(shortlist[s])
  BY DEF Abstract!Cardinality, Cardinality
<1>6. Abstract!Add(s, Entry(l))
  BY <1>1, <1>2, <1>3, <1>4, <1>5 DEF Abstract!Add
<1> QED
  BY <1>1, <1>6 DEF Abstract!Next

\* A removed listing is a Remove.
LEMMA DeleteListingRefines ==
    ASSUME TypeOK, NEW s \in Sessions, NEW l \in Listings, DeleteListing(s, l)
    PROVE  Abstract!Next
<1> DEFINE shortlist == [t \in Sessions |-> EntriesOf(t)]
<1>1. home[l] = s /\ home' = [home EXCEPT ![l] = "gone"]
      /\ UNCHANGED <<sessions, flat>>
  BY DEF DeleteListing
<1>2. Entry(l) \in [id : Listings, flat : Flats] /\ Entry(l) \in shortlist[s]
  BY <1>1 DEF TypeOK, Entry, EntriesOf, ListingsOf
<1>3. shortlist' = [shortlist EXCEPT ![s] = @ \ {Entry(l)}]
  <2>1. \A t \in Sessions :
          EntriesOf(t)' = IF t = s THEN EntriesOf(t) \ {Entry(l)} ELSE EntriesOf(t)
    BY <1>1 DEF TypeOK, EntriesOf, Entry, ListingsOf
  <2> QED
    BY <2>1
<1>4. Abstract!Remove(s, Entry(l))
  BY <1>1, <1>2, <1>3 DEF Abstract!Remove
<1> QED
  BY <1>2, <1>4 DEF Abstract!Next

\* A deleted session is a Close.
LEMMA DeleteSessionRefines ==
    ASSUME TypeOK, NEW s \in Sessions, DeleteSession(s)
    PROVE  Abstract!Next
<1> DEFINE shortlist == [t \in Sessions |-> EntriesOf(t)]
<1>1. /\ s \in sessions /\ sessions' = sessions \ {s}
      /\ home' = [l \in Listings |-> IF home[l] = s THEN "orphan" ELSE home[l]]
      /\ flat' = flat
  BY DEF DeleteSession
<1>2. shortlist' = [shortlist EXCEPT ![s] = {}]
  <2>1. \A t \in Sessions : EntriesOf(t)' = IF t = s THEN {} ELSE EntriesOf(t)
    BY <1>1 DEF TypeOK, EntriesOf, Entry, ListingsOf
  <2> QED
    BY <2>1
<1>3. Abstract!Close(s)
  BY <1>1, <1>2 DEF Abstract!Close
<1> QED
  BY <1>3 DEF Abstract!Next

\* Every step of the tables is one of the shortlist, or none.
LEMMA StepRefines ==
    TypeOK /\ PlacesAreBounded /\ [Next]_vars => [Abstract!Next]_(Abstract!vars)
<1> SUFFICES ASSUME TypeOK, PlacesAreBounded, [Next]_vars
             PROVE  Abstract!Next \/ UNCHANGED <<sessions, home, flat>>
  BY DEF Abstract!vars, EntriesOf, Entry, ListingsOf
<1>1. ASSUME NEW r \in Requests, InsertListing(r)
      PROVE  Abstract!Next \/ UNCHANGED <<sessions, home, flat>>
  <2>1. CASE \E l \in Listings :
                /\ home[l] = "absent"
                /\ flat[l] = rflat[r]
                /\ home' = [home EXCEPT ![l] = rsession[r]]
                /\ rsession[r] \in sessions
                /\ UniqueKeyAllows(rsession[r], rflat[r])
    BY <1>1, <2>1, InsertRefines DEF InsertListing
  <2>2. CASE home' = home
    BY <1>1, <2>2 DEF InsertListing
  <2> QED
    BY <1>1, <2>1, <2>2 DEF InsertListing
<1>2. ASSUME NEW r \in Requests,
             \/ ManualBegin(r) \/ ManualDraft(r) \/ ConfirmBegin(r)
             \/ CheckLimit(r) \/ Cleanup(r) \/ DiscardBegin(r) \/ Discard(r)
             \/ RequestDies(r)
      PROVE  UNCHANGED <<sessions, home, flat>>
  BY <1>2 DEF ManualBegin, ManualDraft, ConfirmBegin, CheckLimit, Cleanup,
              DiscardBegin, Discard, RequestDies, StoreUnchanged, listingVars
<1>3. ASSUME NEW s \in Sessions, SmartPaste(s)
      PROVE  UNCHANGED <<sessions, home, flat>>
  BY <1>3 DEF SmartPaste, listingVars
<1>4. ASSUME NEW l \in Listings, AddEvidence(l)
      PROVE  UNCHANGED <<sessions, home, flat>>
  BY <1>4 DEF AddEvidence, listingVars
<1>5. CASE UNCHANGED vars
  BY <1>5 DEF vars, listingVars
<1> QED
  BY <1>1, <1>2, <1>3, <1>4, <1>5, DeleteListingRefines, DeleteSessionRefines
  DEF Next, RequestStep

\* Every behaviour of the tables is one of the shortlist the buyer relies on:
\* no flat is listed twice, nothing comes or goes but by a request of the
\* session, and the shortlist stays within Capacity.
THEOREM StoreImplementsShortlist == Spec => ImplementsShortlist
<1>1. IInv => TypeOK /\ PlacesAreBounded
  BY DEF IInv
<1> QED
  BY <1>1, Inductive, InitRefines, StepRefines, PTL DEF Spec, ImplementsShortlist, Abstract!Spec

=============================================================================
