---------------------------- MODULE SessionStore ----------------------------
(***************************************************************************)
(* The listing tables of a buyer's session: confirmed listings, the inputs *)
(* (drafts) they come from, the pasted texts behind the drafts, and the    *)
(* evidence gathered for a listing.                                        *)
(*                                                                         *)
(* A request of the API is a process and its actions are its transactions; *)
(* a transaction that acts on what it read earlier is split there (READ    *)
(* COMMITTED).  When the ORM deletes a row it first sets to NULL the keys  *)
(* of the rows it has a relationship to, unless the relationship says      *)
(* passive_deletes; the database's ON DELETE rule only meets the others.   *)
(***************************************************************************)
EXTENDS Naturals, FiniteSets

CONSTANTS
    Sessions,     \* sessions, all present initially
    Flats,        \* an address and an asking price, as the unique key sees it
    Listings,     \* ids of confirmed_listings
    Inputs,       \* ids of listing_inputs; a pasted one has its extraction
    Requests,     \* concurrent requests that add or discard
    None,         \* no input
    MaxListings   \* MAX_LISTINGS_PER_SESSION

ASSUME FiniteAssumption == IsFiniteSet(Listings) /\ IsFiniteSet(Requests)

ASSUME LimitAssumption == MaxListings \in Nat \ {0}

\* What a session_id column holds of a row that is not there yet, whose key
\* was set to NULL, or that was deleted.
NoSession == {"absent", "orphan", "gone"}

ASSUME NamesAssumption == None \notin Inputs /\ NoSession \cap Sessions = {}

VARIABLES
    sessions,    \* sessions that exist
    home,        \* listing -> its session_id
    flat,        \* listing -> its normalized_address_key and asking_price
    source,      \* listing -> its listing_input_id
    draft,       \* input -> its session_id
    paste,       \* input -> the session_id of its extraction
    evidence,    \* listings with observations, runs, fields or journeys
    leftover,    \* listings whose evidence rows outlived them
    pc,          \* request -> where it stands
    rsession,    \* request -> its session_id
    rflat,       \* request -> the flat it adds
    rinput,      \* request -> the input it confirms or discards
    died,        \* history: inputs whose request was cut off
    late         \* history: inputs confirmed while being discarded

listingVars == <<home, flat, source>>
inputVars == <<draft, paste>>
evidenceVars == <<evidence, leftover>>
requestVars == <<pc, rsession, rflat, rinput>>
history == <<died, late>>
vars == <<sessions, listingVars, inputVars, evidenceVars, requestVars, history>>

-----------------------------------------------------------------------------
TypeOK ==
    /\ sessions \subseteq Sessions
    /\ home \in [Listings -> Sessions \cup NoSession]
    /\ flat \in [Listings -> Flats]
    /\ source \in [Listings -> Inputs \cup {None}]
    /\ draft \in [Inputs -> Sessions \cup {"absent", "gone"}]
    /\ paste \in [Inputs -> Sessions \cup NoSession]
    /\ evidence \subseteq Listings
    /\ leftover \subseteq Listings
    /\ pc \in [Requests -> {"idle", "draft", "limit", "insert", "cleanup",
                            "discard"}]
    /\ rsession \in [Requests -> Sessions]
    /\ rflat \in [Requests -> Flats]
    /\ rinput \in [Requests -> Inputs \cup {None}]
    /\ \A r \in Requests :
        pc[r] \in {"limit", "insert", "cleanup", "discard"} => rinput[r] \in Inputs
    /\ died \subseteq Inputs
    /\ late \subseteq Inputs

Init ==
    /\ sessions = Sessions
    /\ home = [l \in Listings |-> "absent"]
    /\ flat \in [Listings -> Flats]     \* fixed when the row is inserted
    /\ source = [l \in Listings |-> None]
    /\ draft = [i \in Inputs |-> "absent"]
    /\ paste = [i \in Inputs |-> "absent"]
    /\ evidence = {}
    /\ leftover = {}
    /\ pc = [r \in Requests |-> "idle"]
    /\ rsession \in [Requests -> Sessions]
    /\ rflat \in [Requests -> Flats]
    /\ rinput = [r \in Requests |-> None]
    /\ died = {}
    /\ late = {}

-----------------------------------------------------------------------------
(* The tables.                                                             *)

ListingsOf(s) == {l \in Listings : home[l] = s}

\* confirmed_listings rows that exist, whatever their session_id.
ListingRows == {l \in Listings : home[l] \notin {"absent", "gone"}}

FlatsOf(s) == {flat[l] : l \in ListingsOf(s)}

\* has_duplicate_listing
HasDuplicate(s, f) == f \in FlatsOf(s)

\* Mutant: no uq_listing_dup.
NoUniqueKey(s, f) == s \in Sessions /\ f \in Flats

\* uq_listing_dup (session_id, normalized_address_key, asking_price)
UniqueKeyAllows(s, f) == f \notin FlatsOf(s)

\* The listing an input was confirmed as, by foreign key.
ConfirmedFrom(i) == {l \in ListingRows : source[l] = i}

\* ON DELETE SET NULL of listing_input_id.
ForgetInput(i) ==
    source' = [l \in Listings |-> IF source[l] = i THEN None ELSE source[l]]

-----------------------------------------------------------------------------
(* Requests.                                                               *)

Goto(r, where) ==
    /\ pc' = [pc EXCEPT ![r] = where]
    /\ UNCHANGED <<rsession, rflat, rinput>>

End(r) ==
    /\ pc' = [pc EXCEPT ![r] = "idle"]
    /\ rinput' = [rinput EXCEPT ![r] = None]
    /\ UNCHANGED <<rsession, rflat>>

Begin(r, s, f, i, where) ==
    /\ pc[r] = "idle"
    /\ pc' = [pc EXCEPT ![r] = where]
    /\ rsession' = [rsession EXCEPT ![r] = s]
    /\ rflat' = [rflat EXCEPT ![r] = f]
    /\ rinput' = [rinput EXCEPT ![r] = i]

StoreUnchanged == UNCHANGED <<sessions, listingVars, inputVars, evidenceVars>>

\* POST .../listings/manual: 404 without the session, 409 for a duplicate.
ManualBegin(r) ==
    /\ \E s \in sessions, f \in Flats :
        /\ ~HasDuplicate(s, f)
        /\ Begin(r, s, f, None, "draft")
    /\ StoreUnchanged
    /\ UNCHANGED history

\* create_manual_listing_input, its own transaction; the foreign key refuses
\* it once the session is gone.
ManualDraft(r) ==
    /\ pc[r] = "draft"
    /\ \/ /\ rsession[r] \in sessions
          /\ \E i \in Inputs :
              /\ draft[i] = "absent"
              /\ draft' = [draft EXCEPT ![i] = rsession[r]]
              /\ pc' = [pc EXCEPT ![r] = "limit"]
              /\ rinput' = [rinput EXCEPT ![r] = i]
          /\ UNCHANGED <<rsession, rflat>>
       \/ /\ rsession[r] \notin sessions
          /\ End(r)
          /\ UNCHANGED draft
    /\ UNCHANGED <<sessions, listingVars, paste, evidenceVars, history>>

\* POST .../smart-paste: the extraction and its draft are one transaction,
\* committed after the text was retrieved and read.
SmartPaste(s) ==
    /\ s \in sessions
    /\ \E i \in Inputs :
        /\ draft[i] = "absent"
        /\ draft' = [draft EXCEPT ![i] = s]
        /\ paste' = [paste EXCEPT ![i] = s]
    /\ UNCHANGED <<sessions, listingVars, evidenceVars, requestVars, history>>

\* Mutant: the confirmation loses the draft's id on the way.
ConfirmBeginForgets(r) ==
    /\ \E s \in sessions, f \in Flats, i \in Inputs :
        /\ draft[i] = s
        /\ paste[i] = s
        /\ ~HasDuplicate(s, f)
        /\ Begin(r, s, f, None, "limit")
    /\ StoreUnchanged
    /\ UNCHANGED history

\* POST .../listings/confirm of a pasted draft.
ConfirmBegin(r) ==
    /\ \E s \in sessions, f \in Flats, i \in Inputs :
        /\ draft[i] = s
        /\ paste[i] = s
        /\ ~HasDuplicate(s, f)
        /\ Begin(r, s, f, i, "limit")
    /\ StoreUnchanged
    /\ UNCHANGED history

IsManual(i) == paste[i] = "absent"

\* Mutant: the limit's error does not remove the manual draft.
RefuseKeepingDraft(r) == End(r)

\* A refused listing: the manual route removes its draft in a transaction of
\* its own, the other route has none of its own.
Refuse(r) == IF IsManual(rinput[r]) THEN Goto(r, "cleanup") ELSE End(r)

\* Mutant: one listing too many.
FullPlusOne(s) == Cardinality(ListingsOf(s)) > MaxListings

Full(s) == Cardinality(ListingsOf(s)) >= MaxListings

\* confirm_listing reads the session: ValueError (500) when it is gone,
\* ListingLimitError when it is full.
CheckLimit(r) ==
    /\ pc[r] = "limit"
    /\ IF rsession[r] \notin sessions
       THEN End(r)
       ELSE IF Full(rsession[r]) THEN Refuse(r) ELSE Goto(r, "insert")
    /\ StoreUnchanged
    /\ UNCHANGED history

\* ... and inserts the listing later.  The unique key and the foreign keys
\* to the session and the input turn it into an IntegrityError.
InsertListing(r) ==
    /\ pc[r] = "insert"
    /\ LET s == rsession[r]
           i == rinput[r]
           accepted == /\ s \in sessions
                       /\ draft[i] # "gone"
                       /\ UniqueKeyAllows(s, rflat[r])
       IN \/ /\ accepted
             /\ \E l \in Listings :
                 /\ home[l] = "absent"
                 /\ flat[l] = rflat[r]
                 /\ home' = [home EXCEPT ![l] = s]
                 /\ source' = [source EXCEPT ![l] = i]
             /\ late' = IF \E q \in Requests : pc[q] = "discard" /\ rinput[q] = i
                        THEN late \cup {i} ELSE late
             /\ End(r)
          \/ /\ ~accepted
             /\ Refuse(r)
             /\ UNCHANGED <<home, source, late>>
    /\ UNCHANGED <<sessions, flat, inputVars, evidenceVars, died>>

\* delete_unconfirmed_listing_input after a refused manual listing.
Cleanup(r) ==
    /\ pc[r] = "cleanup"
    /\ draft' = IF draft[rinput[r]] # "gone" /\ ConfirmedFrom(rinput[r]) = {}
                THEN [draft EXCEPT ![rinput[r]] = "gone"] ELSE draft
    /\ End(r)
    /\ UNCHANGED <<sessions, listingVars, paste, evidenceVars, history>>

\* Mutant: drafts are discarded without asking whether they are confirmed.
DiscardBeginUnchecked(r) ==
    /\ \E s \in sessions, i \in Inputs :
        /\ draft[i] = s
        /\ paste[i] = s
        /\ Begin(r, s, rflat[r], i, "discard")
    /\ StoreUnchanged
    /\ UNCHANGED history

\* DELETE .../listing-inputs/{id} loads the input and its confirmed_listing.
\* A manual draft's id reaches the client only with its listing.
DiscardBegin(r) ==
    /\ \E s \in sessions, i \in Inputs :
        /\ draft[i] = s
        /\ paste[i] = s
        /\ ConfirmedFrom(i) = {}
        /\ Begin(r, s, rflat[r], i, "discard")
    /\ StoreUnchanged
    /\ UNCHANGED history

\* delete_unconfirmed_listing_input looks at the relationship loaded before.
\* Its extraction stays.
Discard(r) ==
    /\ pc[r] = "discard"
    /\ draft' = [draft EXCEPT ![rinput[r]] = "gone"]
    /\ ForgetInput(rinput[r])
    /\ End(r)
    /\ UNCHANGED <<sessions, home, flat, paste, evidenceVars, history>>

\* The instance dies under the request.
RequestDies(r) ==
    /\ pc[r] # "idle"
    /\ died' = IF pc[r] \in {"limit", "insert", "cleanup"}
               THEN died \cup {rinput[r]} ELSE died
    /\ End(r)
    /\ StoreUnchanged
    /\ UNCHANGED late

-----------------------------------------------------------------------------
\* The worker, or an observation, writes evidence for a listing it finds.
AddEvidence(l) ==
    /\ l \in ListingRows
    /\ evidence' = evidence \cup {l}
    /\ UNCHANGED <<sessions, listingVars, inputVars, leftover, requestVars, history>>

\* delete_listing: the listing, its input and the input's extraction.  The
\* ORM sets the listing_id of the evidence it loads to NULL.
DeleteListing(s, l) ==
    /\ home[l] = s
    /\ home' = [home EXCEPT ![l] = "gone"]
    /\ LET i == source[l]
       IN IF i = None THEN UNCHANGED <<source, inputVars>>
          ELSE /\ draft' = [draft EXCEPT ![i] = "gone"]
               /\ paste' = [paste EXCEPT ![i] = IF @ = "absent" THEN @ ELSE "gone"]
               /\ ForgetInput(i)
    /\ evidence' = evidence \ {l}
    /\ leftover' = leftover \cup (evidence \cap {l})
    /\ UNCHANGED <<sessions, flat, requestVars, history>>

\* delete_session: the session's listings and extractions lose their key,
\* its inputs go by ON DELETE CASCADE.
DeleteSession(s) ==
    /\ s \in sessions
    /\ sessions' = sessions \ {s}
    /\ home' = [l \in Listings |-> IF home[l] = s THEN "orphan" ELSE home[l]]
    /\ draft' = [i \in Inputs |-> IF draft[i] = s THEN "gone" ELSE draft[i]]
    /\ paste' = [i \in Inputs |-> IF paste[i] = s THEN "orphan" ELSE paste[i]]
    /\ source' = [l \in Listings |->
                    IF source[l] # None /\ draft[source[l]] = s
                    THEN None ELSE source[l]]
    /\ UNCHANGED <<flat, evidenceVars, requestVars, history>>

RequestStep(r) ==
    \/ ManualBegin(r) \/ ManualDraft(r) \/ ConfirmBegin(r) \/ CheckLimit(r)
    \/ InsertListing(r) \/ Cleanup(r) \/ DiscardBegin(r) \/ Discard(r)
    \/ RequestDies(r)

Next ==
    \/ \E r \in Requests : RequestStep(r)
    \/ \E s \in Sessions : SmartPaste(s) \/ DeleteSession(s)
    \/ \E s \in Sessions, l \in Listings : DeleteListing(s, l)
    \/ \E l \in Listings : AddEvidence(l)

Spec == Init /\ [][Next]_vars

-----------------------------------------------------------------------------
(* What the tables promise.                                                *)

\* What the limit is worth when requests overlap: one listing more for each
\* further request that may have passed the check with this one.
Capacity == MaxListings + Cardinality(Requests) - 1

\* The check of the limit and the insert are apart, so each of the requests
\* under way may have been promised the last place; never more than that.
ListingsBounded ==
    \A s \in Sessions : Cardinality(ListingsOf(s)) <= Capacity

\* A manual draft exists only while its request is under way or its listing
\* exists, unless the request died: every refusal takes its draft back.
ManualDraftsAreAccountedFor ==
    \A i \in Inputs :
        draft[i] \in Sessions /\ IsManual(i) /\ i \notin died =>
            \/ ConfirmedFrom(i) # {}
            \/ \E r \in Requests : /\ pc[r] \in {"limit", "insert", "cleanup"}
                                  /\ rinput[r] = i

\* A shortlisted flat loses the input it was confirmed from only when another
\* listing of that input is removed, or when the input was confirmed while a
\* discard of it was under way.
ListingsKeepTheirDrafts ==
    [][\A l \in Listings :
        source[l] # None /\ source'[l] = None /\ home'[l] \in Sessions =>
            \/ source[l] \in late
            \/ \E k \in Listings \ {l} :
                 source[k] = source[l] /\ home'[k] = "gone"]_vars

\* The tables implement the shortlist a buyer relies on.
Entry(l) == [id |-> l, flat |-> flat[l]]

EntriesOf(s) == {Entry(l) : l \in ListingsOf(s)}

Abstract == INSTANCE Shortlist
    WITH Ids <- Listings, open <- sessions,
         shortlist <- [s \in Sessions |-> EntriesOf(s)]

ImplementsShortlist == Abstract!Spec

\* session_repository.py:207: "Maximum five listings per session".
AtMostMaximum ==
    \A s \in Sessions : Cardinality(ListingsOf(s)) <= MaxListings

\* docs/nearhome-spec.md "Removing a shortlisted flat": observations, runs,
\* fields and journey results are removed with the listing.
RemovalTakesTheEvidence == leftover = {}
=============================================================================
