---------------------------- MODULE BuyerProfile ----------------------------
(***************************************************************************)
(* Saving a buyer profile.  A save replaces the profile's requirements and *)
(* locations, and draws a new id for each location, while a requirement or *)
(* a priority names a location by an id the client has read before.  Two   *)
(* saves of one session may overlap: each deletes the rows it has seen.    *)
(*                                                                         *)
(* A save carries at most one location, one requirement and one journey    *)
(* priority; its location's id is the save's number.                       *)
(***************************************************************************)
EXTENDS Naturals, FiniteSets

CONSTANTS
    Savers,             \* browser tabs with the session open
    MaxProfileSaves,    \* bound: PUT requests
    Plain,              \* a requirement about the flat itself
    Unnamed             \* no requirement or priority; an id the database cleared

ASSUME ProfileAssumption ==
    MaxProfileSaves \in Nat /\ Plain # Unnamed /\ {Plain, Unnamed} \cap Nat = {}

SaveIds == 1..MaxProfileSaves

VARIABLES
    puts,           \* saves begun
    put,            \* tab -> its save between read and commit, or Idle
    hasProfile,
    locations,      \* ids of important_locations rows
    limits,         \* hard_requirements rows: [save, on]
    journeyOn,      \* the location id in priorities_json, or Unnamed
    profileSave,    \* history: the last save that committed
    issued,         \* history: every location id that was ever committed
    overlapped,     \* history: whether a save was read while another was open
    driven,         \* locations with an available driving journey
    comparison      \* what the last comparison said of a driving limit

profileVars == <<puts, put, hasProfile, locations, limits, journeyOn, profileSave,
                 issued, overlapped, driven, comparison>>

Idle == [save |-> 0]

ProfileInit ==
    /\ puts = 0 /\ put = [s \in Savers |-> Idle]
    /\ hasProfile = FALSE /\ locations = {} /\ limits = {} /\ journeyOn = Unnamed
    /\ profileSave = 0 /\ issued = {} /\ overlapped = FALSE
    /\ driven = {} /\ comparison = "none"

\* The body names ids the tab has read; the handler checks none of them.
BeginSave(s, limit, journey, located) ==
    /\ put[s] = Idle /\ puts < MaxProfileSaves
    /\ puts' = puts + 1
    /\ put' = [put EXCEPT ![s] =
                  [save |-> puts + 1, limit |-> limit, journey |-> journey, located |-> located,
                   first |-> ~hasProfile, seenLimits |-> limits, seenLocations |-> locations]]
    /\ overlapped' = (overlapped \/ \E t \in Savers : put[t] # Idle)
    /\ UNCHANGED <<hasProfile, locations, limits, journeyOn, profileSave, issued, driven, comparison>>

(***************************************************************************)
(* The flush.  Rows deleted by another save in between are no error.  A    *)
(* requirement on a location this save deletes is inserted before or after *)
(* the deletion: nothing orders the two tables' rows, and only the first   *)
(* order satisfies the foreign key, which then clears the id.              *)
(***************************************************************************)
MayCommit(p) ==
    /\ p.first => ~hasProfile
    /\ p.limit \in {Plain, Unnamed} \/ p.limit \in locations

Cleared(rows, gone) == {[save |-> l.save, on |-> IF l.on \in gone THEN Unnamed ELSE l.on] : l \in rows}

NewLimit(p) == IF p.limit = Unnamed THEN {} ELSE {[save |-> p.save, on |-> p.limit]}

Replace(s, keptLimits, gone) ==
    LET p == put[s] IN
    /\ MayCommit(p)
    /\ hasProfile' = TRUE
    /\ locations' = (locations \ gone) \cup (IF p.located THEN {p.save} ELSE {})
    /\ limits' = Cleared(keptLimits \cup NewLimit(p), gone)
    /\ journeyOn' = p.journey /\ profileSave' = p.save
    /\ issued' = issued \cup (IF p.located THEN {p.save} ELSE {})
    /\ driven' = driven \ gone
    /\ put' = [put EXCEPT ![s] = Idle]
    /\ UNCHANGED <<puts, overlapped, comparison>>

CommitKeepsLimits(s) == put[s] # Idle /\ Replace(s, limits, put[s].seenLocations)

CommitKeepsLocations(s) == put[s] # Idle /\ Replace(s, limits \ put[s].seenLimits, {})

CommitSave(s) == put[s] # Idle /\ Replace(s, limits \ put[s].seenLimits, put[s].seenLocations)

\* The unique index on session_id, or the foreign key: 500, rolled back.
SaveFails(s) ==
    /\ put[s] # Idle
    /\ ~MayCommit(put[s]) \/ put[s].limit \in put[s].seenLocations
    /\ put' = [put EXCEPT ![s] = Idle]
    /\ UNCHANGED <<puts, hasProfile, locations, limits, journeyOn, profileSave, issued,
                   overlapped, driven, comparison>>

\* An enrichment run stores a driving journey to a location of the profile.
StoreDriving(l) ==
    /\ l \in locations
    /\ driven' = driven \cup {l}
    /\ UNCHANGED <<puts, put, hasProfile, locations, limits, journeyOn, profileSave, issued,
                   overlapped, comparison>>

(***************************************************************************)
(* get_comparison: a driving limit whose id was cleared fails validation,  *)
(* and the handler answers 404 for the whole comparison.                   *)
(***************************************************************************)
Compare ==
    /\ hasProfile
    /\ comparison' =
           IF \E l \in limits : l.on = Unnamed THEN "404"
           ELSE IF \E l \in limits : l.on \in driven THEN "PASS or FAIL"
           ELSE IF \E l \in limits : l.on # Plain THEN "CANNOT_DETERMINE"
           ELSE "no driving limit"
    /\ UNCHANGED <<puts, put, hasProfile, locations, limits, journeyOn, profileSave, issued,
                   overlapped, driven>>

ProfileNext ==
    \/ \E s \in Savers :
           \/ \E limit \in {Plain, Unnamed} \cup issued, journey \in {Unnamed} \cup issued,
                 located \in BOOLEAN : BeginSave(s, limit, journey, located)
           \/ CommitSave(s)
           \/ SaveFails(s)
    \/ \E l \in SaveIds : StoreDriving(l)
    \/ Compare

ProfileSpec == ProfileInit /\ [][ProfileNext]_profileVars

-----------------------------------------------------------------------------
ProfileTypeOK ==
    /\ puts \in 0..MaxProfileSaves
    /\ locations \subseteq issued /\ issued \subseteq SaveIds /\ driven \subseteq locations
    /\ \A l \in limits : l.save \in SaveIds /\ l.on \in SaveIds \cup {Plain, Unnamed}
    /\ journeyOn \in SaveIds \cup {Unnamed}

(***************************************************************************)
(* Unless two saves overlapped, the stored profile is one save's: its      *)
(* requirements and locations are those of the save that wrote its row     *)
(* (upsert_buyer_profile deletes what the earlier save left).              *)
(***************************************************************************)
ProfileIsOfOneSave ==
    ~overlapped => /\ \A l \in limits : l.save = profileSave
                   /\ locations \subseteq {profileSave}

(***************************************************************************)
(* Unless two saves overlapped, no stored requirement or priority names a  *)
(* location of the stored profile: the ids a client can name are those of  *)
(* earlier saves, and a save replaces them all.  No driving limit is       *)
(* judged, and no journey priority is scored.                              *)
(***************************************************************************)
SavedNamesAreStale ==
    ~overlapped => /\ \A l \in limits : l.on \notin locations
                   /\ journeyOn \notin locations

(***************************************************************************)
(* docs/nearhome-spec.md:1554 says that an explicit maximum driving        *)
(* journey requirement may produce PASS, FAIL or CANNOT_DETERMINE.  The    *)
(* code can answer 404 instead, for the whole comparison.                  *)
(***************************************************************************)
DrivingLimitsGetAVerdict == comparison # "404"

=============================================================================
