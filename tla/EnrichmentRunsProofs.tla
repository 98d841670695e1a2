------------------------ MODULE EnrichmentRunsProofs ------------------------
(***************************************************************************)
(* The invariants of EnrichmentRuns for any number of listings,            *)
(* executions, jobs, saves and clashes.  The argument, in its order:       *)
(*  - types (TypeInv), with the listing in hand among those taken;         *)
(*  - what a step of one execution leaves alone (OthersKept, ScopeFrame,   *)
(*    TableFrame), so that each invariant is argued for the one that moves;*)
(*  - transactions: a listing taken is there or deleted for good;          *)
(*  - evidence: it is stored before the status that promises it;           *)
(*  - without clashes there is one execution at a time, so that the row an *)
(*    upsert read is still the only one at its write;                      *)
(*  - progress: what an execution has behind it is ended (Due), what it    *)
(*    has marked and not settled is not SUCCEEDED (Underway), and a step   *)
(*    moves one pair of listing and type from the second to the first.     *)
(***************************************************************************)
EXTENDS EnrichmentRuns, FiniteSetTheorems, TLAPS

Statuses == Terminal \cup {"none", "QUEUED", "RUNNING"}
StatusTable == [Listings -> [Types -> [Executions -> Statuses]]]
WriterTable == [Listings -> [Types -> [Executions -> 0..MaxExecutions]]]
FieldTable == [Listings -> [Types -> 0..MaxExecutions]]

\* A provider is called for a listing the execution took, and the journeys'
\* listings are marked while the type in hand is journey.
WorkIsTaken ==
  \A e \in Executions :
    /\ step[e] = "work" /\ type[e] # "journey" => cur[e] \in taken[e]
    /\ step[e] = "mark" => type[e] = "journey"

TypeInv == TypeOK /\ WorkIsTaken

\* The named parts of TypeOK, by who writes them.
SessionTyped ==
  /\ listings \subseteq Listings /\ removed \subseteq Listings \ listings /\ saves \in 0..MaxSaves
  /\ profile \in SUBSET Optional
  /\ job \in {"none", "created", "reset", "queued", "running", "completed", "failed", "refused"}
  /\ round \in 0..MaxJobs /\ started \in 0..MaxExecutions /\ clashes \in 0..MaxClashes

TablesTyped == status \in StatusTable /\ writer \in WriterTable /\ field \in FieldTable

LocalsTyped ==
  /\ step \in [Executions -> Steps]
  /\ serves \in [Executions -> 0..MaxJobs]
  /\ taken \in [Executions -> SUBSET Listings]
  /\ location \in [Executions -> 0..MaxSaves]
  /\ asks \in [Executions -> SUBSET Optional]
  /\ todo \in [Executions -> SUBSET Listings]
  /\ cur \in [Executions -> Listings \cup {None}]
  /\ type \in [Executions -> Types]
  /\ target \in [Executions -> 0..MaxExecutions]
  /\ result \in [Executions -> Terminal]
  /\ located \in [Executions -> BOOLEAN]
  /\ open \in [Executions -> BOOLEAN]

ScopeKept ==
  \A e \in Executions :
    /\ todo[e] \subseteq taken[e]
    /\ step[e] \in InHand => cur[e] \in taken[e]
    /\ step[e] = "work" /\ type[e] # "journey" => cur[e] \in taken[e]
    /\ step[e] = "mark" => type[e] = "journey"

LEMMA TypeParts == TypeInv <=> SessionTyped /\ TablesTyped /\ LocalsTyped /\ ScopeKept
  BY DEF TypeInv, TypeOK, WorkIsTaken, SessionTyped, TablesTyped, LocalsTyped, ScopeKept,
     StatusTable, WriterTable, FieldTable, Statuses

LEMMA InitTyped == Init => TypeInv
<1> SUFFICES ASSUME Init PROVE SessionTyped /\ TablesTyped /\ LocalsTyped /\ ScopeKept
  BY TypeParts
<1>1. SessionTyped
  BY BoundsAssumption, ProfilesAssumption DEF Init, SessionTyped
<1>2. TablesTyped
  BY BoundsAssumption DEF Init, TablesTyped, StatusTable, WriterTable, FieldTable, NoRows, NoWriters, NoFields, Statuses
<1>3. LocalsTyped
  BY BoundsAssumption DEF Init, LocalsTyped, Steps, Types, Terminal
<1>4. ScopeKept
  BY DEF Init, ScopeKept, InHand
<1> QED
  BY <1>1, <1>2, <1>3, <1>4

\* One row of the tables written.
LEMMA RowTyped ==
  ASSUME TablesTyped, NEW l \in Listings, NEW t \in Types, NEW row \in Executions,
         NEW new \in Statuses, NEW e \in Executions, SetRow(l, t, row, new, e)
  PROVE  status' \in StatusTable /\ writer' \in WriterTable
<1>1. status[l] \in [Types -> [Executions -> Statuses]] /\ status[l][t] \in [Executions -> Statuses]
  BY DEF TablesTyped, StatusTable
<1>2. writer[l] \in [Types -> [Executions -> 0..MaxExecutions]] /\ writer[l][t] \in [Executions -> 0..MaxExecutions]
  BY DEF TablesTyped, WriterTable
<1>3. [status[l][t] EXCEPT ![row] = new] \in [Executions -> Statuses]
  BY <1>1
<1>4. (IF new = "SUCCEEDED" THEN e ELSE 0) \in 0..MaxExecutions
  BY BoundsAssumption DEF Executions
<1>5. [writer[l][t] EXCEPT ![row] = IF new = "SUCCEEDED" THEN e ELSE 0] \in [Executions -> 0..MaxExecutions]
  BY <1>2, <1>4
<1>6. [status[l] EXCEPT ![t] = [status[l][t] EXCEPT ![row] = new]] \in [Types -> [Executions -> Statuses]]
  BY <1>1, <1>3
<1>7. [writer[l] EXCEPT ![t] = [writer[l][t] EXCEPT ![row] = IF new = "SUCCEEDED" THEN e ELSE 0]]
        \in [Types -> [Executions -> 0..MaxExecutions]]
  BY <1>2, <1>5
<1>8. /\ status' = [status EXCEPT ![l] = [status[l] EXCEPT ![t] = [status[l][t] EXCEPT ![row] = new]]]
      /\ writer' = [writer EXCEPT ![l] = [writer[l] EXCEPT ![t] = [writer[l][t] EXCEPT ![row] = IF new = "SUCCEEDED" THEN e ELSE 0]]]
  BY DEF SetRow
<1> QED
  BY <1>6, <1>7, <1>8 DEF TablesTyped, StatusTable, WriterTable

LEMMA FieldTyped ==
  ASSUME TablesTyped, NEW l \in Listings, NEW t \in Types, NEW e \in 0..MaxExecutions
  PROVE  [field EXCEPT ![l][t] = e] \in FieldTable
<1>1. [field[l] EXCEPT ![t] = e] \in [Types -> 0..MaxExecutions]
  BY DEF TablesTyped, FieldTable
<1> QED
  BY <1>1 DEF TablesTyped, FieldTable

\* The user's steps touch no local of an execution.
LEMMA UserTyped == TypeInv /\ UserStep => TypeInv'
<1> SUFFICES ASSUME TypeInv, UserStep PROVE SessionTyped' /\ TablesTyped' /\ LocalsTyped' /\ ScopeKept'
  BY TypeParts DEF TypeInv, TypeOK, WorkIsTaken, SessionTyped, TablesTyped, LocalsTyped, ScopeKept,
     StatusTable, WriterTable, FieldTable, Statuses
<1>a. SessionTyped /\ TablesTyped /\ LocalsTyped /\ ScopeKept
  BY TypeParts
<1>1. UNCHANGED <<step, scopeVars, cursorVars, open>>
  BY DEF UserStep, AddListing, RemoveListing, SaveProfile, Start, ResetRuns, Dispatch, GiveUp, jobVars
<1>2. LocalsTyped' /\ ScopeKept'
  BY <1>1, <1>a DEF LocalsTyped, ScopeKept, scopeVars, cursorVars
<1>3. SessionTyped'
  <2>1. CASE \E l \in Listings : AddListing(l) \/ RemoveListing(l)
    BY <2>1, <1>a DEF SessionTyped, AddListing, RemoveListing, jobVars
  <2>2. CASE SaveProfile
    BY <2>2, <1>a, BoundsAssumption, ProfilesAssumption DEF SessionTyped, SaveProfile, jobVars
  <2>3. CASE Start \/ Dispatch \/ GiveUp
    BY <2>3, <1>a, BoundsAssumption DEF SessionTyped, Start, Dispatch, GiveUp, userVars
  <2>4. CASE ResetRuns
    BY <2>4, <1>a, BoundsAssumption DEF SessionTyped, ResetRuns, CountClash, userVars
  <2> QED
    BY <2>1, <2>2, <2>3, <2>4 DEF UserStep
<1>4. TablesTyped'
  <2>1. CASE \E l \in Listings : AddListing(l)
    BY <2>1, <1>a DEF TablesTyped, AddListing, tableVars
  <2>2. ASSUME NEW l \in Listings, RemoveListing(l) PROVE TablesTyped'
    <3>1. NoRows \in [Types -> [Executions -> Statuses]] /\ NoWriters \in [Types -> [Executions -> 0..MaxExecutions]]
            /\ NoFields \in [Types -> 0..MaxExecutions]
      BY BoundsAssumption DEF NoRows, NoWriters, NoFields, Statuses
    <3> QED
      BY <2>2, <3>1, <1>a DEF RemoveListing, TablesTyped, StatusTable, WriterTable, FieldTable
  <2>3. CASE SaveProfile
    <3>1. ASSUME NEW l \in Listings PROVE [field[l] EXCEPT !["journey"] = 0] \in [Types -> 0..MaxExecutions]
      <4>1. field[l] \in [Types -> 0..MaxExecutions] /\ 0 \in 0..MaxExecutions
        BY <1>a, BoundsAssumption DEF TablesTyped, FieldTable
      <4> QED
        BY <4>1
    <3> QED
      BY <2>3, <3>1, <1>a DEF SaveProfile, TablesTyped, FieldTable
  <2>4. CASE Start \/ Dispatch \/ GiveUp
    BY <2>4, <1>a DEF TablesTyped, Start, Dispatch, GiveUp, tableVars
  <2>5. CASE ResetRuns
    <3>1. NoWriters \in [Types -> [Executions -> 0..MaxExecutions]]
      BY BoundsAssumption DEF NoWriters
    <3>2. writer' \in WriterTable
      BY <2>5, <3>1, <1>a DEF ResetRuns, TablesTyped, WriterTable
    <3>3. status' \in StatusTable
      BY <2>5, <1>a DEF ResetRuns, TablesTyped, StatusTable, Statuses
    <3> QED
      BY <2>5, <3>2, <3>3, <1>a DEF ResetRuns, TablesTyped
  <2> QED
    BY <2>1, <2>2, <2>3, <2>4, <2>5 DEF UserStep
<1> QED
  BY <1>2, <1>3, <1>4

\* An execution that rests.
LEMMA RestTyped ==
  ASSUME LocalsTyped, ScopeKept, NEW e \in Executions, Rest(e)
  PROVE  LocalsTyped' /\ ScopeKept'
<1>1. LocalsTyped'
  BY BoundsAssumption DEF LocalsTyped, Rest, Goto, Steps, Types, Terminal
<1>2. ScopeKept'
  BY DEF LocalsTyped, ScopeKept, Rest, Goto, InHand
<1> QED
  BY <1>1, <1>2

LEMMA EndTyped ==
  ASSUME TypeInv, NEW e \in Executions, NEW outcome \in {"completed", "failed", "queued"},
         EndAs(e, outcome), UNCHANGED tableVars
  PROVE  SessionTyped' /\ TablesTyped' /\ LocalsTyped' /\ ScopeKept'
<1>a. SessionTyped /\ TablesTyped /\ LocalsTyped /\ ScopeKept
  BY TypeParts
<1>1. SessionTyped' /\ TablesTyped'
  BY <1>a DEF EndAs, SessionTyped, TablesTyped, userVars, tableVars
<1> QED
  BY <1>a, <1>1, RestTyped DEF EndAs

LEMMA RaiseTyped ==
  ASSUME TypeInv, NEW e \in Executions, Raise(e), UNCHANGED tableVars
  PROVE  SessionTyped' /\ TablesTyped' /\ LocalsTyped' /\ ScopeKept'
  BY EndTyped DEF Raise

\* A step that leaves the session and the tables alone.
LEMMA QuietTyped ==
  ASSUME TypeInv, TablesUnchanged
  PROVE  SessionTyped' /\ TablesTyped'
  BY TypeParts DEF TablesUnchanged, SessionTyped, TablesTyped, userVars, jobVars, tableVars

\* How far the locals may move in one step: listings in hand come from the
\* listings taken.
LEMMA BeginTyped ==
  ASSUME TypeInv, NEW e \in Executions,
         StartExecution(e) \/ Crash(e) \/ NextListing(e) \/ ListingsDone(e) \/ Finish(e)
  PROVE  SessionTyped' /\ TablesTyped' /\ LocalsTyped' /\ ScopeKept'
<1>a. SessionTyped /\ TablesTyped /\ LocalsTyped /\ ScopeKept
  BY TypeParts
<1>1. CASE StartExecution(e)
  <2>1. SessionTyped'
    BY <1>1, <1>a, BoundsAssumption DEF StartExecution, SessionTyped, CountClash, userVars, Executions
  <2>2. LocalsTyped'
    BY <1>1, <1>a DEF StartExecution, SessionTyped, LocalsTyped, Goto, Steps
  <2>3. ScopeKept'
    BY <1>1, <1>a DEF StartExecution, LocalsTyped, ScopeKept, Goto, InHand
  <2> QED
    BY <1>1, <1>a, <2>1, <2>2, <2>3 DEF StartExecution, TablesTyped, tableVars
<1>2. CASE Crash(e)
  BY <1>2, <1>a, RestTyped, QuietTyped DEF Crash
<1>3. CASE Finish(e)
  BY <1>3, EndTyped DEF Finish
<1>4. CASE ListingsDone(e)
  <2>1. LocalsTyped' /\ ScopeKept'
    BY <1>4, <1>a DEF ListingsDone, CursorUnchanged, LocalsTyped, ScopeKept, Goto, Steps, InHand, scopeVars, cursorVars
  <2> QED
    BY <1>4, <2>1, QuietTyped DEF ListingsDone
<1>5. ASSUME NEW l \in todo[e], todo' = [todo EXCEPT ![e] = @ \ {l}], cur' = [cur EXCEPT ![e] = l],
             type' = [type EXCEPT ![e] = "geocoding"], located' = [located EXCEPT ![e] = FALSE],
             Goto(e, "read"), TablesUnchanged, UNCHANGED <<scopeVars, target, result, open>>
      PROVE  SessionTyped' /\ TablesTyped' /\ LocalsTyped' /\ ScopeKept'
  <2>1. l \in Listings /\ l \in taken[e] /\ todo[e] \subseteq Listings
    BY <1>a DEF LocalsTyped, ScopeKept
  <2>2. LocalsTyped'
    BY <1>5, <1>a, <2>1 DEF LocalsTyped, Goto, Steps, Types, scopeVars
  <2>3. ScopeKept'
    BY <1>5, <1>a, <2>1 DEF LocalsTyped, ScopeKept, Goto, InHand, scopeVars
  <2> QED
    BY <1>5, <2>2, <2>3, QuietTyped
<1>6. CASE NextListing(e)
  BY <1>5, <1>6, RaiseTyped DEF NextListing
<1> QED
  BY <1>1, <1>2, <1>3, <1>4, <1>6

\* upsert_run's read and write.
LEMMA MarkTyped ==
  ASSUME TypeInv, NEW e \in Executions, ReadRun(e) \/ WriteRun(e)
  PROVE  SessionTyped' /\ TablesTyped' /\ LocalsTyped' /\ ScopeKept'
<1>a. SessionTyped /\ TablesTyped /\ LocalsTyped /\ ScopeKept
  BY TypeParts
<1>b. /\ type[e] \in Types /\ AfterMark(type[e]) \in {"next", "mark", "work"}
      /\ AfterMark(type[e]) = "work" => type[e] # "journey"
      /\ AfterMark(type[e]) = "mark" => type[e] = "journey"
  BY <1>a DEF LocalsTyped, Types, AfterMark
<1>c. target[e] \in 0..MaxExecutions /\ (IF target[e] = 0 THEN e ELSE target[e]) \in Executions
  BY <1>a, BoundsAssumption DEF LocalsTyped, Executions
<1>1. CASE ReadRun(e)
  <2>1. PICK where \in {"next", "mark", "work", "write"} :
          /\ Goto(e, where) /\ open' = [open EXCEPT ![e] = TRUE]
          /\ where = "mark" => type[e] = "journey"
          /\ where = "work" => type[e] # "journey"
          /\ UNCHANGED <<scopeVars, todo, cur, type, result, located>>
    BY <1>1, <1>b DEF ReadRun
  <2>2. cur[e] \in taken[e]
    BY <1>1, <1>a DEF ReadRun, ScopeKept, InHand
  <2>3. target' \in [Executions -> 0..MaxExecutions]
    <3>1. target' = target \/ \E row \in {0} \cup Executions : target' = [target EXCEPT ![e] = row]
      BY <1>1 DEF ReadRun, RowsFound, Rows
    <3>2. \A row \in {0} \cup Executions : row \in 0..MaxExecutions
      BY BoundsAssumption DEF Executions
    <3> QED
      BY <1>a, <3>1, <3>2 DEF LocalsTyped
  <2>4. LocalsTyped'
    BY <1>a, <2>1, <2>3 DEF LocalsTyped, Goto, Steps, scopeVars
  <2>5. ScopeKept'
    BY <1>a, <2>1, <2>2 DEF LocalsTyped, ScopeKept, Goto, InHand, scopeVars
  <2> QED
    BY <1>1, <2>4, <2>5, QuietTyped DEF ReadRun
<1>2. ASSUME step[e] = "write", Goto(e, AfterMark(type[e])), open' = [open EXCEPT ![e] = FALSE], Marked(e)
      PROVE  LocalsTyped' /\ ScopeKept'
  <2>1. cur[e] \in taken[e]
    BY <1>2, <1>a DEF ScopeKept, InHand
  <2>2. LocalsTyped'
    BY <1>2, <1>a, <1>b, BoundsAssumption DEF LocalsTyped, Marked, Goto, Steps, scopeVars
  <2>3. ScopeKept'
    BY <1>2, <1>a, <1>b, <2>1 DEF LocalsTyped, ScopeKept, Marked, Goto, InHand, scopeVars
  <2> QED
    BY <2>2, <2>3
<1>3. ASSUME cur[e] \in listings,
             SetRow(cur[e], type[e], IF target[e] = 0 THEN e ELSE target[e], MarkedAs(type[e]), e),
             UNCHANGED <<userVars, jobVars, field, clashes>>
      PROVE  SessionTyped' /\ TablesTyped'
  <2>1. cur[e] \in Listings /\ MarkedAs(type[e]) \in Statuses
    BY <1>3, <1>a DEF SessionTyped, MarkedAs, Statuses, Terminal
  <2>2. status' \in StatusTable /\ writer' \in WriterTable
    BY <1>3, <1>a, <1>b, <1>c, <2>1, RowTyped
  <2> QED
    BY <1>3, <1>a, <2>2 DEF SessionTyped, TablesTyped, userVars, jobVars
<1>4. CASE WriteRun(e)
  <2>1. CASE Raise(e) /\ UNCHANGED tableVars
    BY <2>1, RaiseTyped
  <2>2. CASE /\ step[e] = "write" /\ Goto(e, AfterMark(type[e])) /\ open' = [open EXCEPT ![e] = FALSE]
             /\ Marked(e) /\ TablesUnchanged
    BY <1>2, <2>2, QuietTyped
  <2> QED
    BY <1>2, <1>3, <1>4, <2>1, <2>2 DEF WriteRun
<1> QED
  BY <1>1, <1>4

\* Evidence is saved, and a type settled.
LEMMA SettleTyped ==
  ASSUME TypeInv, NEW e \in Executions, Save(e) \/ Settle(e)
  PROVE  SessionTyped' /\ TablesTyped' /\ LocalsTyped' /\ ScopeKept'
<1>a. SessionTyped /\ TablesTyped /\ LocalsTyped /\ ScopeKept
  BY TypeParts
<1>b. type[e] \in Types /\ result[e] \in Statuses /\ e \in 0..MaxExecutions
  BY <1>a, BoundsAssumption DEF LocalsTyped, Statuses, Executions
<1>1. ASSUME step[e] = "save", Goto(e, "settle"), CursorUnchanged, UNCHANGED open
      PROVE  LocalsTyped' /\ ScopeKept'
  BY <1>1, <1>a DEF LocalsTyped, ScopeKept, CursorUnchanged, Goto, Steps, InHand, scopeVars, cursorVars
<1>2. CASE Save(e)
  <2>1. CASE Raise(e) /\ UNCHANGED tableVars
    BY <2>1, RaiseTyped
  <2>2. CASE Goto(e, "settle") /\ TablesUnchanged /\ CursorUnchanged /\ UNCHANGED open
    BY <1>1, <1>2, <2>2, QuietTyped DEF Save
  <2>3. CASE /\ cur[e] \in listings /\ field' = [field EXCEPT ![cur[e]][type[e]] = e]
             /\ Goto(e, "settle") /\ CursorUnchanged
             /\ UNCHANGED <<userVars, jobVars, status, writer, open, clashes>>
    <3>1. cur[e] \in Listings
      BY <1>a, <2>3 DEF SessionTyped
    <3>2. field' \in FieldTable
      BY <1>a, <1>b, <2>3, <3>1, FieldTyped
    <3>3. SessionTyped' /\ TablesTyped'
      BY <1>a, <2>3, <3>2 DEF SessionTyped, TablesTyped, userVars, jobVars
    <3> QED
      BY <1>1, <1>2, <2>3, <3>3 DEF Save
  <2> QED
    BY <1>2, <2>1, <2>2, <2>3 DEF Save
<1>3. CASE Settle(e)
  <2>1. status' \in StatusTable /\ writer' \in WriterTable
    <3>1. CASE UNCHANGED <<status, writer>>
      BY <1>a, <3>1 DEF TablesTyped
    <3>2. ASSUME NEW row \in Executions, cur[e] \in listings, SetRow(cur[e], type[e], row, result[e], e)
          PROVE  status' \in StatusTable /\ writer' \in WriterTable
      <4>1. cur[e] \in Listings
        BY <1>a, <3>2 DEF SessionTyped
      <4> QED
        BY <1>a, <1>b, <3>2, <4>1, RowTyped
    <3> QED
      BY <1>3, <3>1, <3>2 DEF Settle, RowsFound, Rows
  <2>2. SessionTyped' /\ TablesTyped'
    BY <1>3, <1>a, <2>1 DEF Settle, SessionTyped, TablesTyped, userVars, jobVars
  <2>3. PICK where \in {"store", "read"}, r \in Terminal :
          /\ Goto(e, where) /\ result' = [result EXCEPT ![e] = r]
          /\ type' = [type EXCEPT ![e] = Following(e)]
          /\ UNCHANGED <<scopeVars, todo, cur, target, located, open>>
    BY <1>3, <1>a DEF Settle, LocalsTyped, Terminal
  <2>4. Following(e) \in Types /\ cur[e] \in taken[e]
    BY <1>3, <1>a DEF Settle, Following, LocalsTyped, Types, ScopeKept, InHand
  <2>5. LocalsTyped'
    BY <1>a, <2>3, <2>4 DEF LocalsTyped, Goto, Steps, scopeVars
  <2>6. ScopeKept'
    BY <1>a, <2>3, <2>4 DEF LocalsTyped, ScopeKept, Goto, InHand, scopeVars
  <2> QED
    BY <2>2, <2>5, <2>6
<1> QED
  BY <1>2, <1>3

\* Calls and calculations, which end in a result or an error.
LEMMA WorkTyped ==
  ASSUME TypeInv, NEW e \in Executions, Geocode(e) \/ EstimateLease(e) \/ Score(e) \/ RouteMatrix(e)
  PROVE  SessionTyped' /\ TablesTyped' /\ LocalsTyped' /\ ScopeKept'
<1>a. SessionTyped /\ TablesTyped /\ LocalsTyped /\ ScopeKept
  BY TypeParts
<1>1. ASSUME NEW r \in Terminal, NEW where \in {"save", "settle"}, step[e] = "work", type[e] # "journey",
             Goto(e, where), result' = [result EXCEPT ![e] = r],
             located' = located \/ located' = [located EXCEPT ![e] = TRUE],
             TablesUnchanged, UNCHANGED <<scopeVars, todo, cur, type, target, open>>
      PROVE  SessionTyped' /\ TablesTyped' /\ LocalsTyped' /\ ScopeKept'
  <2>1. cur[e] \in taken[e]
    BY <1>1, <1>a DEF ScopeKept
  <2>2. LocalsTyped'
    BY <1>1, <1>a DEF LocalsTyped, Goto, Steps, scopeVars
  <2>3. ScopeKept'
    BY <1>1, <1>a, <2>1 DEF LocalsTyped, ScopeKept, Goto, InHand, scopeVars
  <2> QED
    BY <1>1, <2>2, <2>3, QuietTyped
<1>2. CASE RouteMatrix(e)
  <2>1. PICK r \in Terminal : result' = [result EXCEPT ![e] = r]
    BY <1>2 DEF RouteMatrix, Terminal
  <2>2. LocalsTyped'
    BY <1>2, <1>a, <2>1 DEF RouteMatrix, LocalsTyped, Goto, Steps, scopeVars
  <2>3. ScopeKept'
    BY <1>2, <1>a, <2>1 DEF RouteMatrix, LocalsTyped, ScopeKept, Goto, InHand, scopeVars
  <2> QED
    BY <1>2, <2>2, <2>3, QuietTyped DEF RouteMatrix
<1>3. CASE Raise(e) /\ UNCHANGED tableVars
  BY <1>3, RaiseTyped
<1>4. CASE Geocode(e)
  BY <1>1, <1>4 DEF Geocode, Returns, Skips, Terminal
<1>5. CASE EstimateLease(e)
  BY <1>1, <1>3, <1>5 DEF EstimateLease, Returns, Terminal
<1>6. CASE Score(e)
  BY <1>1, <1>3, <1>6 DEF Score, Returns, Skips, Terminal
<1> QED
  BY <1>2, <1>4, <1>5, <1>6

\* The loops over the journeys' listings.
LEMMA JourneysTyped ==
  ASSUME TypeInv, NEW e \in Executions, Journeys(e) \/ MarkJourneys(e) \/ StoreJourneys(e)
  PROVE  SessionTyped' /\ TablesTyped' /\ LocalsTyped' /\ ScopeKept'
<1>a. SessionTyped /\ TablesTyped /\ LocalsTyped /\ ScopeKept
  BY TypeParts
<1>1. ASSUME NEW where \in {"read", "save"}, TakeNext(e, where)
      PROVE  SessionTyped' /\ TablesTyped' /\ LocalsTyped' /\ ScopeKept'
  <2>1. PICK l \in todo[e] : todo' = [todo EXCEPT ![e] = @ \ {l}] /\ cur' = [cur EXCEPT ![e] = l]
    BY <1>1 DEF TakeNext
  <2>2. l \in Listings /\ l \in taken[e]
    BY <1>a DEF LocalsTyped, ScopeKept
  <2>3. LocalsTyped'
    BY <1>1, <1>a, <2>1, <2>2 DEF TakeNext, LocalsTyped, Goto, Steps, scopeVars
  <2>4. ScopeKept'
    BY <1>1, <1>a, <2>1, <2>2 DEF TakeNext, LocalsTyped, ScopeKept, Goto, InHand, scopeVars
  <2> QED
    BY <1>1, <2>3, <2>4, QuietTyped DEF TakeNext
<1>2. CASE Raise(e) /\ UNCHANGED tableVars
  BY <1>2, RaiseTyped
<1>3. ASSUME todo' = [todo EXCEPT ![e] = taken[e]], type' = [type EXCEPT ![e] = "journey"], Goto(e, "mark"),
             TablesUnchanged, UNCHANGED <<scopeVars, cur, target, result, located, open>>
      PROVE  SessionTyped' /\ TablesTyped' /\ LocalsTyped' /\ ScopeKept'
  <2>1. LocalsTyped'
    BY <1>3, <1>a DEF LocalsTyped, Goto, Steps, Types, scopeVars
  <2>2. ScopeKept'
    BY <1>3, <1>a DEF LocalsTyped, ScopeKept, Goto, InHand, scopeVars
  <2> QED
    BY <1>3, <2>1, <2>2, QuietTyped
<1>4. CASE Journeys(e)
  BY <1>2, <1>3, <1>4 DEF Journeys
<1>5. ASSUME NEW where \in {"work", "end"}, where = "work" => type[e] = "journey",
             Goto(e, where), TablesUnchanged, CursorUnchanged, UNCHANGED open
      PROVE  SessionTyped' /\ TablesTyped' /\ LocalsTyped' /\ ScopeKept'
  <2>1. LocalsTyped' /\ ScopeKept'
    BY <1>5, <1>a DEF LocalsTyped, ScopeKept, CursorUnchanged, Goto, Steps, InHand, scopeVars, cursorVars
  <2> QED
    BY <1>5, <2>1, QuietTyped
<1>6. CASE MarkJourneys(e)
  BY <1>a, <1>1, <1>5, <1>6 DEF MarkJourneys, ScopeKept
<1>7. CASE StoreJourneys(e)
  BY <1>1, <1>5, <1>7 DEF StoreJourneys
<1> QED
  BY <1>4, <1>6, <1>7

LEMMA QuietTypes == TypeInv /\ UNCHANGED vars => TypeInv'
  BY TypeParts DEF TypeInv, TypeOK, WorkIsTaken, vars, userVars, jobVars, tableVars, scopeVars, cursorVars

LEMMA TypeKeeps == TypeInv /\ [Next]_vars => TypeInv'
<1> SUFFICES ASSUME TypeInv, NEW e \in Executions, ExecutionStep(e) PROVE TypeInv'
  BY UserTyped, QuietTypes DEF Next
<1>1. SessionTyped' /\ TablesTyped' /\ LocalsTyped' /\ ScopeKept'
  BY BeginTyped, MarkTyped, SettleTyped, WorkTyped, JourneysTyped DEF ExecutionStep
<1> QED
  BY <1>1, TypeParts DEF TypeInv, TypeOK, WorkIsTaken, SessionTyped, TablesTyped, LocalsTyped, ScopeKept,
     StatusTable, WriterTable, FieldTable, Statuses

\* Executions, run rows and evidence keep their types whatever the user and
\* overlapping executions do (enrichment_pipeline.py, enrichment_repository.py).
THEOREM RunsTypeCorrect == Spec => []TypeOK
<1>1. Spec => []TypeInv
  BY InitTyped, TypeKeeps, PTL DEF Spec
<1> QED
  BY <1>1, PTL DEF TypeInv

-----------------------------------------------------------------------------
(* What a step of one execution leaves alone.                              *)

LEMMA RestFrame ==
  ASSUME LocalsTyped, NEW e \in Executions, Rest(e)
  PROVE  /\ step'[e] = "idle" /\ open'[e] = FALSE /\ taken' = taken /\ location' = location /\ asks' = asks
         /\ \A f \in Executions \ {e} : step'[f] = step[f] /\ open'[f] = open[f] /\ cur'[f] = cur[f]
              /\ type'[f] = type[f] /\ todo'[f] = todo[f] /\ target'[f] = target[f] /\ result'[f] = result[f]
  BY DEF LocalsTyped, Rest, Goto

LEMMA EndFrame ==
  ASSUME LocalsTyped, NEW e \in Executions, Raise(e) \/ EndAs(e, "completed")
  PROVE  Rest(e) /\ UNCHANGED <<userVars, round, started, clashes>>
  BY DEF Raise, EndAs

LEMMA OthersKept ==
  ASSUME TypeInv, NEW e \in Executions, ExecutionStep(e), NEW f \in Executions, f # e
  PROVE  /\ step'[f] = step[f] /\ open'[f] = open[f] /\ cur'[f] = cur[f] /\ type'[f] = type[f]
         /\ todo'[f] = todo[f] /\ target'[f] = target[f] /\ result'[f] = result[f]
         /\ taken'[f] = taken[f] /\ location'[f] = location[f] /\ asks'[f] = asks[f]
<1>a. LocalsTyped
  BY TypeParts
<1>1. CASE Rest(e)
  BY <1>1, <1>a, RestFrame
<1>2. CASE Raise(e)
  BY <1>1, <1>2, <1>a, EndFrame
<1>3. CASE StartExecution(e) \/ Crash(e) \/ NextListing(e) \/ ListingsDone(e) \/ Finish(e)
  BY <1>1, <1>2, <1>3, <1>a, EndFrame DEF StartExecution, Crash, NextListing, ListingsDone, Finish, Goto,
     CursorUnchanged, LocalsTyped, scopeVars, cursorVars
<1>4. CASE ReadRun(e) \/ WriteRun(e)
  BY <1>2, <1>4, <1>a DEF ReadRun, WriteRun, Marked, Goto, LocalsTyped, scopeVars
<1>5. CASE Save(e) \/ Settle(e)
  BY <1>2, <1>5, <1>a DEF Save, Settle, CursorUnchanged, Goto, LocalsTyped, scopeVars, cursorVars
<1>6. CASE Geocode(e) \/ EstimateLease(e) \/ Score(e) \/ RouteMatrix(e)
  BY <1>2, <1>6, <1>a DEF Geocode, EstimateLease, Score, RouteMatrix, Returns, Skips, Goto, LocalsTyped, scopeVars
<1>7. CASE Journeys(e) \/ MarkJourneys(e) \/ StoreJourneys(e)
  BY <1>2, <1>7, <1>a DEF Journeys, MarkJourneys, StoreJourneys, TakeNext, CursorUnchanged, Goto, LocalsTyped,
     scopeVars, cursorVars
<1> QED
  BY <1>3, <1>4, <1>5, <1>6, <1>7 DEF ExecutionStep

\* Only the user changes the session, and only a claim what an execution took.
LEMMA ScopeFrame ==
  ASSUME TypeInv, NEW e \in Executions, ExecutionStep(e)
  PROVE  /\ UNCHANGED userVars
         /\ UNCHANGED <<started, taken, location, asks>> \/ StartExecution(e)
<1>a. LocalsTyped
  BY TypeParts
<1>1. Raise(e) \/ EndAs(e, "completed") \/ Rest(e) => UNCHANGED <<taken, location, asks>>
  BY <1>a, EndFrame, RestFrame
<1>2. Raise(e) \/ EndAs(e, "completed") => UNCHANGED <<userVars, started>>
  BY <1>a, EndFrame
<1>3. TablesUnchanged => UNCHANGED <<userVars, started>>
  BY DEF TablesUnchanged, jobVars
<1>4. CASE StartExecution(e)
  BY <1>4 DEF StartExecution
<1>5. CASE Crash(e) \/ NextListing(e) \/ ListingsDone(e) \/ Finish(e)
  BY <1>1, <1>2, <1>3, <1>5 DEF Crash, NextListing, ListingsDone, Finish, CursorUnchanged, scopeVars
<1>6. CASE ReadRun(e) \/ WriteRun(e)
  BY <1>1, <1>2, <1>3, <1>6 DEF ReadRun, WriteRun, Marked, scopeVars, jobVars
<1>7. CASE Save(e) \/ Settle(e)
  BY <1>1, <1>2, <1>3, <1>7 DEF Save, Settle, CursorUnchanged, scopeVars, jobVars
<1>8. CASE Geocode(e) \/ EstimateLease(e) \/ Score(e) \/ RouteMatrix(e)
  BY <1>1, <1>2, <1>3, <1>8 DEF Geocode, EstimateLease, Score, RouteMatrix, Returns, Skips, scopeVars
<1>9. CASE Journeys(e) \/ MarkJourneys(e) \/ StoreJourneys(e)
  BY <1>1, <1>2, <1>3, <1>9 DEF Journeys, MarkJourneys, StoreJourneys, TakeNext, CursorUnchanged, scopeVars
<1> QED
  BY <1>4, <1>5, <1>6, <1>7, <1>8, <1>9 DEF ExecutionStep

-----------------------------------------------------------------------------
(* Transactions.                                                           *)

\* A listing that was taken is there or deleted, so it never comes back; the
\* executions that have not started rest.
TakenOnce ==
  /\ \A e \in Executions : taken[e] \subseteq listings \cup removed
  /\ \A e \in Executions : e > started => step[e] = "idle"
  /\ \A e \in Executions : location[e] <= saves

\* A transaction that is open was begun by a read whose write comes next, or
\* for a listing that is gone.
OpenForAReason ==
  \A e \in Executions :
    /\ step[e] = "idle" => ~open[e]
    /\ open[e] => step[e] = "write" \/ ~(taken[e] \subseteq listings)

LEMMA TakenOnceKeeps == TypeInv /\ TakenOnce /\ [Next]_vars => TakenOnce'
<1> SUFFICES ASSUME TypeInv, TakenOnce, [Next]_vars PROVE TakenOnce'
  OBVIOUS
<1>a. SessionTyped /\ LocalsTyped
  BY TypeParts
<1>1. CASE UNCHANGED vars
  BY <1>1 DEF TakenOnce, vars, userVars, jobVars, scopeVars
<1>2. CASE UserStep
  <2>1. UNCHANGED <<step, taken, location, started>> /\ listings \cup removed \subseteq listings' \cup removed'
        /\ saves <= saves'
    BY <1>2, <1>a, BoundsAssumption DEF UserStep, AddListing, RemoveListing, SaveProfile, Start, ResetRuns, Dispatch, GiveUp,
       userVars, jobVars, scopeVars, SessionTyped
  <2>2. saves' \in Nat /\ saves \in Nat
    BY <1>2, <1>a, BoundsAssumption DEF UserStep, AddListing, RemoveListing, SaveProfile, Start, ResetRuns, Dispatch, GiveUp,
       userVars, SessionTyped
  <2>3. \A e \in Executions : location[e] \in Nat
    BY <1>a, BoundsAssumption DEF LocalsTyped
  <2> QED
    BY <2>1, <2>2, <2>3 DEF TakenOnce
<1>3. ASSUME NEW e \in Executions, ExecutionStep(e) PROVE TakenOnce'
  <2>1. CASE StartExecution(e)
    <3>1. \A f \in Executions : f # e => taken'[f] = taken[f] /\ location'[f] = location[f] /\ step'[f] = step[f]
      BY <1>3, OthersKept
    <3>2. taken'[e] = listings /\ location'[e] = saves /\ started' = e /\ e = started + 1 /\ UNCHANGED userVars
      BY <2>1, <1>a DEF StartExecution, LocalsTyped
    <3> QED
      BY <3>1, <3>2, <1>a, BoundsAssumption DEF TakenOnce, userVars, Executions, SessionTyped
  <2>2. CASE UNCHANGED <<userVars, started, taken, location>> /\ ~StartExecution(e)
    <3>1. \A f \in Executions : f # e => step'[f] = step[f]
      BY <1>3, OthersKept
    <3>2. step[e] = "idle" => FALSE
      BY <1>3, <2>2 DEF ExecutionStep, Crash, AtWork, NextListing, ListingsDone, ReadRun, WriteRun, Save, Settle,
         Geocode, EstimateLease, Score, Journeys, MarkJourneys, RouteMatrix, StoreJourneys, Finish
    <3> QED
      BY <2>2, <3>1, <3>2 DEF TakenOnce, userVars
  <2> QED
    BY <1>3, <2>1, <2>2, ScopeFrame
<1> QED
  BY <1>1, <1>2, <1>3 DEF Next
LEMMA InitTaken == Init => TakenOnce /\ OpenForAReason
  BY DEF Init, TakenOnce, OpenForAReason

\* What the transaction of the execution that moves may become.
LEMMA OpenFrame ==
  ASSUME TypeInv, TakenOnce, OpenForAReason, NEW e \in Executions, ExecutionStep(e)
  PROVE  \/ ~open'[e]
         \/ /\ step'[e] = "write"
            /\ open'[e]
         \/ /\ step'[e] # "idle" /\ taken' = taken
            /\ open[e] /\ ~(taken[e] \subseteq listings)
         \/ /\ step'[e] # "idle" /\ taken' = taken
            /\ cur[e] \in taken[e] \ listings
<1>a. LocalsTyped /\ ScopeKept
  BY TypeParts
<1>b. open[e] \in BOOLEAN /\ (open[e] => step[e] = "write" \/ ~(taken[e] \subseteq listings))
  BY <1>a DEF LocalsTyped, OpenForAReason
<1>1. Raise(e) \/ EndAs(e, "completed") \/ Rest(e) => ~open'[e]
  BY <1>a, EndFrame, RestFrame
<1>2. ASSUME open' = open, taken' = taken, step[e] # "write", NEW where \in Steps \ {"idle"}, Goto(e, where)
      PROVE  ~open'[e] \/ (step'[e] # "idle" /\ taken' = taken /\ open[e] /\ ~(taken[e] \subseteq listings))
  BY <1>2, <1>a, <1>b DEF Goto, LocalsTyped
<1>4. CASE StartExecution(e)
  <2>1. e > started
    BY <1>4, TypeParts, BoundsAssumption DEF StartExecution, SessionTyped
  <2> QED
    BY <1>4, <1>a, <2>1 DEF StartExecution, TakenOnce, OpenForAReason
<1>5. CASE Crash(e) \/ NextListing(e) \/ ListingsDone(e) \/ Finish(e)
  BY <1>1, <1>2, <1>5 DEF Crash, NextListing, ListingsDone, Finish, CursorUnchanged, scopeVars, Steps
<1>6. CASE ReadRun(e)
  <2>1. cur[e] \in taken[e] /\ AfterMark(type[e]) \in Steps \ {"idle"}
    BY <1>6, <1>a DEF ReadRun, ScopeKept, InHand, AfterMark, Steps
  <2>2. taken' = taken /\ open'[e]
    BY <1>6, <1>a DEF ReadRun, scopeVars, LocalsTyped
  <2>3. CASE cur[e] \notin listings /\ Goto(e, AfterMark(type[e]))
    BY <2>1, <2>2, <2>3, <1>a DEF Goto, LocalsTyped
  <2>4. CASE Goto(e, "write")
    BY <2>2, <2>4, <1>a DEF Goto, LocalsTyped
  <2> QED
    BY <1>6, <2>3, <2>4 DEF ReadRun
<1>7. CASE WriteRun(e)
  BY <1>1, <1>7, <1>a DEF WriteRun, LocalsTyped
<1>8. CASE Save(e) \/ Settle(e)
  BY <1>1, <1>2, <1>8 DEF Save, Settle, CursorUnchanged, scopeVars, Steps
<1>9. CASE Geocode(e) \/ EstimateLease(e) \/ Score(e) \/ RouteMatrix(e)
  BY <1>1, <1>2, <1>9 DEF Geocode, EstimateLease, Score, RouteMatrix, Returns, Skips, scopeVars, Steps
<1>10. CASE Journeys(e) \/ MarkJourneys(e) \/ StoreJourneys(e)
  BY <1>1, <1>2, <1>10 DEF Journeys, MarkJourneys, StoreJourneys, TakeNext, CursorUnchanged, scopeVars, Steps
<1> QED
  BY <1>4, <1>5, <1>6, <1>7, <1>8, <1>9, <1>10 DEF ExecutionStep

LEMMA OpenKeeps == TypeInv /\ TakenOnce /\ OpenForAReason /\ [Next]_vars => OpenForAReason'
<1> SUFFICES ASSUME TypeInv, TakenOnce, OpenForAReason, [Next]_vars PROVE OpenForAReason'
  OBVIOUS
<1>1. CASE UNCHANGED vars
  BY <1>1 DEF OpenForAReason, vars, userVars, scopeVars
<1>2. CASE UserStep
  <2>1. UNCHANGED <<step, taken, open>>
    BY <1>2 DEF UserStep, AddListing, RemoveListing, SaveProfile, Start, ResetRuns, Dispatch, GiveUp, scopeVars
  <2>2. listings' \cap (listings \cup removed) \subseteq listings
    BY <1>2, TypeParts DEF UserStep, AddListing, RemoveListing, SaveProfile, Start, ResetRuns, Dispatch, GiveUp,
       userVars, SessionTyped
  <2> QED
    BY <2>1, <2>2 DEF OpenForAReason, TakenOnce
<1>3. ASSUME NEW e \in Executions, ExecutionStep(e) PROVE OpenForAReason'
  <2>1. \A f \in Executions : f # e => step'[f] = step[f] /\ open'[f] = open[f] /\ taken'[f] = taken[f]
    BY <1>3, OthersKept
  <2>2. UNCHANGED listings
    BY <1>3, ScopeFrame DEF userVars
  <2>3. (step'[e] = "idle" => ~open'[e]) /\ (open'[e] => step'[e] = "write" \/ ~(taken'[e] \subseteq listings'))
    BY <1>3, <2>2, OpenFrame
  <2> QED
    BY <2>1, <2>2, <2>3 DEF OpenForAReason
<1> QED
  BY <1>1, <1>2, <1>3 DEF Next

\* While a provider is waited for, the execution's session holds no
\* transaction, as enrichment_repository.py:86 promises, unless one of the
\* listings it took went away.
THEOREM ProvidersWaitWithoutTransaction == Spec => []ProvidersHoldNoTransaction
<1>1. Init => TypeInv /\ TakenOnce /\ OpenForAReason
  BY InitTyped, InitTaken
<1>2. TypeInv /\ TakenOnce /\ OpenForAReason /\ [Next]_vars => (TypeInv /\ TakenOnce /\ OpenForAReason)'
  BY TypeKeeps, TakenOnceKeeps, OpenKeeps
<1>3. OpenForAReason => ProvidersHoldNoTransaction
  BY DEF OpenForAReason, ProvidersHoldNoTransaction
<1> QED
  BY <1>1, <1>2, <1>3, PTL DEF Spec
-----------------------------------------------------------------------------
(* Evidence behind SUCCEEDED.                                              *)

\* A row that reads SUCCEEDED has its writer on record.
WritersStarted ==
  \A l \in Listings, t \in Types, row \in Executions :
    status[l][t][row] = "SUCCEEDED" => writer[l][t][row] \in Executions /\ writer[l][t][row] <= started

\* The execution that is about to report success has stored the evidence, and
\* nothing took it since.
AboutToSucceed(e) ==
  /\ step[e] = "settle" /\ result[e] = "SUCCEEDED" /\ cur[e] \in listings /\ type[e] # "property"
  /\ type[e] = "journey" => location[e] = saves

StoredFirst ==
  \A e \in Executions : AboutToSucceed(e) => field[cur[e]][type[e]] # 0

\* A SUCCEEDED row whose location, if it has one, is still the profile's.
Holds(l, t, row) ==
  /\ status[l][t][row] = "SUCCEEDED"
  /\ t = "journey" => location[writer[l][t][row]] = saves

AllBacked ==
  \A l \in Listings, t \in Types \ {"property"}, row \in Executions : Holds(l, t, row) => field[l][t] # 0

BackedInv == WritersStarted /\ StoredFirst /\ AllBacked

LEMMA InitBacked == Init => BackedInv
  BY DEF Init, BackedInv, WritersStarted, StoredFirst, AllBacked, Holds, AboutToSucceed, NoRows, Types

\* A row after SetRow, and the others.
LEMMA RowSet ==
  ASSUME TablesTyped, NEW l \in Listings, NEW t \in Types, NEW row \in Executions,
         NEW new \in Statuses, NEW e \in Executions, SetRow(l, t, row, new, e)
  PROVE  /\ status'[l][t][row] = new
         /\ writer'[l][t][row] = IF new = "SUCCEEDED" THEN e ELSE 0
         /\ \A m \in Listings, u \in Types, r \in Executions :
              m # l \/ u # t \/ r # row =>
                status'[m][u][r] = status[m][u][r] /\ writer'[m][u][r] = writer[m][u][r]
<1>1. status[l] \in [Types -> [Executions -> Statuses]] /\ status[l][t] \in [Executions -> Statuses]
  BY DEF TablesTyped, StatusTable
<1>2. writer[l] \in [Types -> [Executions -> 0..MaxExecutions]] /\ writer[l][t] \in [Executions -> 0..MaxExecutions]
  BY DEF TablesTyped, WriterTable
<1>3. /\ status' = [status EXCEPT ![l] = [status[l] EXCEPT ![t] = [status[l][t] EXCEPT ![row] = new]]]
      /\ writer' = [writer EXCEPT ![l] = [writer[l] EXCEPT ![t] = [writer[l][t] EXCEPT ![row] = IF new = "SUCCEEDED" THEN e ELSE 0]]]
  BY DEF SetRow
<1>4. \A m \in Listings, u \in Types, r \in Executions :
        /\ status'[m][u][r] = IF m = l /\ u = t /\ r = row THEN new ELSE status[m][u][r]
        /\ writer'[m][u][r] = IF m = l /\ u = t /\ r = row THEN (IF new = "SUCCEEDED" THEN e ELSE 0) ELSE writer[m][u][r]
  <2> TAKE m \in Listings, u \in Types, r \in Executions
  <2>1. CASE m # l
    BY <1>3, <2>1 DEF TablesTyped, StatusTable, WriterTable
  <2>2. CASE m = l /\ u # t
    BY <1>1, <1>2, <1>3, <2>2 DEF TablesTyped, StatusTable, WriterTable
  <2>3. CASE m = l /\ u = t
    BY <1>1, <1>2, <1>3, <2>3 DEF TablesTyped, StatusTable, WriterTable
  <2> QED
    BY <2>1, <2>2, <2>3
<1> QED
  BY <1>4

\* How a step of an execution may change the tables: not at all, one row
\* before the work, one row after it, or the evidence of the type in hand.
Untouched == UNCHANGED <<status, writer, field>>

MarksRow(e) ==
  /\ step[e] = "write" /\ cur[e] \in listings /\ UNCHANGED field
  /\ SetRow(cur[e], type[e], IF target[e] = 0 THEN e ELSE target[e], MarkedAs(type[e]), e)

Settled(e) ==
  /\ step[e] = "settle" /\ cur[e] \in listings /\ UNCHANGED field
  /\ \E row \in Executions :
       /\ SetRow(cur[e], type[e], row, result[e], e)
       /\ Rows(cur[e], type[e]) # {} => row \in Rows(cur[e], type[e])

Stores(e) ==
  /\ step[e] = "save" /\ cur[e] \in listings /\ UNCHANGED <<status, writer>>
  /\ field' = [field EXCEPT ![cur[e]][type[e]] = e]
  /\ type[e] = "journey" => location[e] = saves

LEMMA TableFrame ==
  ASSUME TypeInv, NEW e \in Executions, ExecutionStep(e)
  PROVE  \/ Untouched \/ MarksRow(e) \/ Settled(e) \/ Stores(e)
<1>1. TablesUnchanged \/ UNCHANGED tableVars => Untouched
  BY DEF TablesUnchanged, tableVars, Untouched
<1>2. CASE StartExecution(e) \/ Crash(e) \/ NextListing(e) \/ ListingsDone(e) \/ Finish(e)
  BY <1>1, <1>2 DEF StartExecution, Crash, NextListing, ListingsDone, Finish
<1>3. CASE ReadRun(e) \/ WriteRun(e)
  BY <1>1, <1>3 DEF ReadRun, WriteRun, MarksRow
<1>4. CASE Save(e)
  BY <1>1, <1>4 DEF Save, Stores
<1>5. CASE Settle(e)
  BY <1>5 DEF Settle, Settled, Untouched, RowsFound, Rows
<1>6. CASE Geocode(e) \/ EstimateLease(e) \/ Score(e) \/ RouteMatrix(e)
  BY <1>1, <1>6 DEF Geocode, EstimateLease, Score, RouteMatrix, Returns, Skips
<1>7. CASE Journeys(e) \/ MarkJourneys(e) \/ StoreJourneys(e)
  BY <1>1, <1>7 DEF Journeys, MarkJourneys, StoreJourneys, TakeNext
<1> QED
  BY <1>2, <1>3, <1>4, <1>5, <1>6, <1>7 DEF ExecutionStep

\* The row that is set, and the rows that are not.
HandSet(e, row, new) ==
  /\ new = IF step[e] = "write" THEN MarkedAs(type[e]) ELSE result[e]
  /\ status'[cur[e]][type[e]][row] = new
  /\ writer'[cur[e]][type[e]][row] = IF new = "SUCCEEDED" THEN e ELSE 0
  /\ \A m \in Listings, u \in Types, q \in Executions :
       m # cur[e] \/ u # type[e] \/ q # row =>
         status'[m][u][q] = status[m][u][q] /\ writer'[m][u][q] = writer[m][u][q]
  /\ IF step[e] = "write" THEN row = (IF target[e] = 0 THEN e ELSE target[e])
     ELSE Rows(cur[e], type[e]) # {} => row \in Rows(cur[e], type[e])

LEMMA HandIsSet ==
  ASSUME TypeInv, NEW e \in Executions, MarksRow(e) \/ Settled(e)
  PROVE  /\ cur[e] \in Listings /\ cur[e] \in listings /\ type[e] \in Types
         /\ \E row \in Executions, new \in Statuses \ {"none"} : HandSet(e, row, new)
<1>1. /\ cur[e] \in Listings /\ cur[e] \in listings /\ type[e] \in Types
      /\ MarkedAs(type[e]) \in Statuses \ {"none"} /\ result[e] \in Statuses \ {"none"}
      /\ (IF target[e] = 0 THEN e ELSE target[e]) \in Executions /\ TablesTyped
  BY TypeParts, BoundsAssumption DEF MarksRow, Settled, MarkedAs, Statuses, Terminal, SessionTyped, LocalsTyped, Executions
<1>2. \E row \in Executions, new \in Statuses \ {"none"} :
        /\ SetRow(cur[e], type[e], row, new, e)
        /\ new = IF step[e] = "write" THEN MarkedAs(type[e]) ELSE result[e]
        /\ IF step[e] = "write" THEN row = (IF target[e] = 0 THEN e ELSE target[e])
           ELSE Rows(cur[e], type[e]) # {} => row \in Rows(cur[e], type[e])
  <2>1. CASE MarksRow(e)
    BY <1>1, <2>1 DEF MarksRow
  <2>2. CASE Settled(e)
    BY <1>1, <2>2 DEF Settled
  <2> QED
    BY <2>1, <2>2
<1>3. PICK row \in Executions, new \in Statuses \ {"none"} :
        /\ SetRow(cur[e], type[e], row, new, e)
        /\ new = IF step[e] = "write" THEN MarkedAs(type[e]) ELSE result[e]
        /\ IF step[e] = "write" THEN row = (IF target[e] = 0 THEN e ELSE target[e])
           ELSE Rows(cur[e], type[e]) # {} => row \in Rows(cur[e], type[e])
  BY <1>2
<1>4. /\ status'[cur[e]][type[e]][row] = new
      /\ writer'[cur[e]][type[e]][row] = IF new = "SUCCEEDED" THEN e ELSE 0
      /\ \A m \in Listings, u \in Types, q \in Executions :
           m # cur[e] \/ u # type[e] \/ q # row =>
             status'[m][u][q] = status[m][u][q] /\ writer'[m][u][q] = writer[m][u][q]
  BY <1>1, <1>3, RowSet
<1> QED
  BY <1>1, <1>3, <1>4 DEF HandSet

LEMMA WritersKeep == TypeInv /\ TakenOnce /\ WritersStarted /\ [Next]_vars => WritersStarted'
<1> SUFFICES ASSUME TypeInv, TakenOnce, WritersStarted, [Next]_vars PROVE WritersStarted'
  OBVIOUS
<1>a. SessionTyped /\ TablesTyped /\ LocalsTyped
  BY TypeParts
<1>1. CASE UNCHANGED vars
  BY <1>1 DEF WritersStarted, vars, tableVars, jobVars
<1>2. CASE UserStep
  <2>1. ASSUME NEW l \in Listings, RemoveListing(l) PROVE WritersStarted'
    BY <2>1, <1>a DEF RemoveListing, WritersStarted, NoRows, TablesTyped, StatusTable, WriterTable, jobVars
  <2>2. CASE ResetRuns
    <3>1. \A l \in Listings, t \in Types, row \in Executions :
            status'[l][t][row] = "SUCCEEDED" => l \notin listings /\ status[l][t][row] = "SUCCEEDED"
      BY <2>2 DEF ResetRuns
    <3>2. \A l \in Listings \ listings : writer'[l] = writer[l]
      BY <2>2 DEF ResetRuns
    <3> QED
      BY <2>2, <3>1, <3>2 DEF ResetRuns, WritersStarted
  <2>3. CASE (\E l \in Listings : AddListing(l)) \/ SaveProfile \/ Start \/ Dispatch \/ GiveUp
    BY <2>3 DEF AddListing, SaveProfile, Start, Dispatch, GiveUp, WritersStarted, tableVars, jobVars
  <2> QED
    BY <1>2, <2>1, <2>2, <2>3 DEF UserStep
<1>3. ASSUME NEW e \in Executions, ExecutionStep(e) PROVE WritersStarted'
  <2>1. started <= started' /\ started' \in Nat /\ started \in Nat
    BY <1>3, <1>a, ScopeFrame, BoundsAssumption DEF SessionTyped, StartExecution, Executions
  <2>2. CASE UNCHANGED <<status, writer>>
    BY <2>1, <2>2, BoundsAssumption DEF WritersStarted, Executions
  <2>3. CASE MarksRow(e) \/ Settled(e)
    <3>1. PICK row \in Executions, new \in Statuses \ {"none"} : HandSet(e, row, new)
      BY <2>3, HandIsSet
    <3>2. e <= started
      BY <2>3, <1>a, BoundsAssumption DEF MarksRow, Settled, TakenOnce, Executions, SessionTyped
    <3> QED
      BY <2>1, <3>1, <3>2, BoundsAssumption DEF WritersStarted, Executions, HandSet
  <2> QED
    BY <1>3, <2>2, <2>3, TableFrame DEF Untouched, Stores
<1> QED
  BY <1>1, <1>2, <1>3 DEF Next
\* An execution comes to a settlement from a save, or without success.
LEMMA SettleFrame ==
  ASSUME TypeInv, NEW e \in Executions, ExecutionStep(e), step'[e] = "settle"
  PROVE  /\ cur'[e] = cur[e] /\ type'[e] = type[e] /\ location'[e] = location[e]
         /\ Stores(e) \/ cur[e] \notin listings \/ result'[e] # "SUCCEEDED"
<1>a. LocalsTyped
  BY TypeParts
<1>1. Rest(e) => FALSE
  BY <1>a, RestFrame
<1>2. Raise(e) \/ EndAs(e, "completed") => FALSE
  BY <1>1, <1>a, EndFrame
<1>3. ASSUME NEW where \in Steps \ {"settle"}, Goto(e, where) PROVE FALSE
  BY <1>3, <1>a DEF Goto, LocalsTyped
<1>4. CASE StartExecution(e) \/ Crash(e) \/ NextListing(e) \/ ListingsDone(e) \/ Finish(e)
  BY <1>1, <1>2, <1>3, <1>4 DEF StartExecution, Crash, NextListing, ListingsDone, Finish, Steps
<1>5. CASE ReadRun(e) \/ WriteRun(e)
  <2>1. AfterMark(type[e]) \in Steps \ {"settle"}
    BY <1>a DEF AfterMark, Steps
  <2> QED
    BY <1>2, <1>3, <1>5, <2>1 DEF ReadRun, WriteRun, Steps
<1>6. CASE Settle(e) \/ Journeys(e) \/ MarkJourneys(e) \/ RouteMatrix(e) \/ StoreJourneys(e)
  BY <1>2, <1>3, <1>6 DEF Settle, Journeys, MarkJourneys, RouteMatrix, StoreJourneys, TakeNext, Steps
<1>7. CASE Save(e)
  BY <1>2, <1>7 DEF Save, Stores, CursorUnchanged, scopeVars, cursorVars
<1>8. CASE Geocode(e) \/ EstimateLease(e) \/ Score(e)
  BY <1>2, <1>3, <1>8, <1>a DEF Geocode, EstimateLease, Score, Returns, Skips, Steps, scopeVars, LocalsTyped
<1> QED
  BY <1>4, <1>5, <1>6, <1>7, <1>8 DEF ExecutionStep

\* Evidence of the listing and type in hand written, and the rest.
LEMMA StoreSet ==
  ASSUME TypeInv, NEW e \in Executions, Stores(e)
  PROVE  /\ field'[cur[e]][type[e]] = e
         /\ \A m \in Listings, u \in Types : m # cur[e] \/ u # type[e] => field'[m][u] = field[m][u]
<1>1. cur[e] \in Listings /\ type[e] \in Types /\ field \in FieldTable
  BY TypeParts DEF Stores, SessionTyped, LocalsTyped, TablesTyped
<1>2. field[cur[e]] \in [Types -> 0..MaxExecutions]
  BY <1>1 DEF FieldTable
<1>3. field' = [field EXCEPT ![cur[e]] = [field[cur[e]] EXCEPT ![type[e]] = e]]
  BY DEF Stores
<1> QED
  BY <1>1, <1>2, <1>3 DEF FieldTable

\* No step of an execution takes evidence away.
LEMMA EvidenceStays ==
  ASSUME TypeInv, NEW e \in Executions, ExecutionStep(e), NEW l \in Listings, NEW t \in Types
  PROVE  field[l][t] # 0 => field'[l][t] # 0
<1>1. CASE UNCHANGED field
  BY <1>1
<1>2. CASE Stores(e)
  <2>1. e # 0
    BY BoundsAssumption DEF Executions
  <2> QED
    BY <1>2, <2>1, StoreSet
<1> QED
  BY <1>1, <1>2, TableFrame DEF Untouched, MarksRow, Settled

\* The user takes nothing from an execution that is about to succeed, without
\* its succeeding no longer.
LEMMA StoredUnderUser ==
  ASSUME TypeInv, TakenOnce, UserStep, NEW e \in Executions, AboutToSucceed(e)'
  PROVE  /\ AboutToSucceed(e) /\ cur'[e] = cur[e] /\ type'[e] = type[e]
         /\ field'[cur[e]][type[e]] = field[cur[e]][type[e]]
<1>a. SessionTyped /\ TablesTyped /\ LocalsTyped /\ ScopeKept
  BY TypeParts
<1>1. /\ UNCHANGED <<step, result, cur, type, location>>
      /\ listings' \cap (listings \cup removed) \subseteq listings
      /\ type[e] = "journey" => saves' = saves
  BY <1>a, BoundsAssumption DEF UserStep, AddListing, RemoveListing, SaveProfile, Start, ResetRuns, Dispatch, GiveUp,
     userVars, scopeVars, cursorVars, SessionTyped, TakenOnce, AboutToSucceed, LocalsTyped
<1>2. cur[e] \in listings
  BY <1>a, <1>1 DEF AboutToSucceed, TakenOnce, ScopeKept, InHand
<1>3. AboutToSucceed(e) /\ cur[e] \in Listings /\ type[e] \in Types
  BY <1>a, <1>1, <1>2 DEF AboutToSucceed, SessionTyped, LocalsTyped
<1>4. ASSUME NEW l \in Listings, RemoveListing(l) PROVE field'[cur[e]] = field[cur[e]]
  <2>1. cur[e] # l
    BY <1>1, <1>4 DEF RemoveListing, AboutToSucceed
  <2> QED
    BY <1>4, <2>1, <1>3, <1>a DEF RemoveListing, TablesTyped, FieldTable
<1>5. ASSUME SaveProfile PROVE field'[cur[e]][type[e]] = field[cur[e]][type[e]]
  <2>1. type[e] # "journey"
    BY <1>5, <1>1, <1>a, BoundsAssumption DEF SaveProfile, SessionTyped
  <2>2. field[cur[e]] \in [Types -> 0..MaxExecutions] /\ field'[cur[e]] = [field[cur[e]] EXCEPT !["journey"] = 0]
    BY <1>5, <1>3, <1>a DEF SaveProfile, TablesTyped, FieldTable
  <2> QED
    BY <2>1, <2>2, <1>3
<1>6. CASE (\E l \in Listings : AddListing(l)) \/ Start \/ ResetRuns \/ Dispatch \/ GiveUp
  BY <1>1, <1>3, <1>6 DEF AddListing, Start, ResetRuns, Dispatch, GiveUp, tableVars
<1> QED
  BY <1>1, <1>3, <1>4, <1>5, <1>6 DEF UserStep

LEMMA StoredUnderStep ==
  ASSUME TypeInv, NEW e \in Executions, ExecutionStep(e), AboutToSucceed(e)'
  PROVE  cur'[e] = cur[e] /\ type'[e] = type[e] /\ field'[cur[e]][type[e]] = e
<1>1. UNCHANGED <<listings, saves>>
  BY ScopeFrame DEF userVars
<1>2. /\ cur'[e] = cur[e] /\ type'[e] = type[e]
      /\ Stores(e) \/ cur[e] \notin listings \/ result'[e] # "SUCCEEDED"
  BY SettleFrame DEF AboutToSucceed
<1>3. Stores(e)
  BY <1>1, <1>2 DEF AboutToSucceed
<1> QED
  BY <1>2, <1>3, StoreSet

LEMMA StoredKeeps == TypeInv /\ TakenOnce /\ StoredFirst /\ [Next]_vars => StoredFirst'
<1> SUFFICES ASSUME TypeInv, TakenOnce, StoredFirst, [Next]_vars, NEW e \in Executions, AboutToSucceed(e)'
             PROVE  field'[cur'[e]][type'[e]] # 0
  BY DEF StoredFirst
<1>1. CASE UNCHANGED vars
  BY <1>1 DEF StoredFirst, AboutToSucceed, vars, userVars, tableVars, scopeVars, cursorVars
<1>2. CASE UserStep
  BY <1>2, StoredUnderUser DEF StoredFirst
<1>3. ASSUME NEW f \in Executions, ExecutionStep(f) PROVE field'[cur'[e]][type'[e]] # 0
  <2>1. UNCHANGED <<listings, saves>>
    BY <1>3, ScopeFrame DEF userVars
  <2>2. CASE e # f
    <3>1. /\ step'[e] = step[e] /\ result'[e] = result[e] /\ cur'[e] = cur[e] /\ type'[e] = type[e]
          /\ location'[e] = location[e]
      BY <1>3, <2>2, OthersKept
    <3>2. AboutToSucceed(e) /\ cur[e] \in Listings /\ type[e] \in Types
      BY <2>1, <3>1, TypeParts DEF AboutToSucceed, SessionTyped, LocalsTyped
    <3> QED
      BY <1>3, <3>1, <3>2, EvidenceStays DEF StoredFirst
  <2>3. CASE e = f
    <3>1. e # 0
      BY BoundsAssumption DEF Executions
    <3> QED
      BY <1>3, <2>3, <3>1, StoredUnderStep
  <2> QED
    BY <2>2, <2>3
<1> QED
  BY <1>1, <1>2, <1>3 DEF Next

LEMMA HoldsUnderUser ==
  ASSUME TypeInv, TakenOnce, WritersStarted, UserStep,
         NEW l \in Listings, NEW t \in Types, NEW row \in Executions, Holds(l, t, row)'
  PROVE  Holds(l, t, row) /\ field'[l][t] = field[l][t] /\ writer'[l][t][row] = writer[l][t][row]
<1>a. SessionTyped /\ TablesTyped /\ LocalsTyped
  BY TypeParts
<1>b. status'[l][t][row] = "SUCCEEDED" /\ (t = "journey" => location'[writer'[l][t][row]] = saves')
  BY DEF Holds
<1>1. ASSUME NEW m \in Listings, RemoveListing(m)
      PROVE  Holds(l, t, row) /\ field'[l][t] = field[l][t] /\ writer'[l][t][row] = writer[l][t][row]
  <2>1. l # m
    BY <1>1, <1>a, <1>b DEF RemoveListing, NoRows, TablesTyped, StatusTable
  <2>2. status'[l] = status[l] /\ writer'[l] = writer[l] /\ field'[l] = field[l] /\ UNCHANGED <<location, saves>>
    BY <1>1, <2>1, <1>a DEF RemoveListing, TablesTyped, StatusTable, WriterTable, FieldTable, scopeVars
  <2> QED
    BY <2>2, <1>b DEF Holds
<1>2. CASE ResetRuns
  <2>1. l \notin listings /\ status[l][t][row] = "SUCCEEDED"
    BY <1>2, <1>b DEF ResetRuns
  <2>2. writer'[l] = writer[l] /\ UNCHANGED <<field, location, saves>>
    BY <1>2, <2>1 DEF ResetRuns, userVars, scopeVars
  <2> QED
    BY <2>1, <2>2, <1>b DEF Holds
<1>3. CASE SaveProfile
  <2>1. UNCHANGED <<status, writer, location>> /\ saves' = saves + 1
    BY <1>3 DEF SaveProfile, scopeVars
  <2>2. writer[l][t][row] \in Executions
    BY <1>b, <2>1 DEF WritersStarted
  <2>3. t # "journey"
    BY <1>a, <1>b, <2>1, <2>2, BoundsAssumption DEF TakenOnce, SessionTyped, LocalsTyped
  <2>4. field[l] \in [Types -> 0..MaxExecutions] /\ field'[l] = [field[l] EXCEPT !["journey"] = 0]
    BY <1>3, <1>a DEF SaveProfile, TablesTyped, FieldTable
  <2>5. field'[l][t] = field[l][t]
    BY <2>3, <2>4
  <2> QED
    BY <2>1, <2>3, <2>5, <1>b DEF Holds
<1>4. CASE (\E m \in Listings : AddListing(m)) \/ Start \/ Dispatch \/ GiveUp
  BY <1>4, <1>b DEF AddListing, Start, Dispatch, GiveUp, Holds, userVars, tableVars, scopeVars
<1> QED
  BY <1>1, <1>2, <1>3, <1>4 DEF UserStep

\* A row that holds was left alone by the step, or was settled by it.
LEMMA HoldsUnderStep ==
  ASSUME TypeInv, TakenOnce, WritersStarted, NEW e \in Executions, ExecutionStep(e),
         NEW l \in Listings, NEW t \in Types \ {"property"}, NEW row \in Executions, Holds(l, t, row)'
  PROVE  \/ Holds(l, t, row) /\ writer'[l][t][row] = writer[l][t][row]
         \/ /\ AboutToSucceed(e) /\ l = cur[e] /\ t = type[e]
            /\ writer'[l][t][row] = e /\ UNCHANGED field
<1>a. SessionTyped /\ TablesTyped /\ LocalsTyped
  BY TypeParts
<1>b. status'[l][t][row] = "SUCCEEDED" /\ (t = "journey" => location'[writer'[l][t][row]] = saves')
  BY DEF Holds
<1>c. UNCHANGED saves
  BY ScopeFrame DEF userVars
<1>d. StartExecution(e) => e = started + 1 /\ started \in Nat /\ step[e] = "idle"
        /\ \A f \in Executions : f # e => location'[f] = location[f]
  BY OthersKept, <1>a, BoundsAssumption DEF StartExecution, SessionTyped, TakenOnce, Executions
<1>1. CASE status'[l][t][row] = status[l][t][row] /\ writer'[l][t][row] = writer[l][t][row]
  <2>1. writer[l][t][row] \in Executions /\ writer[l][t][row] <= started
    BY <1>1, <1>b DEF WritersStarted
  <2>2. location'[writer[l][t][row]] = location[writer[l][t][row]]
    BY <2>1, <1>d, ScopeFrame
  <2> QED
    BY <1>b, <1>c, <1>1, <2>2 DEF Holds
<1>2. CASE MarksRow(e) \/ Settled(e)
  <2>1. PICK r \in Executions, new \in Statuses \ {"none"} : HandSet(e, r, new)
    BY <1>2, HandIsSet
  <2>2. CASE l = cur[e] /\ t = type[e] /\ row = r
    <3>1. new = "SUCCEEDED" /\ writer'[l][t][row] = e /\ step[e] = "settle" /\ result[e] = "SUCCEEDED"
      BY <1>b, <1>2, <2>1, <2>2 DEF MarkedAs, MarksRow, Settled, HandSet
    <3>2. location'[e] = location[e]
      BY <1>d, <3>1, ScopeFrame
    <3>3. AboutToSucceed(e) /\ UNCHANGED field
      BY <1>b, <1>c, <1>2, <2>2, <3>1, <3>2 DEF AboutToSucceed, Settled, MarksRow
    <3> QED
      BY <2>2, <3>1, <3>3
  <2>3. CASE ~(l = cur[e] /\ t = type[e] /\ row = r)
    BY <1>1, <2>1, <2>3 DEF HandSet
  <2> QED
    BY <2>2, <2>3
<1> QED
  BY <1>1, <1>2, TableFrame DEF Untouched, Stores

LEMMA BackedKeeps == TypeInv /\ TakenOnce /\ BackedInv /\ [Next]_vars => AllBacked'
<1> SUFFICES ASSUME TypeInv, TakenOnce, BackedInv, [Next]_vars,
                    NEW l \in Listings, NEW t \in Types \ {"property"}, NEW row \in Executions, Holds(l, t, row)'
             PROVE  field'[l][t] # 0
  BY DEF AllBacked
<1>1. CASE UNCHANGED vars
  BY <1>1 DEF BackedInv, AllBacked, Holds, vars, userVars, tableVars, scopeVars
<1>2. CASE UserStep
  BY <1>2, HoldsUnderUser DEF BackedInv, AllBacked
<1>3. ASSUME NEW e \in Executions, ExecutionStep(e) PROVE field'[l][t] # 0
  <2>1. field[l][t] # 0
    BY <1>3, HoldsUnderStep DEF BackedInv, AllBacked, StoredFirst
  <2> QED
    BY <1>3, <2>1, EvidenceStays
<1> QED
  BY <1>1, <1>2, <1>3 DEF Next

\* However executions overlap and whatever the user removes or saves, a run
\* that reads SUCCEEDED has evidence in the database: every type's evidence is
\* saved before its run is settled (enrichment_pipeline.py), and what takes the
\* evidence takes the row with it or leaves the location out of date.
THEOREM SuccessHasEvidence == Spec => []SuccessIsBacked
<1>1. Init => TypeInv /\ TakenOnce /\ BackedInv
  BY InitTyped, InitTaken, InitBacked
<1>2. TypeInv /\ TakenOnce /\ BackedInv /\ [Next]_vars => (TypeInv /\ TakenOnce /\ BackedInv)'
  BY TypeKeeps, TakenOnceKeeps, WritersKeep, StoredKeeps, BackedKeeps DEF BackedInv
<1>3. TypeInv /\ BackedInv => SuccessIsBacked
  <2> SUFFICES ASSUME TypeInv, BackedInv, NEW r \in Succeeded PROVE field[r[1]][r[2]] # 0
    BY DEF SuccessIsBacked
  <2>1. r[1] \in Listings /\ r[2] \in Types \ {"property"} /\ r[3] \in Executions
    BY TypeParts DEF Succeeded, SessionTyped
  <2> QED
    BY <2>1 DEF Succeeded, BackedInv, AllBacked, Holds
<1> QED
  BY <1>1, <1>2, <1>3, PTL DEF Spec
-----------------------------------------------------------------------------
(* Without clashes there is one execution at a time.                       *)

Alone == clashes = 0 => \A e \in Executions : AtWork(e) => e = started

\* An upsert's read still holds at its write.
TargetsHold ==
  clashes = 0 => \A e \in Executions : step[e] = "write" /\ cur[e] \in listings =>
    /\ target[e] = 0 => Rows(cur[e], type[e]) = {}
    /\ target[e] # 0 => target[e] \in Rows(cur[e], type[e])

OneRow ==
  clashes = 0 => \A l \in Listings, t \in Types : \A r, q \in Rows(l, t) : r = q

SoloInv == Alone /\ TargetsHold /\ OneRow

LEMMA InitSolo == Init => SoloInv
  BY DEF Init, SoloInv, Alone, TargetsHold, OneRow, AtWork, Rows, NoRows

\* Who is not at work moves only by starting.
LEMMA IdleStarts ==
  ASSUME NEW e \in Executions, ExecutionStep(e), step[e] = "idle"
  PROVE  StartExecution(e)
  BY DEF ExecutionStep, Crash, AtWork, NextListing, ListingsDone, ReadRun, WriteRun, Save, Settle,
     Geocode, EstimateLease, Score, Journeys, MarkJourneys, RouteMatrix, StoreJourneys, Finish

LEMMA ClashFrame ==
  ASSUME NEW e \in Executions, ExecutionStep(e), ~StartExecution(e), TypeInv
  PROVE  UNCHANGED <<clashes, round>> /\ (job' = job \/ (AtWork(e) /\ step'[e] = "idle"))
<1>a. LocalsTyped
  BY TypeParts
<1>1. Raise(e) \/ EndAs(e, "completed") => UNCHANGED <<clashes, round>> /\ step'[e] = "idle"
  BY <1>a, EndFrame, RestFrame
<1>2. TablesUnchanged => UNCHANGED <<clashes, round, job>>
  BY DEF TablesUnchanged, jobVars
<1>3. CASE Crash(e) \/ NextListing(e) \/ ListingsDone(e) \/ Finish(e)
  BY <1>1, <1>2, <1>3 DEF Crash, NextListing, ListingsDone, Finish, AtWork
<1>4. CASE ReadRun(e) \/ WriteRun(e)
  BY <1>1, <1>2, <1>4 DEF ReadRun, WriteRun, AtWork, jobVars
<1>5. CASE Save(e) \/ Settle(e)
  BY <1>1, <1>2, <1>5 DEF Save, Settle, AtWork, jobVars
<1>6. CASE Geocode(e) \/ EstimateLease(e) \/ Score(e) \/ RouteMatrix(e)
  BY <1>1, <1>2, <1>6 DEF Geocode, EstimateLease, Score, RouteMatrix, Returns, Skips, AtWork
<1>7. CASE Journeys(e) \/ MarkJourneys(e) \/ StoreJourneys(e)
  BY <1>1, <1>2, <1>7 DEF Journeys, MarkJourneys, StoreJourneys, TakeNext, AtWork
<1> QED
  BY <1>3, <1>4, <1>5, <1>6, <1>7 DEF ExecutionStep

\* A step that leaves the count at none was taken by the only execution.
LEMMA Solo ==
  ASSUME TypeInv, Alone, NEW e \in Executions, ExecutionStep(e), clashes' = 0
  PROVE  /\ clashes = 0
         /\ \A f \in Executions : f # e => step[f] = "idle" /\ step'[f] = "idle"
         /\ step'[e] # "idle" => e = started'
<1>a. SessionTyped /\ clashes \in Nat
  BY TypeParts, BoundsAssumption DEF SessionTyped
<1>b. \A f \in Executions : f # e => step'[f] = step[f]
  BY OthersKept
<1>1. CASE StartExecution(e)
  BY <1>1, <1>a, <1>b DEF StartExecution, CountClash, AtWork
<1>2. CASE ~StartExecution(e)
  <2>1. clashes = 0 /\ started' = started /\ step[e] # "idle"
    BY <1>2, ClashFrame, ScopeFrame, IdleStarts
  <2> QED
    BY <2>1, <1>b DEF Alone, AtWork
<1> QED
  BY <1>1, <1>2

\* What the user does without a clash: a reset meets no execution.
LEMMA UserSolo ==
  ASSUME TypeInv, UserStep, clashes' = 0
  PROVE  /\ clashes = 0 /\ UNCHANGED <<step, scopeVars, cursorVars, started>>
         /\ ResetRuns => \A e \in Executions : step[e] = "idle"
<1>1. clashes \in Nat
  BY TypeParts, BoundsAssumption DEF SessionTyped
<1>2. CASE ResetRuns
  BY <1>1, <1>2 DEF ResetRuns, CountClash, AtWork
<1> QED
  BY <1>2 DEF UserStep, AddListing, RemoveListing, SaveProfile, Start, Dispatch, GiveUp, jobVars

LEMMA AloneKeeps == TypeInv /\ Alone /\ [Next]_vars => Alone'
<1> SUFFICES ASSUME TypeInv, Alone, [Next]_vars, clashes' = 0 PROVE \A e \in Executions : AtWork(e)' => e = started'
  BY DEF Alone
<1>1. CASE UNCHANGED vars
  BY <1>1 DEF Alone, AtWork, vars, jobVars
<1>2. CASE UserStep
  BY <1>2, UserSolo DEF Alone, AtWork
<1>3. ASSUME NEW e \in Executions, ExecutionStep(e) PROVE \A f \in Executions : AtWork(f)' => f = started'
  BY <1>3, Solo DEF AtWork
<1> QED
  BY <1>1, <1>2, <1>3 DEF Next

\* The rows there are, when one is set.
LEMMA RowsKept ==
  ASSUME TypeInv, TakenOnce, Alone, TargetsHold, NEW e \in Executions, clashes = 0, MarksRow(e) \/ Settled(e),
         NEW row \in Executions, NEW new \in Statuses \ {"none"}, HandSet(e, row, new)
  PROVE  /\ \A m \in Listings, u \in Types : m # cur[e] \/ u # type[e] => Rows(m, u)' = Rows(m, u)
         /\ \A m \in Listings, u \in Types : m = cur[e] /\ u = type[e] =>
              Rows(m, u)' = Rows(m, u) \cup {row} /\ (Rows(m, u) # {} => row \in Rows(m, u))
<1>1. cur[e] \in Listings /\ cur[e] \in listings /\ type[e] \in Types /\ target[e] \in 0..MaxExecutions
  BY HandIsSet, TypeParts DEF LocalsTyped
<1>2. Rows(cur[e], type[e]) # {} => row \in Rows(cur[e], type[e])
  <2>1. CASE MarksRow(e)
    BY <1>1, <2>1 DEF MarksRow, TargetsHold, HandSet
  <2>2. CASE Settled(e)
    BY <2>2 DEF Settled, HandSet
  <2> QED
    BY <2>1, <2>2
<1>3. \A m \in Listings, u \in Types : m # cur[e] \/ u # type[e] => Rows(m, u)' = Rows(m, u)
  BY DEF HandSet, Rows
<1>4. \A m \in Listings, u \in Types : m = cur[e] /\ u = type[e] => Rows(m, u)' = Rows(m, u) \cup {row}
  BY <1>1 DEF HandSet, Rows
<1> QED
  BY <1>2, <1>3, <1>4

LEMMA UserRows ==
  ASSUME TypeInv, UserStep, NEW l \in Listings, NEW t \in Types
  PROVE  Rows(l, t)' = Rows(l, t) \/ (Rows(l, t)' = {} /\ l \notin listings')
<1>1. ASSUME NEW m \in Listings, RemoveListing(m)
      PROVE  Rows(l, t)' = Rows(l, t) \/ (Rows(l, t)' = {} /\ l \notin listings')
  BY <1>1, TypeParts DEF RemoveListing, Rows, NoRows, TablesTyped, StatusTable
<1>2. CASE ResetRuns
  BY <1>2 DEF ResetRuns, Rows
<1> QED
  BY <1>1, <1>2 DEF UserStep, AddListing, SaveProfile, Start, Dispatch, GiveUp, Rows, tableVars

LEMMA OneRowKeeps == TypeInv /\ TakenOnce /\ SoloInv /\ [Next]_vars => OneRow'
<1> SUFFICES ASSUME TypeInv, TakenOnce, SoloInv, [Next]_vars, clashes' = 0, NEW l \in Listings, NEW t \in Types
             PROVE  \A r, q \in Rows(l, t)' : r = q
  BY DEF OneRow
<1>1. CASE UNCHANGED vars
  BY <1>1 DEF SoloInv, OneRow, Rows, vars, tableVars
<1>2. CASE UserStep
  BY <1>2, UserRows, UserSolo DEF SoloInv, OneRow
<1>3. ASSUME NEW e \in Executions, ExecutionStep(e) PROVE \A r, q \in Rows(l, t)' : r = q
  <2>1. clashes = 0
    BY <1>3, Solo DEF SoloInv
  <2>2. CASE UNCHANGED <<status, writer>>
    BY <2>1, <2>2 DEF SoloInv, OneRow, Rows
  <2>3. CASE MarksRow(e) \/ Settled(e)
    <3>1. PICK row \in Executions, new \in Statuses \ {"none"} : HandSet(e, row, new)
      BY <2>3, HandIsSet
    <3>2. /\ l # cur[e] \/ t # type[e] => Rows(l, t)' = Rows(l, t)
          /\ l = cur[e] /\ t = type[e] => Rows(l, t)' = Rows(l, t) \cup {row} /\ (Rows(l, t) # {} => row \in Rows(l, t))
      BY <2>1, <2>3, <3>1, RowsKept DEF SoloInv
    <3>3. \A m \in Listings, u \in Types : \A r, q \in Rows(m, u) : r = q
      BY <2>1 DEF SoloInv, OneRow
    <3>4. CASE l = cur[e] /\ t = type[e]
      <4>1. Rows(l, t)' = Rows(l, t) \cup {row} /\ (Rows(l, t) # {} => row \in Rows(l, t))
        BY <3>2, <3>4
      <4> QED
        BY <3>3, <4>1
    <3>5. CASE l # cur[e] \/ t # type[e]
      BY <3>2, <3>3, <3>5
    <3> QED
      BY <3>4, <3>5
  <2> QED
    BY <1>3, <2>2, <2>3, TableFrame DEF Untouched, Stores
<1> QED
  BY <1>1, <1>2, <1>3 DEF Next

\* An execution comes to a write from the read of the same listing and type.
LEMMA WriteFrame ==
  ASSUME TypeInv, NEW e \in Executions, ExecutionStep(e), step'[e] = "write"
  PROVE  /\ cur'[e] = cur[e] /\ type'[e] = type[e] /\ Untouched
         /\ \/ Rows(cur[e], type[e]) = {} /\ target'[e] = 0
            \/ target'[e] \in Rows(cur[e], type[e])
<1>a. LocalsTyped
  BY TypeParts
<1>1. Rest(e) => FALSE
  BY <1>a, RestFrame
<1>2. Raise(e) \/ EndAs(e, "completed") => FALSE
  BY <1>1, <1>a, EndFrame
<1>3. ASSUME NEW where \in Steps \ {"write"}, Goto(e, where) PROVE FALSE
  BY <1>3, <1>a DEF Goto, LocalsTyped
<1>b. AfterMark(type[e]) \in Steps \ {"write"}
  BY <1>a DEF AfterMark, Steps
<1>4. CASE StartExecution(e) \/ Crash(e) \/ NextListing(e) \/ ListingsDone(e) \/ Finish(e)
  BY <1>1, <1>2, <1>3, <1>4 DEF StartExecution, Crash, NextListing, ListingsDone, Finish, Steps
<1>5. CASE WriteRun(e) \/ Save(e) \/ Settle(e)
  BY <1>2, <1>3, <1>5, <1>b DEF WriteRun, Save, Settle, Steps
<1>6. CASE Geocode(e) \/ EstimateLease(e) \/ Score(e) \/ RouteMatrix(e)
  BY <1>2, <1>3, <1>6 DEF Geocode, EstimateLease, Score, RouteMatrix, Returns, Skips, Steps
<1>7. CASE Journeys(e) \/ MarkJourneys(e) \/ StoreJourneys(e)
  BY <1>2, <1>3, <1>7 DEF Journeys, MarkJourneys, StoreJourneys, TakeNext, Steps
<1>8. CASE ReadRun(e)
  <2>1. UNCHANGED <<cur, type>> /\ Untouched
    BY <1>8 DEF ReadRun, TablesUnchanged, tableVars, Untouched
  <2>2. \/ RowsFound(cur[e], type[e]) = {} /\ target' = [target EXCEPT ![e] = 0]
        \/ \E row \in RowsFound(cur[e], type[e]) : target' = [target EXCEPT ![e] = row]
    BY <1>3, <1>8, <1>b DEF ReadRun
  <2> QED
    BY <2>1, <2>2, <1>a DEF RowsFound, LocalsTyped
<1> QED
  BY <1>4, <1>5, <1>6, <1>7, <1>8 DEF ExecutionStep

LEMMA TargetsKeep == TypeInv /\ TakenOnce /\ SoloInv /\ [Next]_vars => TargetsHold'
<1> SUFFICES ASSUME TypeInv, TakenOnce, SoloInv, [Next]_vars, clashes' = 0,
                    NEW e \in Executions, step'[e] = "write", cur'[e] \in listings'
             PROVE  /\ target'[e] = 0 => Rows(cur[e], type[e])' = {}
                    /\ target'[e] # 0 => target'[e] \in Rows(cur[e], type[e])'
  BY DEF TargetsHold
<1>1. CASE UNCHANGED vars
  BY <1>1 DEF SoloInv, TargetsHold, Rows, vars, userVars, tableVars, cursorVars
<1>2. CASE UserStep
  <2>1. clashes = 0 /\ UNCHANGED <<step, cur, type, target, taken>>
    BY <1>2, UserSolo DEF scopeVars, cursorVars
  <2>2. cur[e] \in taken[e] /\ taken[e] \subseteq listings \cup removed /\ type[e] \in Types
    BY <2>1, TypeParts DEF ScopeKept, InHand, TakenOnce, LocalsTyped
  <2>3. listings' \cap (listings \cup removed) \subseteq listings
    BY <1>2, TypeParts DEF UserStep, AddListing, RemoveListing, SaveProfile, Start, ResetRuns, Dispatch, GiveUp,
       userVars, SessionTyped
  <2>4. cur[e] \in listings /\ cur[e] \in Listings
    BY <2>1, <2>2, <2>3, TypeParts DEF SessionTyped
  <2>5. Rows(cur[e], type[e])' = Rows(cur[e], type[e])
    <3>1. PICK l \in Listings, t \in Types : l = cur[e] /\ t = type[e]
      BY <2>2, <2>4
    <3>2. Rows(l, t)' = Rows(l, t)
      BY <1>2, <2>1, <3>1, UserRows
    <3> QED
      BY <2>1, <3>1, <3>2 DEF Rows
  <2> QED
    BY <2>1, <2>4, <2>5 DEF SoloInv, TargetsHold
<1>3. ASSUME NEW f \in Executions, ExecutionStep(f)
      PROVE  /\ target'[e] = 0 => Rows(cur[e], type[e])' = {}
             /\ target'[e] # 0 => target'[e] \in Rows(cur[e], type[e])'
  <2>1. e = f
    BY <1>3, Solo DEF SoloInv
  <2> QED
    BY <1>3, <2>1, WriteFrame, BoundsAssumption DEF Untouched, Rows, Executions
<1> QED
  BY <1>1, <1>2, <1>3 DEF Next
\* As long as executions do not clash, upsert_run's check and insert
\* (enrichment_repository.py) leave one row for a listing and type.
THEOREM UpsertsMakeOneRow == Spec => []OneRunPerType
<1>1. Init => TypeInv /\ TakenOnce /\ SoloInv
  BY InitTyped, InitTaken, InitSolo
<1>2. TypeInv /\ TakenOnce /\ SoloInv /\ [Next]_vars => (TypeInv /\ TakenOnce /\ SoloInv)'
  BY TypeKeeps, TakenOnceKeeps, AloneKeeps, TargetsKeep, OneRowKeeps DEF SoloInv
<1>3. SoloInv => OneRunPerType
  <2> SUFFICES ASSUME SoloInv, clashes = 0, NEW l \in Listings, NEW t \in Types PROVE Cardinality(Rows(l, t)) <= 1
    BY DEF OneRunPerType
  <2>1. CASE Rows(l, t) = {}
    BY <2>1, FS_EmptySet
  <2>2. ASSUME NEW r \in Rows(l, t) PROVE Cardinality(Rows(l, t)) <= 1
    <3>1. Rows(l, t) = {r}
      BY <2>2 DEF SoloInv, OneRow
    <3>2. Cardinality({r}) = 1
      BY FS_Singleton
    <3> QED
      BY <3>1, <3>2
  <2> QED
    BY <2>1, <2>2
<1> QED
  BY <1>1, <1>2, <1>3, PTL DEF Spec

-----------------------------------------------------------------------------
(* How far the execution has come.                                         *)

\* What an execution has behind it: listings of its first loop, types of the
\* listing in hand, journeys of its last loop.
Before(e) ==
  CASE type[e] = "lease" -> {"geocoding"}
    [] type[e] = "score" -> {"geocoding", "lease"}
    [] type[e] = "property" -> {"geocoding", "lease"} \cup ({"score"} \cap asks[e])
    [] OTHER -> {}

\* What is planned for the loop over the listings.
Listed(e) == Planned(e) \ {"journey"}

OnListing(e) == step[e] \in InHand \cup {"work"} /\ type[e] # "journey"
AllListed(e) ==
  \/ step[e] \in {"journeys", "mark", "store", "end"}
  \/ step[e] \in InHand \cup {"work"} /\ type[e] = "journey"

Due(e, l, t) ==
  \/ t \in Listed(e) /\ step[e] = "next" /\ l \in taken[e] \ todo[e]
  \/ t \in Listed(e) /\ OnListing(e) /\ l \in taken[e] \ todo[e] /\ l # cur[e]
  \/ OnListing(e) /\ l = cur[e] /\ t \in Before(e)
  \/ t \in Listed(e) /\ AllListed(e) /\ l \in taken[e]
  \/ t = "journey" /\ step[e] = "store" /\ l \in taken[e] \ todo[e]
  \/ /\ t = "journey" /\ type[e] = "journey" /\ step[e] \in {"save", "settle"}
     /\ l \in taken[e] \ todo[e] /\ l # cur[e]
  \/ t = "journey" /\ step[e] = "end" /\ "journey" \in asks[e] /\ l \in taken[e]

\* What it has marked and not yet settled.
Underway(e, l, t) ==
  \/ OnListing(e) /\ step[e] \in {"work", "save", "settle"} /\ l = cur[e] /\ t = type[e]
  \/ /\ t = "journey" /\ type[e] = "journey" /\ step[e] \in {"save", "settle"}
     /\ l = cur[e] \/ l \in todo[e]
  \/ t = "journey" /\ step[e] = "mark" /\ l \in taken[e] \ todo[e]
  \/ t = "journey" /\ type[e] = "journey" /\ step[e] \in {"read", "write"} /\ l \in taken[e] \ todo[e] /\ l # cur[e]
  \/ t = "journey" /\ type[e] = "journey" /\ step[e] = "work" /\ l \in taken[e]
  \/ t = "journey" /\ step[e] = "store" /\ l \in todo[e]

\* The listing in hand is taken out of its loop, and the last loop is the
\* journeys'.
CursorApart ==
  \A e \in Executions :
    /\ step[e] \in InHand => cur[e] \notin todo[e]
    /\ OnListing(e) => cur[e] \notin todo[e]
    /\ step[e] = "store" => type[e] = "journey"
    /\ step[e] \in {"idle", "next", "journeys"} => type[e] # "journey"
\* How an execution's step, cursor and rows move together.
Same(e) == cur'[e] = cur[e] /\ type'[e] = type[e] /\ todo'[e] = todo[e]
Kept(e) == taken'[e] = taken[e] /\ asks'[e] = asks[e]
Picks(e) == \E l \in todo[e] : todo'[e] = todo[e] \ {l} /\ cur'[e] = l

Ends(e) == step'[e] = "idle" /\ type'[e] = "geocoding" /\ Kept(e) /\ Untouched
Begins(e) == step'[e] = "next" /\ type'[e] = type[e] /\ todo'[e] = taken'[e] /\ Untouched /\ StartExecution(e)

Lists(e) ==
  /\ step[e] = "next" /\ Kept(e) /\ Untouched
  /\ \/ step'[e] = "read" /\ type'[e] = "geocoding" /\ Picks(e)
     \/ step'[e] = (IF "journey" \in asks[e] THEN "journeys" ELSE "end") /\ Same(e) /\ todo[e] = {}

Marks(e) ==
  /\ Same(e) /\ Kept(e)
  /\ \/ step[e] = "read" /\ step'[e] = "write" /\ Untouched
     \/ step[e] = "read" /\ step'[e] = AfterMark(type[e]) /\ cur[e] \notin listings /\ Untouched
     \/ step[e] = "write" /\ step'[e] = AfterMark(type[e]) /\ cur[e] \notin listings /\ Untouched
     \/ step[e] = "write" /\ step'[e] = AfterMark(type[e]) /\ MarksRow(e)

Settles(e) ==
  /\ Kept(e)
  /\ \/ step[e] = "save" /\ step'[e] = "settle" /\ Same(e) /\ UNCHANGED <<status, writer>>
     \/ /\ step[e] = "settle" /\ step'[e] = (IF type[e] = "journey" THEN "store" ELSE "read")
        /\ type'[e] = Following(e) /\ cur'[e] = cur[e] /\ todo'[e] = todo[e]
        /\ Settled(e) \/ (cur[e] \notin listings /\ Untouched)

Works(e) ==
  /\ step[e] = "work" /\ Kept(e) /\ Untouched /\ cur'[e] = cur[e] /\ type'[e] = type[e]
  /\ \/ type[e] # "journey" /\ step'[e] \in {"save", "settle"} /\ todo'[e] = todo[e]
     \/ type[e] = "journey" /\ step'[e] = "store" /\ todo'[e] = taken[e]

Loops(e) ==
  /\ Kept(e) /\ Untouched
  /\ \/ step[e] = "journeys" /\ step'[e] = "mark" /\ todo'[e] = taken[e] /\ type'[e] = "journey"
     \/ step[e] = "mark" /\ step'[e] = "read" /\ type'[e] = type[e] /\ Picks(e)
     \/ step[e] = "mark" /\ step'[e] = "work" /\ Same(e) /\ todo[e] = {}
     \/ step[e] = "store" /\ step'[e] = "save" /\ type'[e] = type[e] /\ Picks(e)
     \/ step[e] = "store" /\ step'[e] = "end" /\ Same(e) /\ todo[e] = {}

LEMMA Moves ==
  ASSUME TypeInv, NEW e \in Executions, ExecutionStep(e)
  PROVE  Ends(e) \/ Begins(e) \/ Lists(e) \/ Marks(e) \/ Settles(e) \/ Works(e) \/ Loops(e)
<1>a. LocalsTyped
  BY TypeParts
<1>b. TablesUnchanged \/ UNCHANGED tableVars => Untouched
  BY DEF TablesUnchanged, tableVars, Untouched
<1>1. Rest(e) /\ Untouched => Ends(e)
  BY <1>a DEF Rest, Goto, LocalsTyped, Ends, Kept
<1>2. (Raise(e) \/ EndAs(e, "completed")) /\ UNCHANGED tableVars => Ends(e)
  BY <1>1, <1>b DEF Raise, EndAs
<1>3. CASE StartExecution(e)
  BY <1>3, <1>a, <1>b DEF StartExecution, Begins, Goto, LocalsTyped
<1>4. CASE Crash(e) \/ Finish(e)
  BY <1>1, <1>2, <1>4, <1>b DEF Crash, Finish
<1>5. CASE NextListing(e)
  BY <1>2, <1>5, <1>a, <1>b DEF NextListing, Lists, Kept, Picks, Goto, LocalsTyped, scopeVars
<1>6. CASE ListingsDone(e)
  BY <1>6, <1>a, <1>b DEF ListingsDone, Lists, Kept, Same, CursorUnchanged, Goto, LocalsTyped, scopeVars, cursorVars
<1>7. CASE ReadRun(e)
  BY <1>7, <1>a, <1>b DEF ReadRun, Marks, Kept, Same, Goto, LocalsTyped, scopeVars
<1>8. CASE WriteRun(e)
  BY <1>2, <1>8, <1>a, <1>b DEF WriteRun, Marked, Marks, MarksRow, Kept, Same, Goto, LocalsTyped, scopeVars
<1>9. CASE Save(e)
  BY <1>2, <1>9, <1>a, <1>b DEF Save, Settles, Kept, Same, CursorUnchanged, Goto, LocalsTyped, scopeVars, cursorVars, Untouched
<1>10. CASE Settle(e)
  <2>1. Settled(e) \/ (cur[e] \notin listings /\ Untouched)
    BY <1>10 DEF Settle, Settled, Untouched, RowsFound, Rows
  <2> QED
    BY <1>10, <2>1, <1>a DEF Settle, Settles, Kept, Goto, LocalsTyped, scopeVars
<1>11. CASE Geocode(e) \/ EstimateLease(e) \/ Score(e) \/ RouteMatrix(e)
  BY <1>2, <1>11, <1>a, <1>b DEF Geocode, EstimateLease, Score, RouteMatrix, Returns, Skips, Works, Kept, Goto,
     LocalsTyped, scopeVars
<1>12. CASE Journeys(e)
  BY <1>2, <1>12, <1>a, <1>b DEF Journeys, Loops, Kept, Goto, LocalsTyped, scopeVars
<1>13. CASE MarkJourneys(e) \/ StoreJourneys(e)
  BY <1>13, <1>a, <1>b DEF MarkJourneys, StoreJourneys, TakeNext, Loops, Kept, Same, Picks, CursorUnchanged, Goto,
     LocalsTyped, scopeVars, cursorVars
<1> QED
  BY <1>3, <1>4, <1>5, <1>6, <1>7, <1>8, <1>9, <1>10, <1>11, <1>12, <1>13 DEF ExecutionStep

LEMMA InitApart == Init => CursorApart
  BY DEF Init, CursorApart, InHand, OnListing

LEMMA ApartKeeps == TypeInv /\ TakenOnce /\ CursorApart /\ [Next]_vars => CursorApart'
<1> SUFFICES ASSUME TypeInv, TakenOnce, CursorApart, [Next]_vars PROVE CursorApart'
  OBVIOUS
<1>1. CASE UNCHANGED vars
  BY <1>1 DEF CursorApart, OnListing, vars, cursorVars
<1>2. CASE UserStep
  BY <1>2 DEF UserStep, AddListing, RemoveListing, SaveProfile, Start, ResetRuns, Dispatch, GiveUp,
     CursorApart, OnListing, cursorVars
<1>3. ASSUME NEW e \in Executions, ExecutionStep(e) PROVE CursorApart'
  <2> SUFFICES /\ step'[e] \in InHand => cur'[e] \notin todo'[e]
               /\ OnListing(e)' => cur'[e] \notin todo'[e]
               /\ step'[e] = "store" => type'[e] = "journey"
               /\ step'[e] \in {"idle", "next", "journeys"} => type'[e] # "journey"
    <3>1. \A f \in Executions : f # e =>
            step'[f] = step[f] /\ cur'[f] = cur[f] /\ type'[f] = type[f] /\ todo'[f] = todo[f]
      BY <1>3, OthersKept
    <3> QED
      BY <3>1 DEF CursorApart, OnListing
  <2>a. /\ step[e] \in InHand => cur[e] \notin todo[e]
        /\ OnListing(e) => cur[e] \notin todo[e]
        /\ step[e] = "store" => type[e] = "journey"
        /\ step[e] \in {"idle", "next", "journeys"} => type[e] # "journey"
        /\ step[e] = "mark" => type[e] = "journey"
        /\ type[e] \in Types
    BY TypeParts DEF CursorApart, ScopeKept, LocalsTyped
  <2>1. CASE Ends(e)
    BY <2>1 DEF Ends, InHand, OnListing
  <2>2. CASE Begins(e)
    <3>1. step[e] = "idle"
      BY <2>2, TypeParts, BoundsAssumption DEF Begins, StartExecution, TakenOnce, SessionTyped, Executions
    <3> QED
      BY <2>2, <2>a, <3>1 DEF Begins, InHand, OnListing
  <2>3. CASE Lists(e)
    BY <2>3, <2>a DEF Lists, Picks, Same, InHand, OnListing
  <2>4. CASE Marks(e)
    BY <2>4, <2>a DEF Marks, Same, InHand, OnListing, AfterMark, Types
  <2>5. CASE Settles(e)
    BY <2>5, <2>a DEF Settles, Same, InHand, OnListing, Following, Types
  <2>6. CASE Works(e)
    BY <2>6, <2>a DEF Works, InHand, OnListing
  <2>7. CASE Loops(e)
    BY <2>7, <2>a DEF Loops, Same, Picks, InHand, OnListing
  <2> QED
    BY <1>3, <2>1, <2>2, <2>3, <2>4, <2>5, <2>6, <2>7, Moves
<1> QED
  BY <1>1, <1>2, <1>3 DEF Next
LEMMA HandFacts ==
  ASSUME TypeInv, TakenOnce, CursorApart, NEW e \in Executions
  PROVE  /\ step[e] \in InHand => cur[e] \notin todo[e] /\ cur[e] \in taken[e]
         /\ OnListing(e) => cur[e] \notin todo[e]
         /\ step[e] = "store" => type[e] = "journey"
         /\ step[e] \in {"idle", "next", "journeys"} => type[e] # "journey"
         /\ step[e] = "mark" => type[e] = "journey"
         /\ type[e] \in Types /\ todo[e] \subseteq taken[e]
         /\ StartExecution(e) => step[e] = "idle"
<1>1. StartExecution(e) => step[e] = "idle"
  BY TypeParts, BoundsAssumption DEF StartExecution, TakenOnce, SessionTyped, Executions
<1> QED
  BY <1>1, TypeParts DEF CursorApart, ScopeKept, LocalsTyped, InHand

\* What is newly behind an execution was settled by the step, or is the
\* property type, which is marked once.
LEMMA DueGrows ==
  ASSUME TypeInv, TakenOnce, CursorApart, NEW e \in Executions, ExecutionStep(e),
         NEW l \in listings, NEW t \in Types, Due(e, l, t)'
  PROVE  \/ Due(e, l, t)
         \/ l = cur[e] /\ t = type[e] /\ Settled(e)
         \/ l = cur[e] /\ t = type[e] /\ MarksRow(e) /\ t = "property"
<1>a. /\ step[e] \in InHand => cur[e] \notin todo[e] /\ cur[e] \in taken[e]
      /\ OnListing(e) => cur[e] \notin todo[e]
      /\ step[e] = "store" => type[e] = "journey"
      /\ step[e] \in {"idle", "next", "journeys"} => type[e] # "journey"
      /\ step[e] = "mark" => type[e] = "journey"
      /\ type[e] \in Types /\ todo[e] \subseteq taken[e]
      /\ StartExecution(e) => step[e] = "idle"
  BY HandFacts
<1>1. CASE Ends(e)
  BY <1>1 DEF Ends, Due, OnListing, AllListed, InHand
<1>2. CASE Begins(e)
  BY <1>2, <1>a DEF Begins, Due, OnListing, AllListed, InHand
<1>3. CASE Lists(e)
  BY <1>3, <1>a DEF Lists, Picks, Same, Kept, Due, Listed, Planned, Optional, OnListing, AllListed, InHand, Before
<1>4. CASE Marks(e)
  BY <1>4, <1>a DEF Marks, Same, Kept, Due, Listed, Planned, Optional, OnListing, AllListed, InHand, Before, AfterMark, Types
<1>5. CASE Settles(e)
  BY <1>5, <1>a DEF Settles, Same, Kept, Due, Listed, Planned, Optional, OnListing, AllListed, InHand, Before, Following, Types
<1>6. CASE Works(e)
  BY <1>6, <1>a DEF Works, Kept, Due, Listed, Planned, Optional, OnListing, AllListed, InHand, Before
<1>7. CASE Loops(e)
  BY <1>7, <1>a DEF Loops, Same, Picks, Kept, Due, Listed, Planned, Optional, OnListing, AllListed, InHand, Before
<1> QED
  BY <1>1, <1>2, <1>3, <1>4, <1>5, <1>6, <1>7, Moves

LEMMA MarkNotDue ==
  ASSUME TypeInv, NEW e \in Executions, MarksRow(e)
  PROVE  ~Due(e, cur[e], type[e])
  BY TypeParts DEF LocalsTyped, MarksRow, Due, Listed, OnListing, AllListed, InHand, Before, Types

\* What is underway after a step was before it, or is marked by it; what is
\* settled no longer is.
LEMMA UnderwayFrom ==
  ASSUME TypeInv, TakenOnce, CursorApart, NEW e \in Executions, ExecutionStep(e),
         NEW l \in listings, NEW t \in Types, Underway(e, l, t)'
  PROVE  \/ Underway(e, l, t) /\ ~(l = cur[e] /\ t = type[e] /\ (Settled(e) \/ MarksRow(e)))
         \/ l = cur[e] /\ t = type[e] /\ MarksRow(e) /\ t # "property"
<1>a. /\ step[e] \in InHand => cur[e] \notin todo[e] /\ cur[e] \in taken[e]
      /\ OnListing(e) => cur[e] \notin todo[e]
      /\ step[e] = "store" => type[e] = "journey"
      /\ step[e] \in {"idle", "next", "journeys"} => type[e] # "journey"
      /\ step[e] = "mark" => type[e] = "journey"
      /\ type[e] \in Types /\ todo[e] \subseteq taken[e]
      /\ StartExecution(e) => step[e] = "idle"
  BY HandFacts
<1>b. (Settled(e) => step[e] = "settle") /\ (MarksRow(e) => step[e] = "write")
  BY DEF Settled, MarksRow
<1>1. CASE Ends(e)
  BY <1>1 DEF Ends, Underway, OnListing, InHand
<1>2. CASE Begins(e)
  BY <1>2, <1>a DEF Begins, Underway, OnListing, InHand
<1>3. CASE Lists(e)
  BY <1>3, <1>a, <1>b DEF Lists, Picks, Same, Kept, Underway, OnListing, InHand
<1>4. CASE Marks(e)
  BY <1>4, <1>a, <1>b DEF Marks, Same, Kept, Underway, OnListing, InHand, AfterMark, Types
<1>5. CASE Settles(e)
  BY <1>5, <1>a, <1>b DEF Settles, Same, Kept, Underway, OnListing, InHand, Following, Types
<1>6. CASE Works(e)
  BY <1>6, <1>a, <1>b DEF Works, Kept, Underway, OnListing, InHand
<1>7. CASE Loops(e)
  BY <1>7, <1>a, <1>b DEF Loops, Same, Picks, Kept, Underway, OnListing, InHand
<1> QED
  BY <1>1, <1>2, <1>3, <1>4, <1>5, <1>6, <1>7, Moves
\* A type of a listing that has ended, and one that has not succeeded.
Ended(l, t) ==
  /\ \E r \in Executions : status[l][t][r] # "none"
  /\ \A r \in Executions : status[l][t][r] \in Terminal \cup {"none"}

Unsettled(l, t) == \A r \in Executions : status[l][t][r] # "SUCCEEDED"

DueEnded ==
  clashes = 0 => \A e \in Executions, l \in listings, t \in Types : Due(e, l, t) => Ended(l, t)

UnderwayUnsettled ==
  clashes = 0 => \A e \in Executions, l \in listings, t \in Types : Underway(e, l, t) => Unsettled(l, t)

ProgressInv == CursorApart /\ DueEnded /\ UnderwayUnsettled

LEMMA InitProgress == Init => ProgressInv
  BY InitApart DEF Init, ProgressInv, DueEnded, UnderwayUnsettled, Due, Underway, OnListing, AllListed, InHand

LEMMA AtTaken ==
  ASSUME TypeInv, TakenOnce, NEW e \in Executions, NEW l, NEW t, Due(e, l, t) \/ Underway(e, l, t)
  PROVE  l \in taken[e] /\ l \in listings \cup removed /\ step[e] # "idle"
<1>1. /\ OnListing(e) => cur[e] \in taken[e]
      /\ step[e] \in InHand => cur[e] \in taken[e]
      /\ todo[e] \subseteq taken[e] /\ taken[e] \subseteq listings \cup removed
  BY TypeParts DEF ScopeKept, TakenOnce, OnListing
<1> QED
  BY <1>1 DEF Due, Underway, OnListing, AllListed, InHand

\* The user leaves the rows of a listing that stays alone, or resets them all.
LEMMA UserTables ==
  ASSUME TypeInv, UserStep, NEW l \in listings', l \in listings \cup removed
  PROVE  /\ l \in listings /\ l \in Listings
         /\ ~ResetRuns => status'[l] = status[l] /\ writer'[l] = writer[l]
<1>a. SessionTyped /\ TablesTyped
  BY TypeParts
<1>1. ASSUME NEW m \in Listings, RemoveListing(m)
      PROVE  l \in listings /\ l \in Listings /\ status'[l] = status[l] /\ writer'[l] = writer[l]
  BY <1>1, <1>a DEF RemoveListing, SessionTyped, TablesTyped, StatusTable, WriterTable
<1>2. ASSUME NEW m \in Listings, AddListing(m)
      PROVE  l \in listings /\ l \in Listings /\ status'[l] = status[l] /\ writer'[l] = writer[l]
  BY <1>2, <1>a DEF AddListing, SessionTyped, tableVars
<1>3. CASE SaveProfile \/ Start \/ Dispatch \/ GiveUp \/ ResetRuns
  BY <1>3, <1>a DEF SaveProfile, Start, Dispatch, GiveUp, ResetRuns, SessionTyped, userVars, tableVars
<1> QED
  BY <1>1, <1>2, <1>3 DEF UserStep

LEMMA ProgressUnderUser ==
  ASSUME TypeInv, TakenOnce, ProgressInv, UserStep, clashes' = 0,
         NEW e \in Executions, NEW l \in listings', NEW t \in Types
  PROVE  /\ Due(e, l, t)' => Ended(l, t)'
         /\ Underway(e, l, t)' => Unsettled(l, t)'
<1>1. clashes = 0 /\ UNCHANGED <<step, taken, asks, todo, cur, type>>
  BY UserSolo DEF scopeVars, cursorVars
<1>2. (Due(e, l, t)' => Due(e, l, t)) /\ (Underway(e, l, t)' => Underway(e, l, t))
  BY <1>1 DEF Due, Listed, Planned, Before, Underway, OnListing, AllListed
<1>3. CASE Due(e, l, t) \/ Underway(e, l, t)
  <2>1. l \in listings \cup removed /\ ~ResetRuns
    BY <1>3, AtTaken, UserSolo
  <2>2. l \in listings /\ status'[l] = status[l]
    BY <2>1, UserTables
  <2> QED
    BY <1>1, <1>2, <2>2 DEF ProgressInv, DueEnded, UnderwayUnsettled, Ended, Unsettled
<1> QED
  BY <1>2, <1>3

LEMMA ProgressUnderStep ==
  ASSUME TypeInv, TakenOnce, SoloInv, OneRow', ProgressInv, NEW e \in Executions, ExecutionStep(e), clashes' = 0,
         NEW l \in listings', NEW t \in Types
  PROVE  /\ Due(e, l, t)' => Ended(l, t)'
         /\ Underway(e, l, t)' => Unsettled(l, t)'
<1>a. clashes = 0 /\ l \in listings /\ l \in Listings
  BY Solo, ScopeFrame, TypeParts DEF SoloInv, userVars, SessionTyped
<1>b. /\ Due(e, l, t) => Ended(l, t)
      /\ Underway(e, l, t) => Unsettled(l, t)
  BY <1>a DEF ProgressInv, DueEnded, UnderwayUnsettled
<1>c. \A r, q \in Executions : status'[l][t][r] # "none" /\ status'[l][t][q] # "none" => r = q
  BY <1>a DEF OneRow, Rows
<1>1. CASE UNCHANGED <<status, writer>> /\ ~MarksRow(e) /\ ~Settled(e)
  BY <1>1, <1>a, <1>b, DueGrows, UnderwayFrom DEF Ended, Unsettled, ProgressInv
<1>2. CASE MarksRow(e) \/ Settled(e)
  <2>1. PICK row \in Executions, new \in Statuses \ {"none"} : HandSet(e, row, new)
    BY <1>2, HandIsSet
  <2>2. CASE ~(l = cur[e] /\ t = type[e])
    <3>1. \A r \in Executions : status'[l][t][r] = status[l][t][r]
      BY <1>a, <2>1, <2>2 DEF HandSet
    <3> QED
      BY <1>a, <1>b, <2>2, <3>1, DueGrows, UnderwayFrom DEF Ended, Unsettled, ProgressInv
  <2>3. CASE l = cur[e] /\ t = type[e]
    <3>1. /\ status'[l][t][row] = new /\ new # "none"
          /\ \A r \in Executions : r # row => status'[l][t][r] = "none"
      BY <1>a, <1>c, <2>1, <2>3 DEF HandSet, Statuses
    <3>2. CASE MarksRow(e)
      <4>1. step[e] = "write" /\ new = MarkedAs(t)
        BY <2>1, <2>3, <3>2 DEF MarksRow, HandSet
      <4>2. Due(e, l, t)' => t = "property"
        BY <1>a, <2>3, <3>2, <4>1, DueGrows, MarkNotDue DEF ProgressInv, Settled
      <4>3. Underway(e, l, t)' => t # "property"
        BY <1>a, <2>3, <3>2, UnderwayFrom DEF ProgressInv
      <4> QED
        BY <3>1, <4>1, <4>2, <4>3 DEF Ended, Unsettled, MarkedAs, Terminal
    <3>3. CASE Settled(e)
      <4>1. step[e] = "settle" /\ new \in Terminal /\ ~MarksRow(e)
        BY <2>1, <3>3, TypeParts DEF Settled, HandSet, LocalsTyped, MarksRow
      <4>2. ~Underway(e, l, t)'
        BY <1>a, <2>3, <3>3, <4>1, UnderwayFrom DEF ProgressInv
      <4> QED
        BY <3>1, <4>1, <4>2 DEF Ended
    <3> QED
      BY <1>2, <3>2, <3>3
  <2> QED
    BY <2>2, <2>3
<1> QED
  BY <1>1, <1>2, TableFrame DEF Untouched, Stores

LEMMA ProgressKeeps ==
  TypeInv /\ TakenOnce /\ SoloInv /\ OneRow' /\ ProgressInv /\ [Next]_vars => (DueEnded /\ UnderwayUnsettled)'
<1> SUFFICES ASSUME TypeInv, TakenOnce, SoloInv, OneRow', ProgressInv, [Next]_vars, clashes' = 0,
                    NEW f \in Executions, NEW l \in listings', NEW t \in Types
             PROVE  /\ Due(f, l, t)' => Ended(l, t)'
                    /\ Underway(f, l, t)' => Unsettled(l, t)'
  BY DEF DueEnded, UnderwayUnsettled
<1>1. CASE UNCHANGED vars
  BY <1>1 DEF ProgressInv, DueEnded, UnderwayUnsettled, Due, Listed, Planned, Before, Underway, OnListing, AllListed, Ended, Unsettled, vars,
     userVars, tableVars, scopeVars, cursorVars
<1>2. CASE UserStep
  BY <1>2, ProgressUnderUser
<1>3. ASSUME NEW e \in Executions, ExecutionStep(e)
      PROVE  /\ Due(f, l, t)' => Ended(l, t)'
             /\ Underway(f, l, t)' => Unsettled(l, t)'
  <2>1. CASE f = e
    BY <1>3, <2>1, ProgressUnderStep
  <2>2. CASE f # e
    <3>1. step'[f] = "idle"
      BY <1>3, <2>2, Solo DEF SoloInv
    <3> QED
      BY <3>1 DEF Due, Underway, OnListing, AllListed, InHand
  <2> QED
    BY <2>1, <2>2
<1> QED
  BY <1>1, <1>2, <1>3 DEF Next
\* When a job has completed, the execution that completed it was the last, and
\* it left everything it planned ended.
CompletedInv ==
  job = "completed" /\ clashes = 0 =>
    /\ started \in Executions
    /\ \A e \in Executions : step[e] = "idle"
    /\ \A l \in taken[started] \cap listings, t \in Planned(started) : Ended(l, t)

LEMMA OnlyFinishCompletes ==
  ASSUME NEW e \in Executions, ExecutionStep(e), job' = "completed", job # "completed"
  PROVE  Finish(e)
<1>1. Raise(e) => job' # "completed"
  BY DEF Raise, EndAs
<1>2. TablesUnchanged => FALSE
  BY DEF TablesUnchanged, jobVars
<1>3. CASE StartExecution(e) \/ Crash(e) \/ NextListing(e) \/ ListingsDone(e)
  BY <1>1, <1>2, <1>3 DEF StartExecution, Crash, NextListing, ListingsDone
<1>4. CASE ReadRun(e) \/ WriteRun(e) \/ Save(e) \/ Settle(e)
  BY <1>1, <1>2, <1>4 DEF ReadRun, WriteRun, Save, Settle, jobVars
<1>5. CASE Geocode(e) \/ EstimateLease(e) \/ Score(e) \/ RouteMatrix(e)
  BY <1>1, <1>2, <1>5 DEF Geocode, EstimateLease, Score, RouteMatrix, Returns, Skips
<1>6. CASE Journeys(e) \/ MarkJourneys(e) \/ StoreJourneys(e)
  BY <1>1, <1>2, <1>6 DEF Journeys, MarkJourneys, StoreJourneys, TakeNext
<1> QED
  BY <1>3, <1>4, <1>5, <1>6 DEF ExecutionStep

LEMMA CompletedKeeps ==
  TypeInv /\ TakenOnce /\ SoloInv /\ ProgressInv /\ CompletedInv /\ [Next]_vars => CompletedInv'
<1> SUFFICES ASSUME TypeInv, TakenOnce, SoloInv, ProgressInv, CompletedInv, [Next]_vars,
                    job' = "completed", clashes' = 0
             PROVE  /\ started' \in Executions
                    /\ \A e \in Executions : step'[e] = "idle"
                    /\ \A l \in taken'[started'] \cap listings', t \in Planned(started)' : Ended(l, t)'
  BY DEF CompletedInv
<1>1. CASE UNCHANGED vars
  BY <1>1 DEF CompletedInv, Planned, Ended, vars, userVars, jobVars, tableVars, scopeVars
<1>2. CASE UserStep
  <2>1. /\ clashes = 0 /\ UNCHANGED <<step, taken, asks, started>>
        /\ job = "completed" /\ ~ResetRuns
    BY <1>2, UserSolo DEF scopeVars, UserStep, AddListing, RemoveListing, SaveProfile, Start, ResetRuns, Dispatch,
       GiveUp, jobVars
  <2>2. Planned(started)' = Planned(started) /\ started \in Executions
    BY <2>1 DEF Planned, CompletedInv
  <2>3. ASSUME NEW l \in taken[started], l \in listings', NEW t \in Planned(started) PROVE Ended(l, t)'
    <3>1. l \in listings /\ status'[l] = status[l]
      BY <1>2, <2>1, <2>2, <2>3, UserTables DEF TakenOnce
    <3> QED
      BY <2>1, <2>3, <3>1 DEF CompletedInv, Ended
  <2> QED
    BY <2>1, <2>2, <2>3 DEF CompletedInv
<1>3. ASSUME NEW e \in Executions, ExecutionStep(e)
      PROVE  /\ started' \in Executions
             /\ \A f \in Executions : step'[f] = "idle"
             /\ \A l \in taken'[started'] \cap listings', t \in Planned(started)' : Ended(l, t)'
  <2>1. clashes = 0 /\ \A f \in Executions : f # e => step'[f] = "idle"
    BY <1>3, Solo DEF SoloInv
  <2>2. job # "completed"
    <3>1. CASE job = "completed"
      <4>1. StartExecution(e)
        BY <1>3, <2>1, <3>1, IdleStarts DEF CompletedInv
      <4> QED
        BY <3>1, <4>1 DEF StartExecution
    <3> QED
      BY <3>1
  <2>3. Finish(e)
    BY <1>3, <2>2, OnlyFinishCompletes
  <2>4. /\ e = started /\ started' = started /\ taken' = taken /\ asks' = asks
        /\ listings' = listings /\ UNCHANGED status /\ step'[e] = "idle"
    BY <2>1, <2>3, TypeParts DEF Finish, EndAs, Rest, Goto, SoloInv, Alone, AtWork, userVars, tableVars, LocalsTyped
  <2>5. ASSUME NEW l \in taken[e] \cap listings, NEW t \in Planned(e) PROVE Ended(l, t)
    <3>1. Due(e, l, t) /\ t \in Types
      BY <2>3, <2>5, TypeParts DEF LocalsTyped, Finish, Due, Listed, AllListed, Planned, Optional, Types
    <3> QED
      BY <2>1, <2>5, <3>1 DEF ProgressInv, DueEnded
  <2>6. Planned(started)' = Planned(started)
    BY <2>4 DEF Planned
  <2> QED
    BY <2>1, <2>4, <2>5, <2>6 DEF Ended
<1> QED
  BY <1>1, <1>2, <1>3 DEF Next

\* After a job has completed, no run it planned is left queued or running for
\* the listings that are still there: _execute_enrichment settles every type it
\* marks, in the first loop and in the journeys' (enrichment_pipeline.py), as
\* long as executions do not clash.
THEOREM CompletionSettles == Spec => []CompletedMeansSettled
<1>1. Init => TypeInv /\ TakenOnce /\ SoloInv /\ ProgressInv /\ CompletedInv
  BY InitTyped, InitTaken, InitSolo, InitProgress DEF Init, CompletedInv
<1>2. TypeInv /\ TakenOnce /\ SoloInv /\ ProgressInv /\ CompletedInv /\ [Next]_vars =>
        (TypeInv /\ TakenOnce /\ SoloInv /\ ProgressInv /\ CompletedInv)'
  BY TypeKeeps, TakenOnceKeeps, AloneKeeps, TargetsKeep, OneRowKeeps, ApartKeeps, ProgressKeeps, CompletedKeeps
     DEF SoloInv, ProgressInv
<1>3. CompletedInv => CompletedMeansSettled
  BY DEF CompletedInv, CompletedMeansSettled, Ended, Rows
<1> QED
  BY <1>1, <1>2, <1>3, PTL DEF Spec
-----------------------------------------------------------------------------
(* Whose evidence it is.                                                   *)

\* The execution that is about to report success wrote the evidence itself.
OwnFirst ==
  clashes = 0 => \A e \in Executions : AboutToSucceed(e) => field[cur[e]][type[e]] = e

AllOwn ==
  clashes = 0 =>
    \A l \in Listings, t \in Types \ {"property"}, row \in Executions :
      Holds(l, t, row) => field[l][t] = writer[l][t][row]

FreshInv == WritersStarted /\ OwnFirst /\ AllOwn

LEMMA InitFresh == Init => FreshInv
  BY DEF Init, FreshInv, WritersStarted, OwnFirst, AllOwn, Holds, AboutToSucceed, NoRows, Types

LEMMA FreshKeeps ==
  TypeInv /\ TakenOnce /\ SoloInv /\ ProgressInv /\ FreshInv /\ [Next]_vars => (OwnFirst /\ AllOwn)'
<1> SUFFICES ASSUME TypeInv, TakenOnce, SoloInv, ProgressInv, FreshInv, [Next]_vars, clashes' = 0
             PROVE  /\ \A e \in Executions : AboutToSucceed(e)' => field'[cur'[e]][type'[e]] = e
                    /\ \A l \in Listings, t \in Types \ {"property"}, row \in Executions :
                         Holds(l, t, row)' => field'[l][t] = writer'[l][t][row]
  BY DEF OwnFirst, AllOwn
<1>1. CASE UNCHANGED vars
  BY <1>1 DEF FreshInv, OwnFirst, AllOwn, AboutToSucceed, Holds, vars, userVars, tableVars, scopeVars, cursorVars
<1>2. CASE UserStep
  <2>1. clashes = 0
    BY <1>2, UserSolo
  <2> QED
    BY <1>2, <2>1, StoredUnderUser, HoldsUnderUser DEF FreshInv, OwnFirst, AllOwn
<1>3. ASSUME NEW e \in Executions, ExecutionStep(e)
      PROVE  /\ \A f \in Executions : AboutToSucceed(f)' => field'[cur'[f]][type'[f]] = f
             /\ \A l \in Listings, t \in Types \ {"property"}, row \in Executions :
                  Holds(l, t, row)' => field'[l][t] = writer'[l][t][row]
  <2>1. clashes = 0 /\ \A f \in Executions : f # e => step'[f] = "idle"
    BY <1>3, Solo DEF SoloInv
  <2>2. ASSUME NEW f \in Executions, AboutToSucceed(f)' PROVE field'[cur'[f]][type'[f]] = f
    <3>1. f = e
      BY <2>1, <2>2 DEF AboutToSucceed
    <3> QED
      BY <1>3, <2>2, <3>1, StoredUnderStep
  <2>3. ASSUME NEW l \in Listings, NEW t \in Types \ {"property"}, NEW row \in Executions, Holds(l, t, row)'
        PROVE  field'[l][t] = writer'[l][t][row]
    <3>1. CASE Holds(l, t, row) /\ writer'[l][t][row] = writer[l][t][row]
      <4>1. CASE Stores(e) /\ l = cur[e] /\ t = type[e]
        <5>1. Underway(e, l, t) /\ l \in listings
          BY <4>1, <2>3 DEF Stores, Underway, OnListing, InHand
        <5> QED
          BY <2>1, <3>1, <5>1 DEF ProgressInv, UnderwayUnsettled, Unsettled, Holds
      <4>2. CASE ~(Stores(e) /\ l = cur[e] /\ t = type[e])
        <5>1. field'[l][t] = field[l][t]
          BY <1>3, <4>2, TableFrame, StoreSet DEF Untouched, MarksRow, Settled
        <5> QED
          BY <2>1, <3>1, <5>1 DEF FreshInv, AllOwn
      <4> QED
        BY <4>1, <4>2
    <3>2. CASE AboutToSucceed(e) /\ l = cur[e] /\ t = type[e] /\ writer'[l][t][row] = e /\ UNCHANGED field
      BY <2>1, <3>2 DEF FreshInv, OwnFirst
    <3> QED
      BY <1>3, <2>3, <3>1, <3>2, HoldsUnderStep DEF FreshInv
  <2> QED
    BY <2>2, <2>3
<1> QED
  BY <1>1, <1>2, <1>3 DEF Next

\* As long as executions do not clash, the evidence behind a run that reads
\* SUCCEEDED is what the execution that said so computed: a run is marked
\* RUNNING again before its evidence is replaced, and each status follows the
\* evidence of the same execution (enrichment_pipeline.py).
THEOREM SuccessIsOfItsWriter == Spec => []SuccessIsFresh
<1>1. Init => TypeInv /\ TakenOnce /\ SoloInv /\ ProgressInv /\ FreshInv
  BY InitTyped, InitTaken, InitSolo, InitProgress, InitFresh
<1>2. TypeInv /\ TakenOnce /\ SoloInv /\ ProgressInv /\ FreshInv /\ [Next]_vars =>
        (TypeInv /\ TakenOnce /\ SoloInv /\ ProgressInv /\ FreshInv)'
  BY TypeKeeps, TakenOnceKeeps, AloneKeeps, TargetsKeep, OneRowKeeps, ApartKeeps, ProgressKeeps, WritersKeep, FreshKeeps
     DEF SoloInv, ProgressInv, FreshInv
<1>3. TypeInv /\ FreshInv => SuccessIsFresh
  <2> SUFFICES ASSUME TypeInv, FreshInv, clashes = 0, NEW r \in Succeeded
               PROVE  field[r[1]][r[2]] = writer[r[1]][r[2]][r[3]]
    BY DEF SuccessIsFresh
  <2>1. r[1] \in Listings /\ r[2] \in Types \ {"property"} /\ r[3] \in Executions
    BY TypeParts DEF Succeeded, SessionTyped
  <2> QED
    BY <2>1 DEF Succeeded, FreshInv, AllOwn, Holds
<1> QED
  BY <1>1, <1>2, <1>3, PTL DEF Spec
=============================================================================
