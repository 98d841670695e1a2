----------------------------- MODULE SmartPaste -----------------------------
(***************************************************************************)
(* services/smart_paste and POST .../smart-paste: a request turns pasted   *)
(* text, or the page behind a listing URL, into a stored listing input and *)
(* suggested values.  A page that plain HTTP cannot read is rendered by a  *)
(* browser, of which the process runs a bounded number; the language model *)
(* answers while the request's rows are flushed but not committed.         *)
(***************************************************************************)
EXTENDS Naturals, Sequences, FiniteSets

CONSTANTS
  Pasters,         \* requests
  MaxBrowsers,     \* playwright_max_concurrency
  BrowserEnabled,  \* enable_playwright_fallback
  MaxRedirects,    \* redirects followed per page
  Extractions,     \* what the model may find: field -> sequence of candidates
  SubtypeTable,    \* listing subtype -> [flat_type, flat_model]
  NoValue          \* None

ASSUME PasteAssumption ==
  /\ IsFiniteSet(Pasters) /\ MaxBrowsers \in Nat
  /\ \A found \in Extractions : \A f \in DOMAIN found :
       /\ Len(found[f]) \in Nat /\ DOMAIN found[f] = 1..Len(found[f])
       /\ \A i \in DOMAIN found[f] : found[f][i].confidence \in Nat

VARIABLES
  paste,        \* per request: where it is
  browserSlots, \* _playwright_slots: the permits left
  attemptRows,  \* extraction_attempts, committed
  inputRows     \* listing_inputs, committed: request -> candidates

pasteVars == <<paste, browserSlots, attemptRows, inputRows>>

\* Codes of _HEADLESS_FALLBACK_CODES, and those that end the request.
Retried == {"LISTING_PAGE_UNAVAILABLE", "LISTING_PAGE_TIMEOUT"}
PageErrors == Retried \cup {"LISTING_PAGE_TOO_LARGE", "INVALID_LISTING_URL"}
ModelErrors == {"rate_limit", "configuration", "authentication", "timeout",
                "temporarily_unavailable", "invalid_output", "empty_response", "provider_error"}
InputErrors == {"SESSION_NOT_FOUND", "EMPTY", "TOO_LONG", "TOO_SHORT"}

PasteInit ==
  /\ paste = [p \in Pasters |-> [at |-> "new"]]
  /\ browserSlots = MaxBrowsers
  /\ attemptRows = {}
  /\ inputRows = [p \in {} |-> NoValue]

\* One request moves on; Answer ends it (an exception rolls its rows back).
Become(p, state) == paste' = [paste EXCEPT ![p] = state]
Answer(p, code) == Become(p, [at |-> "answered", code |-> code])

\* The attempt committed before the model is called.
FlushCommitted(p) ==
  /\ attemptRows' = attemptRows \cup {p}
  /\ Become(p, [at |-> "extracting", tries |-> 0])
  /\ UNCHANGED <<browserSlots, inputRows>>

\* db.add(extraction); db.flush(): visible to its own transaction only.
Flush(p) ==
  /\ Become(p, [at |-> "extracting", tries |-> 0])
  /\ UNCHANGED <<browserSlots, attemptRows, inputRows>>

NoRowChange == UNCHANGED <<attemptRows, inputRows>>

PasteText(p) ==
  /\ paste[p].at = "new"
  /\ \/ \E code \in InputErrors : Answer(p, code) /\ NoRowChange /\ UNCHANGED browserSlots
     \/ Flush(p)

PasteUrl(p) ==
  /\ paste[p].at = "new"
  /\ \/ Become(p, [at |-> "fetching", hops |-> 0])
     \/ Answer(p, "INVALID_LISTING_URL")
  /\ NoRowChange /\ UNCHANGED browserSlots

\* _fetch_via_http: the next page is validated like the first.
FollowRedirect(p) ==
  /\ paste[p].at = "fetching" /\ paste[p].hops < MaxRedirects
  /\ Become(p, [at |-> "fetching", hops |-> paste[p].hops + 1])
  /\ NoRowChange /\ UNCHANGED browserSlots

\* retrieve_listing_content: a page that looks blocked or slow is rendered.
FetchFails(p) ==
  /\ paste[p].at = "fetching"
  /\ \E code \in PageErrors :
       IF code \in Retried /\ BrowserEnabled
       THEN Become(p, [at |-> "queueing", fetch |-> code])
       ELSE Answer(p, code)
  /\ NoRowChange /\ UNCHANGED browserSlots

\* prepare_paste_text may leave too little of a page that was read.
UsePage(p) ==
  \/ Answer(p, "TOO_SHORT") /\ NoRowChange /\ UNCHANGED browserSlots
  \/ Flush(p)

FetchSucceeds(p) == paste[p].at = "fetching" /\ UsePage(p)

TakeBrowser(p) ==
  /\ paste[p].at = "queueing" /\ browserSlots > 0
  /\ browserSlots' = browserSlots - 1
  /\ Become(p, [at |-> "rendering", fetch |-> paste[p].fetch])
  /\ NoRowChange

\* LISTING_BROWSER_BUSY is replaced by the error of the plain fetch.
BrowserBusy(p) ==
  /\ paste[p].at = "queueing" /\ browserSlots = 0
  /\ Answer(p, paste[p].fetch)
  /\ NoRowChange /\ UNCHANGED browserSlots

\* The permit returned after the page was used, not in a finally.
RenderingKeepsSlot(p) ==
  /\ paste[p].at = "rendering"
  /\ \/ Answer(p, paste[p].fetch) /\ UNCHANGED browserSlots
     \/ /\ Become(p, [at |-> "rendered", fetch |-> paste[p].fetch])
        /\ browserSlots' = browserSlots + 1
  /\ NoRowChange

\* The browser is closed and the permit released whatever happened in it.
Rendering(p) ==
  /\ paste[p].at = "rendering"
  /\ \/ Answer(p, paste[p].fetch)
     \/ Become(p, [at |-> "rendered", fetch |-> paste[p].fetch])
  /\ browserSlots' = browserSlots + 1
  /\ NoRowChange

\* The checks on the rendered page come after the release.
UseRendered(p) ==
  /\ paste[p].at = "rendered"
  /\ \/ Answer(p, paste[p].fetch) /\ NoRowChange /\ UNCHANGED browserSlots
     \/ UsePage(p)

\* LiveGroqAdapter.extract: one more try, after a schema error only.
ModelRetries(p) ==
  /\ paste[p].at = "extracting" /\ paste[p].tries = 0
  /\ Become(p, [at |-> "extracting", tries |-> 1])
  /\ NoRowChange /\ UNCHANGED browserSlots

ModelFails(p) ==
  /\ paste[p].at = "extracting"
  /\ \E code \in ModelErrors : Answer(p, code)
  /\ NoRowChange /\ UNCHANGED browserSlots

\* validate_extraction_candidates: what no price or floor area can be is
\* dropped, and a field without candidates with it.  The others keep their
\* positions.
Implausible ==
  {<<"asking_price", "not_positive">>, <<"asking_price", "not_a_number">>,
   <<"floor_area_sqm", "not_a_number">>}

Plausible(found, f) == {i \in DOMAIN found[f] : <<f, found[f][i].value>> \notin Implausible}

Valid(found) ==
  [f \in {g \in DOMAIN found : Plausible(found, g) # {}} |->
     [i \in Plausible(found, f) |-> found[f][i]]]

\* reconcile_candidates: the first of the most confident, available before not.
Accepted(candidates) == {i \in DOMAIN candidates : candidates[i].status # "uncertain"}
Strength(c) == <<c.confidence, IF c.status = "available" THEN 1 ELSE 0>>
Stronger(c, d) ==
  \/ Strength(c)[1] > Strength(d)[1]
  \/ Strength(c)[1] = Strength(d)[1] /\ Strength(c)[2] > Strength(d)[2]
Primary(candidates) ==
  candidates[CHOOSE i \in Accepted(candidates) :
    \A j \in Accepted(candidates) :
      ~Stronger(candidates[j], candidates[i])
      /\ (j < i => Stronger(candidates[i], candidates[j]))].value

Reconciled(rows) ==
  [f \in {g \in DOMAIN rows : Accepted(rows[g]) # {}} |-> Primary(rows[f])]

\* The handler fills what the subtype implies and was not found.
Derived(values) ==
  IF "subtype" \notin DOMAIN values THEN [f \in {} |-> NoValue]
  ELSE LET implied == SubtypeTable[values["subtype"]]
       IN [f \in {g \in DOMAIN implied : implied[g] # NoValue /\ g \notin DOMAIN values} |->
             implied[f]]

Suggested(rows) ==
  LET values == Reconciled(rows)
      more == Derived(values)
  IN [f \in DOMAIN values \cup DOMAIN more |-> IF f \in DOMAIN values THEN values[f] ELSE more[f]]

\* The attempt and the input are committed together.
StoreListingInput(p) ==
  /\ paste[p].at = "extracting"
  /\ \E found \in Extractions :
       inputRows' = [q \in DOMAIN inputRows \cup {p} |->
                       IF q = p THEN Valid(found) ELSE inputRows[q]]
  /\ attemptRows' = attemptRows \cup {p}
  /\ Become(p, [at |-> "stored"])
  /\ UNCHANGED browserSlots

\* The handler looks for values to suggest after the commit, and answers 422
\* with the rows kept when it has none.
Suggest(p) ==
  /\ paste[p].at = "stored"
  /\ IF Reconciled(inputRows[p]) = <<>> THEN Answer(p, "EXTRACTION_EMPTY")
     ELSE Become(p, [at |-> "answered", code |-> "ok", suggested |-> Suggested(inputRows[p])])
  /\ NoRowChange /\ UNCHANGED browserSlots

\* A new process: permits are back, requests in flight get no answer.
PasteServerRestarts ==
  /\ \E p \in Pasters : paste[p].at \notin {"new", "answered"}
  /\ paste' = [p \in Pasters |->
                 IF paste[p].at \in {"new", "answered"} THEN paste[p]
                 ELSE [at |-> "answered", code |-> "LOST"]]
  /\ browserSlots' = MaxBrowsers
  /\ NoRowChange

PasteNext ==
  \/ \E p \in Pasters :
       \/ PasteText(p) \/ PasteUrl(p)
       \/ FollowRedirect(p) \/ FetchFails(p) \/ FetchSucceeds(p)
       \/ TakeBrowser(p) \/ BrowserBusy(p) \/ Rendering(p) \/ UseRendered(p)
       \/ ModelRetries(p) \/ ModelFails(p) \/ StoreListingInput(p) \/ Suggest(p)
  \/ PasteServerRestarts

PasteSpec == PasteInit /\ [][PasteNext]_pasteVars

-----------------------------------------------------------------------------

\* The permits of the browser pool and the pages being rendered always add up
\* to the size of the pool: no failure of a page, of the browser or of the
\* checks after it costs the process a browser, and none is counted twice.
BrowsersAddUp ==
  browserSlots + Cardinality({p \in Pasters : paste[p].at = "rendering"}) = MaxBrowsers

\* The stages of a request, the permits, and the rows that exist.
PasteTypeOK ==
  /\ \A p \in Pasters : paste[p].at \in
       {"new", "fetching", "queueing", "rendering", "rendered", "extracting", "stored", "answered"}
  /\ browserSlots \in 0..MaxBrowsers /\ BrowsersAddUp
  /\ attemptRows \subseteq Pasters /\ DOMAIN inputRows \subseteq Pasters

\* What a request was told is what the database holds, whenever it failed and
\* whoever else was served: suggestions come with a stored attempt and input
\* whose best accepted candidates they are (or what the subtype implies, where
\* no candidate was accepted); a failed request left nothing, except that a
\* listing without a usable field is stored and refused.
AnswersMatchTheRows ==
  \A p \in Pasters :
    /\ p \in attemptRows <=> p \in DOMAIN inputRows
    /\ paste[p].at # "answered" => (p \in attemptRows <=> paste[p].at = "stored")
    /\ paste[p].at = "answered" /\ paste[p].code # "LOST" =>
         (p \in attemptRows <=> paste[p].code \in {"ok", "EXTRACTION_EMPTY"})
    /\ paste[p].at = "answered" /\ paste[p].code = "ok" =>
         \A f \in DOMAIN paste[p].suggested :
           LET value == paste[p].suggested[f]
               rows == inputRows[p]
               backing == IF f \in DOMAIN rows THEN Accepted(rows[f]) ELSE {}
           IN IF backing = {} THEN value = SubtypeTable[paste[p].suggested["subtype"]][f]
              ELSE \E i \in backing : /\ rows[f][i].value = value
                                      /\ \A j \in backing : ~Stronger(rows[f][j], rows[f][i])

=============================================================================
