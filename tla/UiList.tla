------------------------------- MODULE UiList -------------------------------
(***************************************************************************)
(* The list of deleted entries and the bulk flow of an admin, in one       *)
(* component session: filters, the selection, pages, the bulk review and   *)
(* its results.                                                            *)
(*                                                                         *)
(* Requests are fenced as in UiSession: `current` holds the requests in    *)
(* flight that carry the newest navigation version and generation.  The    *)
(* screens of one entry are the one screen "detail" here.  The server      *)
(* answers a review with any status per entry and a list with any rows of  *)
(* the page asked for; which answer it was is chosen when the component    *)
(* takes it, since nothing looks at it before.  All filters but "Show      *)
(* dismissed" are one value, and a token refresh inside a call is left     *)
(* out; see UiSession.                                                     *)
(***************************************************************************)
EXTENDS Naturals, FiniteSets

CONSTANTS
  Entries,    \* deleted time entries
  Filters,    \* what the filter panel can hold
  Cleared,    \* the panel with nothing set
  PageOf,     \* the page each entry is on
  LastPage,   \* the page whose nextCursor is null
  Requests,   \* slots for requests in flight
  None

ASSUME ClearedAssumption == Cleared \in Filters
ASSUME EntriesAssumption == IsFiniteSet(Entries)
ASSUME PageAssumption == LastPage \in Nat \ {0} /\ PageOf \in [Entries -> 1 .. LastPage]
ASSUME NoneAssumption == None \notin Requests

VARIABLES
  (* UiSessionState *)
  filters,   \* session.list: the panel, Show dismissed, Bulk mode
  selected,  \* session.selectedEntryIds
  rows,      \* session.bulkReviewRows: the status of each entry of the last review
  (* the mounted screen *)
  screen,
  listed,    \* the list: its actionable rows, how many pages, and whether it is read-only
  busy,      \* buttons with a progress label
  alert,     \* an error with its action is shown
  refreshing, \* the review waits for new rows
  label,     \* the count on the review's button
  bound,     \* the count on it when the review was rendered
  results,   \* the entries a results screen has a row for
  back,      \* returnTo of the detail screen
  (* requests *)
  net, current,
  (* history *)
  sent,      \* the entries of the newest bulk recreation
  reviewed   \* the rows of the review were answered since it was entered

sessionVars == <<filters, selected, rows>>
screenVars  == <<screen, listed, busy, alert, refreshing, label, bound, results, back>>
netVars     == <<net, current>>
historyVars == <<sent, reviewed>>
vars == <<sessionVars, screenVars, netVars, historyVars>>

Screens  == {"loading", "loadError", "list", "detail", "review", "results", "expired"}
Status   == {"absent", "ready", "other", "not-found"}
Buttons  == {"more", "prepare", "recreate"}
Ops      == {"list", "more", "prepare", "refresh", "recreate"}
Outcomes == {"ok", "error", "lost"}
Panel    == [panel : Filters, dismissed : BOOLEAN, bulk : BOOLEAN]
Listed   == [rows : SUBSET Entries, page : 1 .. LastPage, readOnly : BOOLEAN]
Request  == [op : Ops, ids : SUBSET Entries]

ASSUME NoRecordAssumption == None \notin Listed \cup Request

Free == {r \in Requests : net[r] = None}

NoRows == [e \in Entries |-> "absent"]

-----------------------------------------------------------------------------
(* An operator whose comment starts with "Wrong:" is a plausible bug; put  *)
(* in the place of the operator after it, it must make a property fail.    *)

\* isSelectedReady
SelectedReady == {e \in selected : rows[e] = "ready"}

\* A request that begins a generation.
BeginRequest(r, op, ids) ==
  /\ net' = [net EXCEPT ![r] = [op |-> op, ids |-> ids]]
  /\ current' = {r}

\* The answer of r is used up.
Settle(r) ==
  /\ net' = [net EXCEPT ![r] = None]
  /\ current' = current \ {r}

IsCurrentView(r) == r \in current

\* mountView, but for what the review and the results show.
Mount(where) ==
  /\ screen' = where
  /\ busy' = {}
  /\ alert' = (where = "loadError")
  /\ refreshing' = FALSE

\* load: the list is fetched from its first page.
Load(r) ==
  /\ Mount("loading")
  /\ listed' = None /\ label' = 0 /\ bound' = 0 /\ results' = {} /\ back' = None
  /\ BeginRequest(r, "list", {})

\* syncRecreateButton, after a checkbox has changed.
SyncRecreateButton(ready) == label' = Cardinality(ready)

\* renderBulkReview with rows that are final, or still to be refreshed.
ShowReview(newRows, waits) ==
  /\ screen' = "review"
  /\ rows' = newRows
  /\ busy' = {}
  /\ refreshing' = waits
  /\ label' = Cardinality({e \in selected : newRows[e] = "ready"})
  /\ bound' = label'
  /\ listed' = None /\ results' = {} /\ back' = None

\* loadBulkReview: the old rows stay on the screen while the new ones are fetched.
LoadBulkReview(r) ==
  /\ ShowReview(rows, TRUE)
  /\ alert' = FALSE
  /\ BeginRequest(r, "refresh", selected)

\* renderLoaded: a list without row controls has no selection.
SelectionAfterLoad(readOnly) == IF readOnly THEN {} ELSE selected

\* clearSelection
ClearSelection == selected' = {}

-----------------------------------------------------------------------------
(* The list.                                                               *)

\* Wrong: "Review selected" leaves the other controls enabled.
OnListAnytime == screen = "list"

OnList == screen = "list" /\ "prepare" \notin busy

ShowDismissed(r) ==
  /\ OnList
  /\ filters' = [filters EXCEPT !.dismissed = ~@]
  /\ ClearSelection
  /\ Load(r)
  /\ UNCHANGED <<rows, historyVars>>

\* Apply filters: the selection is cleared only by a change.
ApplyFilters(f, r) ==
  /\ OnList
  /\ filters' = [filters EXCEPT !.panel = f]
  /\ IF f # filters.panel THEN ClearSelection ELSE UNCHANGED selected
  /\ Load(r)
  /\ UNCHANGED <<rows, historyVars>>

\* Clear filters: nothing is fetched when nothing was applied.
ClearFilters(r) ==
  /\ OnList
  /\ filters.panel # Cleared
  /\ filters' = [filters EXCEPT !.panel = Cleared]
  /\ ClearSelection
  /\ Load(r)
  /\ UNCHANGED <<rows, historyVars>>

BulkMode(r) ==
  /\ OnList
  /\ filters' = [filters EXCEPT !.bulk = ~@]
  /\ IF filters.bulk THEN selected' = {} ELSE UNCHANGED selected
  /\ Load(r)
  /\ UNCHANGED <<rows, historyVars>>

\* The checkbox of a row.
SelectRow(e) ==
  /\ OnList
  /\ filters.bulk /\ ~listed.readOnly /\ e \in listed.rows
  /\ selected' = IF e \in selected THEN selected \ {e} ELSE selected \cup {e}
  /\ UNCHANGED <<filters, rows, screenVars, netVars, historyVars>>

OpenDetail(returnTo) ==
  /\ Mount("detail")
  /\ listed' = None /\ label' = 0 /\ bound' = 0 /\ results' = {}
  /\ back' = returnTo
  /\ current' = {}
  /\ UNCHANGED <<net, sessionVars, historyVars>>

OpenRow == OnList /\ OpenDetail("list")

LoadMore(r) ==
  /\ OnList
  /\ "more" \notin busy
  /\ listed.page < LastPage
  /\ busy' = busy \cup {"more"}
  /\ BeginRequest(r, "more", {})
  /\ UNCHANGED <<sessionVars, screen, listed, alert, refreshing, label, bound, results, back,
                 historyVars>>

\* "Review selected": every control of the list is disabled until the answer.
ReviewSelected(r) ==
  /\ OnList
  /\ filters.bulk
  /\ selected # {}
  /\ busy' = busy \cup {"prepare"}
  /\ BeginRequest(r, "prepare", selected)
  /\ UNCHANGED <<sessionVars, screen, listed, alert, refreshing, label, bound, results, back,
                 historyVars>>

\* The action of an error, "Reload list" or "Reload review"; a read-only list has the first too.
FollowAlert(r) ==
  /\ alert \/ (screen = "list" /\ listed.readOnly)
  /\ "prepare" \notin busy
  /\ \/ screen \in {"loadError", "list"} /\ Load(r) /\ UNCHANGED sessionVars
     \/ screen = "review" /\ LoadBulkReview(r) /\ UNCHANGED <<filters, selected>>
  /\ UNCHANGED historyVars

-----------------------------------------------------------------------------
(* One entry, the review and the results.                                  *)

\* The ways back from the screens of one entry, after an Undismiss or not.  Some of them lead to
\* the list wherever the entry was opened.
BackFromDetail(undismissed, r) ==
  /\ screen = "detail"
  /\ filters' = IF undismissed THEN [filters EXCEPT !.dismissed = FALSE] ELSE filters
  /\ \/ Load(r) /\ UNCHANGED <<rows, reviewed>>
     \/ back = "bulk-review" /\ LoadBulkReview(r) /\ reviewed' = FALSE
  /\ UNCHANGED <<selected, sent>>

\* Wrong: the checkboxes stay enabled while the recreation runs.
OnReviewAnytime == screen = "review" /\ ~refreshing

\* The checkboxes and the button of the review are enabled.
OnReview == screen = "review" /\ "recreate" \notin busy /\ ~refreshing

SelectReviewed(e) ==
  /\ OnReview
  /\ rows[e] = "ready"
  /\ selected' = IF e \in selected THEN selected \ {e} ELSE selected \cup {e}
  /\ SyncRecreateButton({f \in selected' : rows[f] = "ready"})
  /\ UNCHANGED <<filters, rows, screen, listed, busy, alert, refreshing, bound, results, back,
                 netVars, historyVars>>

\* "Open" is there for rows that are not ready, and nothing disables it.
OpenReviewed(e) ==
  /\ screen = "review"
  /\ rows[e] = "other"
  /\ OpenDetail("bulk-review")

BackFromReview(r) ==
  /\ screen = "review"
  /\ "recreate" \notin busy
  /\ Load(r)
  /\ UNCHANGED <<sessionVars, historyVars>>

\* "Recreate N entries"
BulkRecreate(r) ==
  /\ OnReview
  /\ SelectedReady # {}
  /\ busy' = busy \cup {"recreate"}
  /\ BeginRequest(r, "recreate", SelectedReady)
  /\ sent' = SelectedReady
  /\ SyncRecreateButton(SelectedReady)
  /\ UNCHANGED <<sessionVars, screen, listed, alert, refreshing, bound, results, back, reviewed>>

OpenResult == screen = "results" /\ OpenDetail("list")

BackFromResults(r) ==
  /\ screen = "results"
  /\ Load(r)
  /\ UNCHANGED <<sessionVars, historyVars>>

-----------------------------------------------------------------------------
(* Answers.                                                                *)

\* The answer of r, or that there is none, reaches the screen that waits for it.
Answered(r, op) ==
  /\ net[r] # None
  /\ net[r].op = op
  /\ IsCurrentView(r)

DropLate(r) ==
  /\ net[r] # None
  /\ ~IsCurrentView(r)
  /\ Settle(r)
  /\ UNCHANGED <<sessionVars, screenVars, historyVars>>

\* SessionExpiredError
ShowExpired(r) ==
  /\ net[r] # None
  /\ IsCurrentView(r)
  /\ Mount("expired")
  /\ listed' = None /\ label' = 0 /\ bound' = 0 /\ results' = {} /\ back' = None
  /\ net' = [net EXCEPT ![r] = None]
  /\ current' = {}
  /\ UNCHANGED <<sessionVars, historyVars>>

\* renderLoaded
ListLoaded(r, answer) ==
  /\ Answered(r, "list")
  /\ Settle(r)
  /\ label' = 0 /\ bound' = 0 /\ results' = {} /\ back' = None
  /\ IF answer # "ok"
     THEN Mount("loadError") /\ UNCHANGED <<selected, listed>>
     ELSE \E shown \in SUBSET {e \in Entries : PageOf[e] = 1}, readOnly \in BOOLEAN :
            /\ Mount("list")
            /\ listed' = [rows |-> shown, page |-> 1, readOnly |-> readOnly]
            /\ selected' = SelectionAfterLoad(readOnly)
  /\ UNCHANGED <<filters, rows, historyVars>>

\* A success takes the button away with the last page, and leaves it as it is with any other one.
MoreLoaded(r, answer) ==
  /\ Answered(r, "more")
  /\ Settle(r)
  /\ IF answer # "ok"
     THEN /\ busy' = busy \ {"more"}
          /\ alert' = TRUE
          /\ UNCHANGED listed
     ELSE /\ \E shown \in SUBSET {e \in Entries : PageOf[e] = listed.page + 1} :
               listed' = [listed EXCEPT !.rows = @ \cup shown, !.page = @ + 1]
          /\ busy' = IF listed.page + 1 = LastPage THEN busy \ {"more"} ELSE busy
          /\ UNCHANGED alert
  /\ UNCHANGED <<sessionVars, screen, refreshing, label, bound, results, back, historyVars>>

\* The rows of a bulk-preflight answer, for the entries asked about.
ReviewRows(ids) ==
  {new \in [Entries -> Status] : \A e \in Entries : (new[e] = "absent") = (e \notin ids)}

\* The answer to "Review selected".
ReviewPrepared(r, answer) ==
  /\ Answered(r, "prepare")
  /\ \/ /\ answer = "ok"
        /\ \E new \in ReviewRows(net[r].ids) : ShowReview(new, FALSE)
        /\ alert' = FALSE
        /\ net' = [net EXCEPT ![r] = None]
        /\ current' = {}
        /\ reviewed' = TRUE
     \/ /\ answer # "ok"
        /\ busy' = busy \ {"prepare"}
        /\ alert' = TRUE
        /\ Settle(r)
        /\ UNCHANGED <<rows, screen, listed, refreshing, label, bound, results, back, reviewed>>
  /\ UNCHANGED <<filters, selected, sent>>

\* The answer loadBulkReview waits for.  After an error the old rows can be acted on again.
ReviewRefreshed(r, answer) ==
  /\ Answered(r, "refresh")
  /\ Settle(r)
  /\ \/ /\ answer = "ok"
        /\ \E new \in ReviewRows(net[r].ids) : ShowReview(new, FALSE)
        /\ alert' = FALSE
        /\ reviewed' = TRUE
     \/ /\ answer # "ok"
        /\ ShowReview(rows, FALSE)
        /\ alert' = TRUE
        /\ UNCHANGED reviewed
  /\ UNCHANGED <<filters, selected, sent>>

\* The rows of the results: the server's, or the entries whose outcome is unknown.
Results(answer, ids) == IF answer = "ok" THEN ids ELSE SelectedReady

\* bindBusyAction puts back the label its button had when it was bound.
BulkEnds(r, answer) ==
  /\ Answered(r, "recreate")
  /\ IF answer = "error"
     THEN /\ busy' = busy \ {"recreate"}
          /\ label' = bound
          /\ alert' = TRUE
          /\ Settle(r)
          /\ UNCHANGED <<screen, listed, refreshing, bound, results, back>>
     ELSE /\ Mount("results")
          /\ results' = Results(answer, net[r].ids)
          /\ listed' = None /\ label' = 0 /\ bound' = 0 /\ back' = None
          /\ net' = [net EXCEPT ![r] = None]
          /\ current' = {}
  /\ UNCHANGED <<sessionVars, historyVars>>

User(r) ==
  \/ ShowDismissed(r) \/ ClearFilters(r) \/ BulkMode(r) \/ LoadMore(r) \/ ReviewSelected(r)
  \/ \E f \in Filters : ApplyFilters(f, r)
  \/ \E undismissed \in BOOLEAN : BackFromDetail(undismissed, r)
  \/ FollowAlert(r) \/ BackFromReview(r) \/ BulkRecreate(r) \/ BackFromResults(r)

Deliver(r) ==
  \/ DropLate(r) \/ ShowExpired(r)
  \/ \E answer \in Outcomes :
       \/ ListLoaded(r, answer) \/ MoreLoaded(r, answer) \/ ReviewPrepared(r, answer)
       \/ ReviewRefreshed(r, answer) \/ BulkEnds(r, answer)

\* createUiSessionState, and the first navigate of boot.
Init ==
  /\ filters = [panel |-> Cleared, dismissed |-> FALSE, bulk |-> FALSE]
  /\ selected = {} /\ rows = NoRows
  /\ screen = "loading" /\ listed = None /\ busy = {} /\ alert = FALSE /\ refreshing = FALSE
  /\ label = 0 /\ bound = 0 /\ results = {} /\ back = None
  /\ \E r \in Requests :
       /\ net = [q \in Requests |->
                   IF q = r THEN [op |-> "list", ids |-> {}] ELSE None]
       /\ current = {r}
  /\ sent = {} /\ reviewed = FALSE

Next ==
  \/ \E r \in Free : User(r)
  \/ \E r \in Requests : Deliver(r)
  \/ \E e \in Entries : SelectRow(e) \/ SelectReviewed(e) \/ OpenReviewed(e)
  \/ OpenRow \/ OpenResult

Spec == Init /\ [][Next]_vars

-----------------------------------------------------------------------------
(* What the list and the bulk flow promise.                                *)

\* Types; only requests in flight are current.
TypeOK ==
  /\ filters \in Panel
  /\ selected \subseteq Entries
  /\ rows \in [Entries -> Status]
  /\ screen \in Screens
  /\ listed \in Listed \cup {None} /\ (screen = "list" <=> listed # None)
  /\ busy \subseteq Buttons
  /\ alert \in BOOLEAN /\ refreshing \in BOOLEAN /\ reviewed \in BOOLEAN
  /\ label \in 0 .. Cardinality(Entries) /\ bound \in 0 .. Cardinality(Entries)
  /\ results \subseteq Entries /\ sent \subseteq Entries
  /\ back \in {"list", "bulk-review", None}
  /\ net \in [Requests -> Request \cup {None}]
  /\ current \subseteq Requests \ Free

\* Whatever the screen waits for, its answer will be accepted: the list's placeholder, "Preparing
\* review...", "Refreshing review..." and "Recreating entries..." (isCurrentView).
WaitIsAwaited ==
  LET Awaited(op) == \E r \in current : net[r].op = op
  IN  /\ screen = "loading" => Awaited("list")
      /\ "prepare" \in busy => Awaited("prepare")
      /\ refreshing => Awaited("refresh")
      /\ "recreate" \in busy => Awaited("recreate")

\* The results have a row for each entry that was sent to be recreated, no other, also when no
\* answer came and the rows are made in the browser (unknownOutcomes).
ResultsCoverSent == screen = "results" => results = sent

\* bulk.ts: "The label and the action have to agree", at any time.
LabelAgrees == screen = "review" /\ "recreate" \notin busy => label = Cardinality(SelectedReady)

\* docs/10, section 2: coming back from an entry runs the bulk preflight again before the review
\* enables a recreation.
RecreatesReviewed == "recreate" \in busy => reviewed

\* docs/10, section 1: every matching row can be reached.  A list with more rows has a button that
\* loads them, or is loading them.
MoreRowsReachable ==
  screen = "list" /\ listed.page < LastPage /\ current = {} => "more" \notin busy
=============================================================================
