----------------------------- MODULE UiListProofs -----------------------------
(***************************************************************************)
(* Proofs about UiList.  As in UiSessionProofs, a mounted screen is whole  *)
(* whatever was there before (LoadStep, DetailStep, PlainStep, ReviewStep);*)
(* the rest is about what a click or an answer leaves on its screen.       *)
(***************************************************************************)
EXTENDS UiListInvariant, FiniteSetTheorems, TLAPS

\* A count of entries is a number no greater than the number of entries.
LEMMA CountOfEntries ==
  ASSUME NEW S, S \subseteq Entries
  PROVE  Cardinality(S) \in 0 .. Cardinality(Entries)
<1>1. IsFiniteSet(S) /\ Cardinality(S) <= Cardinality(Entries)
  BY EntriesAssumption, FS_Subset
<1>2. Cardinality(S) \in Nat /\ Cardinality(Entries) \in Nat
  BY <1>1, EntriesAssumption, FS_CardinalityType
<1> QED
  BY <1>1, <1>2

\* What a request slot holds after a request was sent from it, or its answer was used up.
LEMMA SlotFilled ==
  ASSUME TypeOK, NEW r \in Requests, NEW op \in Ops, NEW ids \in SUBSET Entries,
         BeginRequest(r, op, ids)
  PROVE  /\ net' \in [Requests -> Request \cup {None}]
         /\ net'[r].op = op /\ net'[r].ids = ids
         /\ current' = {r} /\ current' \subseteq Requests \ Free'
         /\ \A s \in Requests \ {r} : net'[s] = net[s]
<1> DEFINE q == [op |-> op, ids |-> ids]
<1>1. q \in Request /\ q # None
  BY NoRecordAssumption DEF Request
<1>2. net' = [net EXCEPT ![r] = q] /\ current' = {r}
  BY DEF BeginRequest
<1>3. q.op = op /\ q.ids = ids
  OBVIOUS
<1> HIDE DEF q
<1> QED
  BY <1>1, <1>2, <1>3 DEF TypeOK, Free

\* Taking a request off the network frees its slot and leaves the others.
LEMMA SlotCleared ==
  ASSUME TypeOK, NEW r \in Requests, net' = [net EXCEPT ![r] = None]
  PROVE  /\ net' \in [Requests -> Request \cup {None}]
         /\ net'[r] = None
         /\ \A s \in Requests \ {r} : net'[s] = net[s]
  BY DEF TypeOK

-----------------------------------------------------------------------------
(* Mounting a screen. *)

\* A list that loads.
LEMMA LoadStep ==
  ASSUME ListInv, NEW r \in Requests, Load(r),
         filters' \in Panel, selected' \subseteq Entries, rows' \in [Entries -> Status],
         sent' \subseteq Entries, reviewed' \in BOOLEAN
  PROVE  ListInv'
<1>1. /\ screen' = "loading" /\ busy' = {} /\ alert' = FALSE /\ refreshing' = FALSE
      /\ listed' = None /\ label' = 0 /\ bound' = 0 /\ results' = {} /\ back' = None
      /\ BeginRequest(r, "list", {})
  BY DEF Load, Mount
<1>2. /\ net' \in [Requests -> Request \cup {None}]
      /\ net'[r].op = "list" /\ current' = {r} /\ current' \subseteq Requests \ Free'
  BY <1>1, SlotFilled DEF ListInv, Ops
<1>3. 0 \in 0 .. Cardinality(Entries)
  BY CountOfEntries, EntriesAssumption, FS_CardinalityType
<1>4. TypeOK'
  BY <1>1, <1>2, <1>3 DEF TypeOK, Screens
<1>5. WaitsOnScreen' /\ WaitIsAwaited' /\ ResultsCoverSent'
  BY <1>1, <1>2 DEF WaitsOnScreen, WaitIsAwaited, ResultsCoverSent
<1>6. CurrentServesScreen'
  BY <1>1, <1>2 DEF CurrentServesScreen
<1> QED
  BY <1>4, <1>5, <1>6 DEF ListInv

\* A screen that waits for nothing.
LEMMA PlainStep ==
  ASSUME ListInv, NEW where \in {"loadError", "detail", "results", "expired"}, Mount(where),
         listed' = None, label' = 0, bound' = 0,
         current' = {}, net' \in [Requests -> Request \cup {None}],
         back' \in {"list", "bulk-review", None},
         results' \subseteq Entries, where = "results" => results' = sent,
         UNCHANGED <<sessionVars, historyVars>>
  PROVE  ListInv'
<1>1. /\ screen' = where /\ busy' = {} /\ alert' \in BOOLEAN /\ refreshing' = FALSE
  BY DEF Mount
<1>2. 0 \in 0 .. Cardinality(Entries)
  BY CountOfEntries, EntriesAssumption, FS_CardinalityType
<1>3. TypeOK'
  BY <1>1, <1>2 DEF ListInv, TypeOK, Screens, sessionVars, historyVars
<1>4. WaitsOnScreen' /\ WaitIsAwaited' /\ ResultsCoverSent' /\ CurrentServesScreen'
  BY <1>1 DEF WaitsOnScreen, WaitIsAwaited, ResultsCoverSent, CurrentServesScreen, historyVars
<1> QED
  BY <1>3, <1>4 DEF ListInv

\* A review, with rows that are final or still to be refreshed.
LEMMA ReviewStep ==
  ASSUME ListInv, NEW newRows \in [Entries -> Status], NEW waits \in BOOLEAN,
         ShowReview(newRows, waits),
         alert' \in BOOLEAN, reviewed' \in BOOLEAN, filters' \in Panel, selected' = selected,
         sent' = sent,
         net' \in [Requests -> Request \cup {None}],
         current' \subseteq Requests \ Free',
         \A q, r \in current' : q = r,
         \A r \in current' : net'[r].op = "refresh",
         (current' # {}) = waits
  PROVE  ListInv'
<1>1. /\ screen' = "review" /\ rows' = newRows /\ busy' = {} /\ refreshing' = waits
      /\ label' = Cardinality({e \in selected : newRows[e] = "ready"}) /\ bound' = label'
      /\ listed' = None /\ results' = {} /\ back' = None
  BY DEF ShowReview
<1>2. label' \in 0 .. Cardinality(Entries)
  BY <1>1, CountOfEntries DEF ListInv, TypeOK
<1>3. TypeOK'
  BY <1>1, <1>2 DEF ListInv, TypeOK, Screens
<1>4. WaitsOnScreen' /\ WaitIsAwaited' /\ ResultsCoverSent'
  BY <1>1 DEF WaitsOnScreen, WaitIsAwaited, ResultsCoverSent
<1>5. CurrentServesScreen'
  BY <1>1 DEF CurrentServesScreen
<1> QED
  BY <1>3, <1>4, <1>5 DEF ListInv

\* The review that waits for new rows.
LEMMA LoadReviewStep ==
  ASSUME ListInv, NEW r \in Requests, LoadBulkReview(r),
         filters' \in Panel, selected' = selected, sent' = sent, reviewed' \in BOOLEAN
  PROVE  ListInv'
<1>1. ShowReview(rows, TRUE) /\ alert' = FALSE /\ BeginRequest(r, "refresh", selected)
  BY DEF LoadBulkReview
<1>2. rows \in [Entries -> Status] /\ selected \in SUBSET Entries /\ TypeOK
  BY DEF ListInv, TypeOK
<1>3. /\ net' \in [Requests -> Request \cup {None}]
      /\ net'[r].op = "refresh" /\ current' = {r} /\ current' \subseteq Requests \ Free'
  BY <1>1, <1>2, SlotFilled DEF Ops
<1> QED
  BY <1>1, <1>2, <1>3, ReviewStep

-----------------------------------------------------------------------------
(* What happens within a screen. *)

\* A checkbox of the list.
LEMMA SelectRowStep ==
  ASSUME ListInv, NEW e \in Entries, SelectRow(e)
  PROVE  ListInv'
<1>1. /\ screen = "list" /\ selected' \subseteq Entries
      /\ UNCHANGED <<filters, rows, screenVars, netVars, historyVars>>
  BY DEF SelectRow, OnList, ListInv, TypeOK
<1> USE DEF screenVars, netVars, historyVars
<1>2. TypeOK'
  BY <1>1 DEF ListInv, TypeOK, Free
<1>3. WaitsOnScreen' /\ WaitIsAwaited' /\ ResultsCoverSent'
  BY <1>1 DEF ListInv, WaitsOnScreen, WaitIsAwaited, ResultsCoverSent
<1>4. CurrentServesScreen'
  BY <1>1 DEF ListInv, WaitsOnScreen, CurrentServesScreen
<1> QED
  BY <1>2, <1>3, <1>4 DEF ListInv

\* A button of the list that keeps it on the screen.
LEMMA ListButtonStep ==
  ASSUME ListInv, NEW r \in Free, LoadMore(r) \/ ReviewSelected(r)
  PROVE  ListInv'
<1>1. PICK op \in {"more", "prepare"} :
        /\ BeginRequest(r, op, IF op = "prepare" THEN selected ELSE {})
        /\ busy' = busy \cup {op}
        /\ op = "more" => listed.page < LastPage
  BY DEF LoadMore, ReviewSelected
<1>2. /\ screen = "list" /\ "prepare" \notin busy
      /\ UNCHANGED <<sessionVars, screen, listed, alert, refreshing, label, bound, results, back,
                     historyVars>>
  BY DEF LoadMore, ReviewSelected, OnList
<1>3. r \in Requests /\ TypeOK /\ (IF op = "prepare" THEN selected ELSE {}) \in SUBSET Entries
  BY DEF Free, ListInv, TypeOK
<1>4. /\ net' \in [Requests -> Request \cup {None}]
      /\ net'[r].op = op /\ current' = {r} /\ current' \subseteq Requests \ Free'
  BY <1>1, <1>3, SlotFilled DEF Ops
<1> USE DEF sessionVars, historyVars
<1>5. TypeOK'
  BY <1>1, <1>2, <1>4 DEF ListInv, TypeOK, Buttons
<1>6. WaitsOnScreen' /\ WaitIsAwaited' /\ ResultsCoverSent'
  BY <1>1, <1>2, <1>4 DEF ListInv, WaitsOnScreen, WaitIsAwaited, ResultsCoverSent
<1>7. CurrentServesScreen'
  BY <1>1, <1>2, <1>4 DEF ListInv, CurrentServesScreen
<1> QED
  BY <1>5, <1>6, <1>7 DEF ListInv

\* A checkbox of the review: never while a recreation runs.
LEMMA SelectReviewedStep ==
  ASSUME ListInv, NEW e \in Entries, SelectReviewed(e)
  PROVE  ListInv'
<1>1. /\ screen = "review" /\ "recreate" \notin busy /\ ~refreshing
      /\ selected' \subseteq Entries
      /\ label' = Cardinality({f \in selected' : rows[f] = "ready"})
      /\ UNCHANGED <<filters, rows, screen, listed, busy, alert, refreshing, bound, results, back,
                     netVars, historyVars>>
  BY DEF SelectReviewed, OnReview, SyncRecreateButton, ListInv, TypeOK
<1>2. label' \in 0 .. Cardinality(Entries)
  BY <1>1, CountOfEntries
<1> USE DEF netVars, historyVars
<1>3. TypeOK'
  BY <1>1, <1>2 DEF ListInv, TypeOK, Free
<1>4. WaitsOnScreen' /\ WaitIsAwaited' /\ ResultsCoverSent'
  BY <1>1 DEF ListInv, WaitsOnScreen, WaitIsAwaited, ResultsCoverSent
<1>5. CurrentServesScreen'
  BY <1>1 DEF ListInv, CurrentServesScreen
<1> QED
  BY <1>3, <1>4, <1>5 DEF ListInv

\* "Recreate N entries": what is sent is what is selected and ready.
LEMMA BulkRecreateStep ==
  ASSUME ListInv, NEW r \in Free, BulkRecreate(r)
  PROVE  ListInv'
<1>1. /\ screen = "review" /\ ~refreshing
      /\ busy' = busy \cup {"recreate"} /\ BeginRequest(r, "recreate", SelectedReady)
      /\ sent' = SelectedReady /\ label' = Cardinality(SelectedReady)
      /\ UNCHANGED <<sessionVars, screen, listed, alert, refreshing, bound, results, back,
                     reviewed>>
  BY DEF BulkRecreate, OnReview, SyncRecreateButton
<1>2. r \in Requests /\ TypeOK /\ SelectedReady \in SUBSET Entries
  BY DEF Free, ListInv, TypeOK, SelectedReady
<1>3. label' \in 0 .. Cardinality(Entries)
  BY <1>1, <1>2, CountOfEntries
<1>4. /\ net' \in [Requests -> Request \cup {None}]
      /\ net'[r].op = "recreate" /\ net'[r].ids = SelectedReady
      /\ current' = {r} /\ current' \subseteq Requests \ Free'
  BY <1>1, <1>2, SlotFilled DEF Ops
<1>5. SelectedReady' = SelectedReady
  BY <1>1 DEF SelectedReady, sessionVars
<1>6. TypeOK'
  BY <1>1, <1>2, <1>3, <1>4 DEF ListInv, TypeOK, Buttons, sessionVars
<1>7. WaitsOnScreen' /\ WaitIsAwaited' /\ ResultsCoverSent'
  BY <1>1, <1>4 DEF ListInv, WaitsOnScreen, WaitIsAwaited, ResultsCoverSent
<1>8. CurrentServesScreen'
  BY <1>1, <1>4, <1>5 DEF ListInv, CurrentServesScreen
<1> QED
  BY <1>6, <1>7, <1>8 DEF ListInv

-----------------------------------------------------------------------------
(* Answers. *)

\* An answer of a request that is no longer current is dropped: nothing on the screen changes.
LEMMA DropStep ==
  ASSUME ListInv, NEW r \in Requests, DropLate(r)
  PROVE  ListInv'
<1>1. /\ r \notin current /\ net' = [net EXCEPT ![r] = None] /\ current' = current
      /\ UNCHANGED <<sessionVars, screenVars, historyVars>>
  BY DEF DropLate, IsCurrentView, Settle
<1>2. /\ net' \in [Requests -> Request \cup {None}]
      /\ net'[r] = None
      /\ \A s \in Requests \ {r} : net'[s] = net[s]
  BY <1>1, SlotCleared DEF ListInv
<1>3. current' \subseteq Requests \ Free' /\ \A s \in current : net'[s] = net[s]
  BY <1>1, <1>2 DEF ListInv, TypeOK, Free
<1>4. SelectedReady' = SelectedReady
  BY <1>1 DEF SelectedReady, sessionVars
<1> USE DEF sessionVars, screenVars, historyVars
<1>5. TypeOK'
  BY <1>1, <1>2, <1>3 DEF ListInv, TypeOK
<1>6. WaitsOnScreen' /\ WaitIsAwaited' /\ ResultsCoverSent'
  BY <1>1, <1>3 DEF ListInv, WaitsOnScreen, WaitIsAwaited, ResultsCoverSent
<1>7. CurrentServesScreen'
  BY <1>1, <1>3, <1>4 DEF ListInv, CurrentServesScreen
<1> QED
  BY <1>5, <1>6, <1>7 DEF ListInv

\* A session that has expired.
LEMMA ExpiredStep ==
  ASSUME ListInv, NEW r \in Requests, ShowExpired(r)
  PROVE  ListInv'
<1>1. net' \in [Requests -> Request \cup {None}]
  BY SlotCleared DEF ShowExpired, ListInv
<1> QED
  BY <1>1, PlainStep DEF ShowExpired

\* Only one request can be answered, and then none is current.
LEMMA AnsweredOne ==
  ASSUME ListInv, NEW r \in Requests, NEW op \in Ops, Answered(r, op)
  PROVE  r \in current /\ current = {r} /\ net[r].op = op /\ net[r] \in Request /\ TypeOK
  BY DEF Answered, IsCurrentView, ListInv, TypeOK, CurrentServesScreen

\* The list arrives, or an error.
LEMMA ListLoadedStep ==
  ASSUME ListInv, NEW r \in Requests, NEW answer \in Outcomes, ListLoaded(r, answer)
  PROVE  ListInv'
<1>1. current = {r} /\ TypeOK
  BY AnsweredOne DEF ListLoaded, Ops
<1>2. /\ net' = [net EXCEPT ![r] = None] /\ current' = {}
      /\ label' = 0 /\ bound' = 0 /\ results' = {} /\ back' = None
      /\ UNCHANGED <<filters, rows, historyVars>>
  BY <1>1 DEF ListLoaded, Settle
<1>3. net' \in [Requests -> Request \cup {None}]
  BY <1>1, <1>2, SlotCleared
<1>4. CASE answer # "ok"
  <2>1. Mount("loadError") /\ UNCHANGED <<selected, listed>>
    BY <1>4 DEF ListLoaded
  <2>2. listed = None
    BY <1>1 DEF ListLoaded, Answered, IsCurrentView, ListInv, CurrentServesScreen, TypeOK
  <2> QED
    BY <1>2, <1>3, <2>1, <2>2, PlainStep DEF sessionVars
<1>5. CASE answer = "ok"
  <2>1. PICK shown \in SUBSET Entries, readOnly \in BOOLEAN :
          /\ Mount("list")
          /\ listed' = [rows |-> shown, page |-> 1, readOnly |-> readOnly]
          /\ selected' = SelectionAfterLoad(readOnly)
    BY <1>5 DEF ListLoaded
  <2>2. screen' = "list" /\ busy' = {} /\ alert' = FALSE /\ refreshing' = FALSE
    BY <2>1 DEF Mount
  <2>3. listed' \in Listed /\ listed' # None
    BY <2>1, PageAssumption, NoRecordAssumption DEF Listed
  <2>4. selected' \subseteq Entries
    BY <1>1, <2>1 DEF SelectionAfterLoad, TypeOK
  <2>5. 0 \in 0 .. Cardinality(Entries)
    BY CountOfEntries, EntriesAssumption, FS_CardinalityType
  <2>6. TypeOK'
    BY <1>1, <1>2, <1>3, <2>2, <2>3, <2>4, <2>5 DEF TypeOK, Screens, historyVars
  <2>7. WaitsOnScreen' /\ WaitIsAwaited' /\ ResultsCoverSent' /\ CurrentServesScreen'
    BY <1>2, <2>2 DEF WaitsOnScreen, WaitIsAwaited, ResultsCoverSent, CurrentServesScreen
  <2> QED
    BY <2>6, <2>7 DEF ListInv
<1> QED
  BY <1>4, <1>5

\* A further page arrives, or an error.
LEMMA MoreLoadedStep ==
  ASSUME ListInv, NEW r \in Requests, NEW answer \in Outcomes, MoreLoaded(r, answer)
  PROVE  ListInv'
<1>1. r \in current /\ current = {r} /\ net[r].op = "more" /\ TypeOK
  BY AnsweredOne DEF MoreLoaded, Ops
<1>2. screen = "list" /\ listed \in Listed /\ listed.page < LastPage
  BY <1>1 DEF ListInv, CurrentServesScreen, TypeOK
<1>3. /\ net' = [net EXCEPT ![r] = None] /\ current' = {}
      /\ busy' \in {busy, busy \ {"more"}} /\ alert' \in {alert, TRUE}
      /\ UNCHANGED <<sessionVars, screen, refreshing, label, bound, results, back, historyVars>>
  BY <1>1 DEF MoreLoaded, Settle
<1>4. net' \in [Requests -> Request \cup {None}]
  BY <1>1, <1>3, SlotCleared
<1>5. listed' \in Listed
  <2>1. CASE answer # "ok"
    BY <1>2, <2>1 DEF MoreLoaded
  <2>2. CASE answer = "ok"
    <3>1. PICK shown \in SUBSET Entries :
            listed' = [listed EXCEPT !.rows = @ \cup shown, !.page = @ + 1]
      BY <2>2 DEF MoreLoaded
    <3>2. listed.page + 1 \in 1 .. LastPage
      BY <1>2, PageAssumption DEF Listed
    <3> QED
      BY <1>2, <3>1, <3>2 DEF Listed
  <2> QED
    BY <2>1, <2>2
<1> USE DEF sessionVars, historyVars
<1>6. TypeOK'
  BY <1>1, <1>2, <1>3, <1>4, <1>5, NoRecordAssumption DEF TypeOK
<1>7. WaitsOnScreen' /\ WaitIsAwaited' /\ ResultsCoverSent' /\ CurrentServesScreen'
  BY <1>1, <1>2, <1>3 DEF ListInv, WaitsOnScreen, WaitIsAwaited, ResultsCoverSent,
                          CurrentServesScreen
<1> QED
  BY <1>6, <1>7 DEF ListInv

\* The rows of an answer are a status for each entry.
LEMMA ReviewRowsTyped ==
  ASSUME NEW ids, NEW new \in ReviewRows(ids)
  PROVE  new \in [Entries -> Status]
  BY DEF ReviewRows

\* "Review selected" is answered.
LEMMA ReviewPreparedStep ==
  ASSUME ListInv, NEW r \in Requests, NEW answer \in Outcomes, ReviewPrepared(r, answer)
  PROVE  ListInv'
<1>1. r \in current /\ current = {r} /\ net[r].op = "prepare" /\ TypeOK
  BY AnsweredOne DEF ReviewPrepared, Ops
<1>2. /\ net' = [net EXCEPT ![r] = None] /\ current' = {}
      /\ UNCHANGED <<filters, selected, sent>>
  BY <1>1 DEF ReviewPrepared, Settle
<1>3. net' \in [Requests -> Request \cup {None}]
  BY <1>1, <1>2, SlotCleared
<1>4. CASE answer = "ok"
  <2>1. PICK new \in [Entries -> Status] : ShowReview(new, FALSE)
    BY <1>4, ReviewRowsTyped DEF ReviewPrepared
  <2>2. alert' = FALSE /\ reviewed' = TRUE /\ filters' \in Panel
    BY <1>1, <1>2, <1>4 DEF ReviewPrepared, TypeOK
  <2> QED
    BY <1>2, <1>3, <2>1, <2>2, ReviewStep
<1>5. CASE answer # "ok"
  <2>1. /\ busy' = busy \ {"prepare"} /\ alert' = TRUE
        /\ UNCHANGED <<rows, screen, listed, refreshing, label, bound, results, back, reviewed>>
    BY <1>5 DEF ReviewPrepared
  <2>2. TypeOK'
    BY <1>1, <1>2, <1>3, <2>1 DEF TypeOK
  <2>3. WaitsOnScreen' /\ WaitIsAwaited' /\ ResultsCoverSent' /\ CurrentServesScreen'
    BY <1>1, <1>2, <2>1 DEF ListInv, WaitsOnScreen, WaitIsAwaited, ResultsCoverSent,
                            CurrentServesScreen
  <2> QED
    BY <2>2, <2>3 DEF ListInv
<1> QED
  BY <1>4, <1>5

\* The rows of a review arrive, or an error that leaves the old ones.
LEMMA ReviewRefreshedStep ==
  ASSUME ListInv, NEW r \in Requests, NEW answer \in Outcomes, ReviewRefreshed(r, answer)
  PROVE  ListInv'
<1>1. r \in current /\ current = {r} /\ TypeOK
  BY AnsweredOne DEF ReviewRefreshed, Ops
<1>2. /\ net' = [net EXCEPT ![r] = None] /\ current' = {}
      /\ UNCHANGED <<filters, selected, sent>>
  BY <1>1 DEF ReviewRefreshed, Settle
<1>3. net' \in [Requests -> Request \cup {None}]
  BY <1>1, <1>2, SlotCleared
<1>4. PICK new \in [Entries -> Status] : ShowReview(new, FALSE)
  BY <1>1, ReviewRowsTyped DEF ReviewRefreshed, TypeOK
<1>5. alert' \in BOOLEAN /\ reviewed' \in BOOLEAN /\ filters' \in Panel
  BY <1>1, <1>2 DEF ReviewRefreshed, TypeOK
<1> QED
  BY <1>2, <1>3, <1>4, <1>5, ReviewStep

\* A bulk recreation is answered, refused, or lost.
LEMMA BulkEndsStep ==
  ASSUME ListInv, NEW r \in Requests, NEW answer \in Outcomes, BulkEnds(r, answer)
  PROVE  ListInv'
<1>1. /\ r \in current /\ current = {r} /\ net[r].op = "recreate" /\ net[r] \in Request
      /\ TypeOK /\ net[r].ids = sent /\ SelectedReady = sent /\ screen = "review"
      /\ "recreate" \in busy
  BY AnsweredOne DEF BulkEnds, Ops, ListInv, CurrentServesScreen, WaitsOnScreen
<1>2. /\ net' = [net EXCEPT ![r] = None] /\ current' = {}
      /\ UNCHANGED <<sessionVars, historyVars>>
  BY <1>1 DEF BulkEnds, Settle
<1>3. net' \in [Requests -> Request \cup {None}]
  BY <1>1, <1>2, SlotCleared
<1>4. CASE answer = "error"
  <2>1. /\ busy' = busy \ {"recreate"} /\ label' = bound /\ alert' = TRUE
        /\ UNCHANGED <<screen, listed, refreshing, bound, results, back>>
    BY <1>4 DEF BulkEnds
  <2> USE DEF sessionVars, historyVars
  <2>2. TypeOK'
    BY <1>1, <1>2, <1>3, <2>1 DEF TypeOK
  <2>3. WaitsOnScreen' /\ WaitIsAwaited' /\ ResultsCoverSent' /\ CurrentServesScreen'
    BY <1>1, <1>2, <2>1 DEF ListInv, WaitsOnScreen, WaitIsAwaited, ResultsCoverSent,
                            CurrentServesScreen
  <2> QED
    BY <2>2, <2>3 DEF ListInv
<1>5. CASE answer # "error"
  <2>1. /\ Mount("results") /\ results' = Results(answer, net[r].ids)
        /\ listed' = None /\ label' = 0 /\ bound' = 0 /\ back' = None
    BY <1>5 DEF BulkEnds
  <2>2. results' = sent /\ sent' = sent /\ results' \subseteq Entries
    BY <1>1, <1>2, <2>1 DEF Results, historyVars, TypeOK
  <2> QED
    BY <1>2, <1>3, <2>1, <2>2, PlainStep
<1> QED
  BY <1>4, <1>5

-----------------------------------------------------------------------------
(* The theorems. *)

\* A detail screen is opened from the list, the review or the results.
LEMMA OpenStep ==
  ASSUME ListInv, NEW returnTo \in {"list", "bulk-review"}, OpenDetail(returnTo)
  PROVE  ListInv'
<1>1. net' \in [Requests -> Request \cup {None}] /\ results' = {}
  BY DEF OpenDetail, ListInv, TypeOK
<1> QED
  BY <1>1, PlainStep DEF OpenDetail

\* The clicks that load something.
LEMMA UserStep ==
  ASSUME ListInv, NEW r \in Free, User(r)
  PROVE  ListInv'
<1>1. /\ r \in Requests /\ filters \in Panel /\ selected \subseteq Entries
      /\ rows \in [Entries -> Status] /\ sent \subseteq Entries /\ reviewed \in BOOLEAN
  BY DEF Free, ListInv, TypeOK
<1>2. CASE ShowDismissed(r) \/ ClearFilters(r) \/ BulkMode(r)
  <2>1. filters' \in Panel
    BY <1>1, <1>2, ClearedAssumption DEF ShowDismissed, ClearFilters, BulkMode, Panel
  <2> QED
    BY <1>1, <1>2, <2>1, LoadStep
       DEF ShowDismissed, ClearFilters, BulkMode, ClearSelection, historyVars
<1>3. ASSUME NEW f \in Filters, ApplyFilters(f, r) PROVE ListInv'
  <2>1. filters' \in Panel
    BY <1>1, <1>3 DEF ApplyFilters, Panel
  <2>2. selected' \subseteq Entries
    BY <1>1, <1>3 DEF ApplyFilters, ClearSelection
  <2> QED
    BY <1>1, <1>3, <2>1, <2>2, LoadStep DEF ApplyFilters, historyVars
<1>4. ASSUME NEW undismissed \in BOOLEAN, BackFromDetail(undismissed, r) PROVE ListInv'
  <2>1. filters' \in Panel
    BY <1>1, <1>4 DEF BackFromDetail, Panel
  <2> QED
    BY <1>1, <1>4, <2>1, LoadStep, LoadReviewStep DEF BackFromDetail
<1>5. CASE FollowAlert(r)
  BY <1>1, <1>5, LoadStep, LoadReviewStep DEF FollowAlert, sessionVars, historyVars
<1>6. CASE BackFromReview(r) \/ BackFromResults(r)
  BY <1>1, <1>6, LoadStep DEF BackFromReview, BackFromResults, sessionVars, historyVars
<1> QED
  BY <1>2, <1>3, <1>4, <1>5, <1>6, ListButtonStep, BulkRecreateStep DEF User

\* The list is being loaded by the one current request when the component starts.
LEMMA InitInv == Init => ListInv
<1> SUFFICES ASSUME Init PROVE ListInv
  OBVIOUS
<1>1. PICK r \in Requests :
        /\ net = [q \in Requests |-> IF q = r THEN [op |-> "list", ids |-> {}] ELSE None]
        /\ current = {r}
  BY DEF Init
<1> DEFINE q == [op |-> "list", ids |-> {}]
<1>2. q \in Request /\ q # None /\ q.op = "list"
  BY NoRecordAssumption DEF Request, Ops
<1>3. net[r] = q
  BY <1>1
<1>4. net \in [Requests -> Request \cup {None}]
  BY <1>1, <1>2
<1> HIDE DEF q
<1>5. 0 \in 0 .. Cardinality(Entries)
  BY CountOfEntries, EntriesAssumption, FS_CardinalityType
<1>6. filters \in Panel /\ rows \in [Entries -> Status] /\ screen \in Screens
  BY ClearedAssumption DEF Init, Panel, NoRows, Status, Screens
<1>7. current \subseteq Requests \ Free
  BY <1>1, <1>2, <1>3 DEF Free
<1>8. TypeOK
  BY <1>4, <1>5, <1>6, <1>7 DEF Init, TypeOK
<1>9. WaitsOnScreen /\ WaitIsAwaited /\ ResultsCoverSent /\ CurrentServesScreen
  BY <1>1, <1>2, <1>3 DEF Init, WaitsOnScreen, WaitIsAwaited, ResultsCoverSent,
                          CurrentServesScreen
<1> QED
  BY <1>8, <1>9 DEF ListInv

\* The inductive invariant holds in every state.
THEOREM Invariance == Spec => []ListInv
<1>1. ListInv /\ [Next]_vars => ListInv'
  <2> SUFFICES ASSUME ListInv, [Next]_vars PROVE ListInv'
    OBVIOUS
  <2>1. ASSUME NEW r \in Requests, Deliver(r) PROVE ListInv'
    BY <2>1, DropStep, ExpiredStep, ListLoadedStep, MoreLoadedStep, ReviewPreparedStep,
       ReviewRefreshedStep, BulkEndsStep DEF Deliver
  <2>2. ASSUME NEW e \in Entries, OpenReviewed(e) PROVE ListInv'
    BY <2>2, OpenStep DEF OpenReviewed
  <2>3. CASE OpenRow \/ OpenResult
    BY <2>3, OpenStep DEF OpenRow, OpenResult
  <2>4. CASE UNCHANGED vars
    BY <2>4 DEF vars, sessionVars, screenVars, netVars, historyVars, ListInv, TypeOK, WaitsOnScreen,
                CurrentServesScreen, WaitIsAwaited, ResultsCoverSent, SelectedReady, Free
  <2> QED
    BY <2>1, <2>2, <2>3, <2>4, UserStep, SelectRowStep, SelectReviewedStep DEF Next
<1> QED
  BY InitInv, <1>1, PTL DEF Spec

\* Every variable of the list and the bulk flow always has its type.
THEOREM TypeCorrect == Spec => []TypeOK
<1>1. ListInv => TypeOK
  BY DEF ListInv
<1> QED
  BY Invariance, <1>1, PTL

\* The list's placeholder, "Preparing review...", "Refreshing review..." and "Recreating
\* entries..." wait for an answer that isCurrentView will accept.
THEOREM WaitsEndInAnswer == Spec => []WaitIsAwaited
<1>1. ListInv => WaitIsAwaited
  BY DEF ListInv
<1> QED
  BY Invariance, <1>1, PTL

\* The results account for exactly the entries that were sent, also when the rows are made in the
\* browser because no answer came.
THEOREM ResultsAreComplete == Spec => []ResultsCoverSent
<1>1. ListInv => ResultsCoverSent
  BY DEF ListInv
<1> QED
  BY Invariance, <1>1, PTL
=============================================================================
