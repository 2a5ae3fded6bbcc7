---------------------------- MODULE ServerProofs ----------------------------
(***************************************************************************)
(* Proofs about Server for every number of entries, batches and plans:     *)
(* what a batch reports is what happened, and no entry gets two copies.    *)
(***************************************************************************)
EXTENDS ServerInvariant, TLAPS

\* What a step may do to an attempt behind its handler's back: an open one becomes unknown.
Mild(b) ==
  \A e \in Entries : \/ outcome'[b][e] = outcome[b][e]
                     \/ outcome[b][e] = "open" /\ outcome'[b][e] = "AMBIGUOUS"

\* A step that is not of this request.
Same(b) ==
  /\ stage'[b] = stage[b] /\ row'[b] = row[b] /\ todo'[b] = todo[b]
  /\ seen'[b] = seen[b] /\ rows'[b] = rows[b]

\* The part of the invariant that speaks of the store and of Clockify.
StoreAgrees == ClaimsAgree /\ AttemptsAgree /\ UnsettledAgree

-----------------------------------------------------------------------------
(* The other requests. *)

\* A request that the step is not of keeps its agreements.
LEMMA OthersKept ==
  ASSUME TypeOK, NEW b \in Batches, HandlerAgrees(b), \A e \in Entries : RowAgrees(b, e),
         Mild(b), Same(b)
  PROVE  HandlerAgrees(b)' /\ \A e \in Entries : RowAgrees(b, e)'
<1>1. HandlerAgrees(b)'
  <2>1. todo[b] \subseteq Entries
    BY DEF TypeOK, StoreTyped, RequestsTyped
  <2>2. \A e \in Entries : outcome[b][e] # "open" => outcome'[b][e] = outcome[b][e]
    BY DEF Mild
  <2>3. \A e \in Entries :
          outcome[b][e] \in {"open", "AMBIGUOUS"} => outcome'[b][e] \in {"open", "AMBIGUOUS"}
    BY DEF Mild
  <2> QED
    BY <2>1, <2>2, <2>3 DEF HandlerAgrees, Same
<1>2. \A e \in Entries : RowAgrees(b, e)'
  BY DEF RowAgrees, Mild, Same
<1> QED
  BY <1>1, <1>2

\* So a step of one request is settled by what it does to the store and to that request.
LEMMA OneRequest ==
  ASSUME IInv, TypeOK', StoreAgrees', NEW b \in Batches,
         \A c \in Batches \ {b} : Mild(c) /\ Same(c),
         HandlerAgrees(b)', \A e \in Entries : RowAgrees(b, e)'
  PROVE  IInv'
<1>1. ASSUME NEW c \in Batches PROVE HandlerAgrees(c)' /\ \A e \in Entries : RowAgrees(c, e)'
  <2>1. CASE c = b
    BY <2>1
  <2>2. CASE c # b
    BY <2>2, OthersKept DEF IInv, HandlersAgree, RowsAgree
  <2> QED
    BY <2>1, <2>2
<1> QED
  BY <1>1 DEF IInv, StoreAgrees, HandlersAgree, RowsAgree

\* A step of no request is settled by what it does to the store.
LEMMA NoRequest ==
  ASSUME IInv, TypeOK', StoreAgrees', \A c \in Batches : Mild(c) /\ Same(c)
  PROVE  IInv'
<1>1. ASSUME NEW c \in Batches PROVE HandlerAgrees(c)' /\ \A e \in Entries : RowAgrees(c, e)'
  BY OthersKept DEF IInv, HandlersAgree, RowsAgree
<1> QED
  BY <1>1 DEF IInv, StoreAgrees, HandlersAgree, RowsAgree

\* The store's agreements do not look at plans and leases.
LEMMA StoreKept ==
  ASSUME IInv, UNCHANGED <<life, claim, outcome, newEntry, wire>>
  PROVE  StoreAgrees'
<1>1. ClaimsAgree' /\ AttemptsAgree' /\ UnsettledAgree'
  BY DEF IInv, ClaimsAgree, AttemptsAgree, UnsettledAgree, Unsettled
<1> QED
  BY <1>1 DEF StoreAgrees

\* Recovering an expired attempt makes it unknown, and its entry with it.
LEMMA RecoverKept ==
  ASSUME IInv, NEW e \in Entries, HasExpiredAttempt(e), RecoverAttempt(e),
         UNCHANGED <<newEntry, wire>>
  PROVE  /\ StoreAgrees'
         /\ \A c \in Batches : Mild(c)
         /\ UNCHANGED <<active, plans, ready>> => StoreTyped'
<1>1. PICK b \in Batches : b = claim[e]
  BY DEF IInv, ClaimsAgree, HasExpiredAttempt
<1>2. outcome[b][e] = "open"
  BY <1>1 DEF IInv, ClaimsAgree, HasExpiredAttempt
<1>3. /\ life'    = [life EXCEPT ![e] = "AMBIGUOUS"]
      /\ claim'   = [claim EXCEPT ![e] = None]
      /\ expired' = [expired EXCEPT ![e] = FALSE]
      /\ outcome' = [outcome EXCEPT ![b][e] = "AMBIGUOUS"]
  BY <1>1 DEF RecoverAttempt, LeaveClaim
<1>4. \A c \in Batches, f \in Entries :
        outcome'[c][f] = IF c = b /\ f = e THEN "AMBIGUOUS" ELSE outcome[c][f]
  BY <1>3 DEF IInv, TypeOK, StoreTyped, RequestsTyped
<1>5. \A f \in Entries : /\ life'[f] = IF f = e THEN "AMBIGUOUS" ELSE life[f]
                         /\ claim'[f] = IF f = e THEN None ELSE claim[f]
  BY <1>3 DEF IInv, TypeOK, StoreTyped, RequestsTyped
<1>6. ClaimsAgree'
  BY <1>4, <1>5, NoneAssumption DEF IInv, ClaimsAgree
<1>7. AttemptsAgree'
  BY <1>2, <1>4, <1>5 DEF IInv, AttemptsAgree, ClaimsAgree, HasExpiredAttempt
<1>8. UnsettledAgree'
  BY <1>1, <1>2, <1>4, <1>5 DEF IInv, UnsettledAgree, Unsettled
<1>9. \A c \in Batches : Mild(c)
  BY <1>2, <1>4 DEF Mild
<1>10. UNCHANGED <<active, plans, ready>> => StoreTyped'
  BY <1>3 DEF IInv, TypeOK, StoreTyped
<1> QED
  BY <1>6, <1>7, <1>8, <1>9, <1>10 DEF StoreAgrees

\* An entry with neither an unsettled attempt nor a started claim may be claimed or given back.
LEMMA FreeKept ==
  ASSUME IInv, NEW e \in Entries, NEW state \in Actionable \cup {"RECREATING"},
         NEW holder \in Batches \cup {None},
         state = "RECREATING" <=> holder \in Batches,
         holder \in Batches => outcome[holder][e] \in {"unstarted", "open"},
         \A b \in Batches : outcome[b][e] \notin Unsettled,
         life' = [life EXCEPT ![e] = state], claim' = [claim EXCEPT ![e] = holder],
         UNCHANGED <<outcome, newEntry, wire>>
  PROVE  StoreAgrees'
<1>1. \A f \in Entries : /\ life'[f] = IF f = e THEN state ELSE life[f]
                         /\ claim'[f] = IF f = e THEN holder ELSE claim[f]
  BY DEF IInv, TypeOK, StoreTyped, RequestsTyped
<1>2. ClaimsAgree'
  BY <1>1, NoneAssumption DEF IInv, ClaimsAgree, Actionable
<1>3. AttemptsAgree'
  BY <1>1 DEF IInv, AttemptsAgree, Unsettled
<1>4. UnsettledAgree'
  BY <1>1 DEF IInv, UnsettledAgree, Unsettled
<1> QED
  BY <1>2, <1>3, <1>4 DEF StoreAgrees

\* Such entries are the ones the claim predicate admits, and the ones whose claim sent nothing.
LEMMA FreeIfClaimable ==
  ASSUME IInv, NEW e \in Entries,
         \/ life[e] \in Actionable
         \/ life[e] = "RECREATING" /\ claim[e] \in Batches /\ outcome[claim[e]][e] = "unstarted"
  PROVE  \A b \in Batches : outcome[b][e] \notin Unsettled
BY DEF IInv, ClaimsAgree, AttemptsAgree, UnsettledAgree, Unsettled, Actionable

\* Committing the outcome of the attempt that holds its claim.
LEMMA CommitKept ==
  ASSUME IInv, NEW b \in Batches, NEW e \in Entries,
         NEW state \in {"RECREATED", "FAILED", "AMBIGUOUS"},
         NEW result \in {"SUCCESS", "FAILED", "AMBIGUOUS"},
         outcome[b][e] = "open", claim[e] = b, LeaveClaim(e, state),
         outcome' = [outcome EXCEPT ![b][e] = result],
         \/ /\ state = "RECREATED" /\ result = "SUCCESS" /\ wire[b][e] = "applied"
            /\ newEntry' = [newEntry EXCEPT ![e] = b]
         \/ /\ state = "FAILED" /\ result = "FAILED" /\ wire[b][e] = "rejected"
            /\ UNCHANGED newEntry
         \/ state = "AMBIGUOUS" /\ result = "AMBIGUOUS" /\ UNCHANGED newEntry,
         UNCHANGED wire
  PROVE  /\ StoreAgrees'
         /\ \A c \in Batches \ {b} : Mild(c)
         /\ \A f \in Entries : outcome'[b][f] = IF f = e THEN result ELSE outcome[b][f]
<1>1. \A c \in Batches, f \in Entries :
        outcome'[c][f] = IF c = b /\ f = e THEN result ELSE outcome[c][f]
  BY DEF IInv, TypeOK, StoreTyped, RequestsTyped
<1>2. \A f \in Entries : /\ life'[f] = IF f = e THEN state ELSE life[f]
                         /\ claim'[f] = IF f = e THEN None ELSE claim[f]
  BY DEF IInv, TypeOK, StoreTyped, RequestsTyped, LeaveClaim
<1>3. \A f \in Entries \ {e} : newEntry'[f] = newEntry[f]
  BY DEF IInv, TypeOK, StoreTyped, RequestsTyped
<1>4. result = "SUCCESS" => newEntry'[e] = b
  BY DEF IInv, TypeOK, StoreTyped, RequestsTyped
<1>5. ClaimsAgree'
  BY <1>1, <1>2, NoneAssumption DEF IInv, ClaimsAgree
<1>6. \A c \in Batches : outcome[c][e] \in Unsettled => c = b
  BY DEF IInv, UnsettledAgree, Unsettled
<1>7. AttemptsAgree'
  BY <1>1, <1>2, <1>3, <1>4, <1>6 DEF IInv, AttemptsAgree, Unsettled
<1>8. UnsettledAgree'
  BY <1>1, <1>2, <1>6 DEF IInv, UnsettledAgree, Unsettled
<1>9. \A c \in Batches \ {b} : Mild(c)
  BY <1>1 DEF Mild
<1> QED
  BY <1>1, <1>5, <1>7, <1>8, <1>9 DEF StoreAgrees

-----------------------------------------------------------------------------
(* The steps of one row. *)

\* The row that is reported is the one the handler works on; nothing else of the request changes.
LEMMA ReportFacts ==
  ASSUME TypeOK, NEW b \in Batches, row[b] \in Entries,
         NEW answer \in {"ERROR", "RECREATED", "FAILED", "AMBIGUOUS"}, Report(b, answer)
  PROVE  /\ \A c \in Batches \ {b} : Same(c)
         /\ stage'[b] = "between" /\ todo'[b] = todo[b]
         /\ \A e \in Entries : rows'[b][e] = IF e = row[b] THEN answer ELSE rows[b][e]
         /\ RequestsTyped'
<1>1. NothingRead \in Reading
  BY DEF NothingRead, Reading
<1>2. \A c \in Batches \ {b} : Same(c)
  BY DEF Report, TypeOK, RequestsTyped, Same
<1>3. seen' \in [Batches -> [Entries -> Reading]]
  BY <1>1 DEF Report, TypeOK, RequestsTyped
<1>4. RequestsTyped'
  BY <1>3 DEF Report, TypeOK, RequestsTyped
<1> QED
  BY <1>2, <1>4 DEF Report, TypeOK, RequestsTyped

\* A row may be reported once its attempt has come to what the answer says.
LEMMA Reported ==
  ASSUME IInv, NEW b \in Batches, row[b] \in Entries, row[b] \notin todo[b], stage[b] # "new",
         NEW answer \in {"ERROR", "RECREATED", "FAILED", "AMBIGUOUS"}, Report(b, answer),
         TypeOK', StoreAgrees', \A c \in Batches \ {b} : Mild(c),
         \A e \in Entries \ {row[b]} : outcome'[b][e] = outcome[b][e],
         answer = "ERROR" => outcome'[b][row[b]] = "unstarted",
         answer = "FAILED" => outcome'[b][row[b]] = "FAILED",
         answer = "RECREATED" => outcome'[b][row[b]] = "SUCCESS",
         answer = "AMBIGUOUS" => outcome'[b][row[b]] # "FAILED"
  PROVE  IInv'
<1>1. /\ \A c \in Batches \ {b} : Same(c)
      /\ stage'[b] = "between" /\ todo'[b] = todo[b]
      /\ \A e \in Entries : rows'[b][e] = IF e = row[b] THEN answer ELSE rows[b][e]
  BY ReportFacts DEF IInv
<1>2. todo[b] \subseteq Entries
  BY DEF IInv, TypeOK, StoreTyped, RequestsTyped
<1>3. HandlerAgrees(b)'
  BY <1>1, <1>2 DEF IInv, HandlersAgree, HandlerAgrees
<1>4. \A e \in Entries : RowAgrees(b, e)'
  BY <1>1 DEF IInv, RowsAgree, RowAgrees
<1> QED
  BY <1>1, <1>3, <1>4, OneRequest

\* A handler that waits for Clockify again.
LEMMA Awaited ==
  ASSUME IInv, NEW b \in Batches, row[b] \in Entries, row[b] \notin todo[b],
         rows[b][row[b]] = None,
         NEW next \in {"baseline", "creating", "verifying", "checking"}, Await(b, next),
         TypeOK', StoreAgrees', \A c \in Batches \ {b} : Mild(c),
         \A e \in Entries \ {row[b]} : outcome'[b][e] = outcome[b][e],
         next = "baseline" => /\ outcome'[b][row[b]] = "unstarted"
                              /\ seen[b][row[b]].life \in Actionable,
         next = "creating" => outcome'[b][row[b]] = "open",
         next = "verifying" => outcome'[b][row[b]] = "SUCCESS",
         next = "checking" => outcome'[b][row[b]] = "AMBIGUOUS"
  PROVE  IInv'
<1>1. /\ \A c \in Batches \ {b} : Same(c)
      /\ stage'[b] = next
      /\ row'[b] = row[b] /\ todo'[b] = todo[b] /\ rows'[b] = rows[b] /\ seen'[b] = seen[b]
  BY DEF IInv, TypeOK, StoreTyped, RequestsTyped, Await, Same
<1>2. todo[b] \subseteq Entries
  BY DEF IInv, TypeOK, StoreTyped, RequestsTyped
<1>3. HandlerAgrees(b)'
  BY <1>1, <1>2 DEF IInv, HandlersAgree, HandlerAgrees
<1>4. \A e \in Entries : RowAgrees(b, e)'
  BY <1>1, NoneAssumption DEF IInv, RowsAgree, RowAgrees
<1> QED
  BY <1>1, <1>3, <1>4, OneRequest

\* A new plan is a plan.
LEMMA PlanTyped ==
  ASSUME TypeOK, NEW e \in Entries, NEW fit \in BOOLEAN, CreateActive(e, fit)
  PROVE  StoreTyped'
BY DEF TypeOK, StoreTyped, CreateActive

\* A handler that waits again, or ends, has its types.
LEMMA RequestTyped ==
  ASSUME TypeOK,
         \/ \E b \in Batches, next \in {"baseline", "creating", "verifying", "checking"} :
              Await(b, next)
         \/ \E ended \in SUBSET Batches : End(ended)
         \/ UNCHANGED requestVars
  PROVE  RequestsTyped'
<1>1. NothingSeen \in [Entries -> Reading]
  BY DEF NothingSeen, NothingRead, Reading
<1>2. CASE \E b \in Batches, next \in {"baseline", "creating", "verifying", "checking"} :
              Await(b, next)
  BY <1>2 DEF TypeOK, RequestsTyped, Await
<1>3. CASE \E ended \in SUBSET Batches : End(ended)
  BY <1>1, <1>3 DEF TypeOK, RequestsTyped, End
<1>4. CASE UNCHANGED requestVars
  BY <1>4 DEF TypeOK, RequestsTyped, requestVars
<1> QED
  BY <1>2, <1>3, <1>4

\* The row a handler works on.
LEMMA RowFacts ==
  ASSUME IInv, NEW b \in Batches,
         stage[b] \in {"revalidating", "baseline", "creating", "verifying", "checking"}
  PROVE  /\ row[b] \in Entries /\ row[b] \notin todo[b] /\ rows[b][row[b]] = None
         /\ stage[b] # "new"
BY DEF IInv, HandlersAgree, HandlerAgrees

\* Steps that change neither the life of an entry nor an attempt leave every agreement alone.
LEMMA QuietStore ==
  ASSUME IInv, UNCHANGED <<life, claim, outcome, newEntry, wire>>
  PROVE  StoreAgrees' /\ \A c \in Batches : Mild(c)
BY StoreKept DEF Mild

\* Handlers may end at any time, one after its last row or all with the process.
LEMMA Ended ==
  ASSUME IInv, NEW ended \in SUBSET Batches, End(ended), TypeOK',
         UNCHANGED <<life, claim, outcome, newEntry, wire>>
  PROVE  IInv'
<1>1. ASSUME NEW c \in Batches PROVE HandlerAgrees(c)' /\ \A e \in Entries : RowAgrees(c, e)'
  <2>1. rows' = rows /\ outcome' = outcome
    BY DEF End
  <2>2. \A e \in Entries : RowAgrees(c, e)'
    BY <2>1 DEF IInv, RowsAgree, RowAgrees
  <2>3. CASE c \in ended
    <3>1. stage'[c] = "over" /\ todo'[c] = {}
      BY <2>3 DEF End
    <3> QED
      BY <2>2, <3>1 DEF HandlerAgrees
  <2>4. CASE c \notin ended
    <3>1. Same(c)
      BY <2>4 DEF End, Same
    <3> QED
      BY <3>1, OthersKept, QuietStore DEF IInv, HandlersAgree, RowsAgree
  <2> QED
    BY <2>3, <2>4
<1> QED
  BY <1>1, QuietStore DEF IInv, StoreAgrees, HandlersAgree, RowsAgree

-----------------------------------------------------------------------------
(* One lemma per step of a request. *)

\* A plan check stores a plan and touches no claim, outcome or row.
LEMMA PreflightStep ==
  ASSUME IInv, NEW e \in Entries, NEW fit \in BOOLEAN, Preflight(e, fit)
  PROVE  IInv'
<1>1. TypeOK'
  BY PlanTyped, RequestTyped DEF IInv, TypeOK, Preflight
<1>2. UNCHANGED <<life, claim, outcome, newEntry, wire>>
  BY DEF Preflight, CreateActive
<1>3. \A c \in Batches : Same(c)
  BY DEF Preflight, requestVars, Same
<1> QED
  BY <1>1, <1>2, <1>3, QuietStore, NoRequest

\* An arriving batch has its rows to do, none of them begun or reported.
LEMMA ArriveStep ==
  ASSUME IInv, NEW b \in Batches, Arrive(b)
  PROVE  IInv'
<1>1. Asked[b] \subseteq Entries
  BY AskedAssumption
<1>2. seen' \in [Batches -> [Entries -> Reading]]
  <2> DEFINE read == [e \in Entries |->
                  IF e \in Asked[b]
                    THEN [plan |-> active[e], ready |-> ready[e],
                          life |-> IF life[e] \in Actionable THEN life[e] ELSE None]
                    ELSE NothingRead]
  <2>1. read \in [Entries -> Reading]
    BY DEF IInv, TypeOK, StoreTyped, Reading, NothingRead, Actionable
  <2>2. seen' = [seen EXCEPT ![b] = read]
    BY DEF Arrive
  <2> HIDE DEF read
  <2> QED
    BY <2>1, <2>2 DEF IInv, TypeOK, RequestsTyped
<1>3. RequestsTyped'
  BY <1>1, <1>2 DEF IInv, TypeOK, RequestsTyped, Arrive
<1>4. TypeOK'
  BY <1>3 DEF IInv, TypeOK, StoreTyped, Arrive, storeVars
<1>5. UNCHANGED <<life, claim, outcome, newEntry, wire>>
  BY DEF Arrive, storeVars
<1>6. \A c \in Batches \ {b} : Same(c)
  BY DEF IInv, TypeOK, RequestsTyped, Arrive, Same
<1>7. /\ stage'[b] = "between" /\ todo'[b] = Asked[b] /\ rows'[b] = rows[b]
      /\ outcome'[b] = outcome[b]
  BY DEF IInv, TypeOK, RequestsTyped, Arrive, storeVars
<1>8. \A e \in Entries : outcome[b][e] = "unstarted" /\ rows[b][e] = None
  BY DEF IInv, HandlersAgree, HandlerAgrees, Arrive
<1>9. HandlerAgrees(b)'
  BY <1>1, <1>7, <1>8 DEF HandlerAgrees
<1>10. \A e \in Entries : RowAgrees(b, e)'
  BY <1>7 DEF IInv, RowsAgree, RowAgrees
<1> QED
  BY <1>4, <1>5, <1>6, <1>9, <1>10, QuietStore, OneRequest

\* The loop takes a row that was still to do; the row before it has its result.
LEMMA NextRowStep ==
  ASSUME IInv, NEW b \in Batches, NEW e \in Entries, NextRow(b, e)
  PROVE  IInv'
<1>1. UNCHANGED <<life, claim, outcome, newEntry, wire>>
  BY DEF NextRow, storeVars
<1>2. outcome[b][e] = "unstarted" /\ rows[b][e] = None
  BY DEF IInv, HandlersAgree, HandlerAgrees, NextRow
<1>3. todo[b] \subseteq Entries /\ todo'[b] = todo[b] \ {e}
  BY DEF IInv, TypeOK, RequestsTyped, NextRow
<1>4. NothingRead \in Reading
  BY DEF NothingRead, Reading
<1>5. CASE MayGo(b, e)
  <2>1. /\ stage' = [stage EXCEPT ![b] = "revalidating"] /\ row' = [row EXCEPT ![b] = e]
        /\ UNCHANGED <<rows, seen, waiting>>
    BY <1>5 DEF NextRow
  <2>2. RequestsTyped'
    BY <2>1 DEF IInv, TypeOK, RequestsTyped, NextRow
  <2>3. TypeOK'
    BY <2>2 DEF IInv, TypeOK, StoreTyped, NextRow, storeVars
  <2>4. seen[b][e].life \in Actionable
    BY <1>5 DEF MayGo, IInv, TypeOK, RequestsTyped, Reading, Actionable
  <2>5. \A c \in Batches \ {b} : Same(c)
    BY <2>1 DEF IInv, TypeOK, RequestsTyped, NextRow, Same
  <2>6. stage'[b] = "revalidating" /\ row'[b] = e /\ rows'[b] = rows[b] /\ seen'[b] = seen[b]
    BY <2>1 DEF IInv, TypeOK, RequestsTyped
  <2>7. HandlerAgrees(b)'
    BY <1>1, <1>2, <1>3, <2>4, <2>6 DEF IInv, HandlersAgree, HandlerAgrees
  <2>8. \A f \in Entries : RowAgrees(b, f)'
    BY <1>1, <2>6 DEF IInv, RowsAgree, RowAgrees
  <2> QED
    BY <1>1, <2>3, <2>5, <2>7, <2>8, QuietStore, OneRequest
<1>6. CASE ~MayGo(b, e)
  <2>1. /\ rows' = [rows EXCEPT ![b][e] = "ERROR"] /\ seen' = [seen EXCEPT ![b][e] = NothingRead]
        /\ UNCHANGED <<stage, row, waiting>>
    BY <1>6 DEF NextRow
  <2>2. RequestsTyped'
    BY <1>4, <2>1 DEF IInv, TypeOK, RequestsTyped, NextRow
  <2>3. TypeOK'
    BY <2>2 DEF IInv, TypeOK, StoreTyped, NextRow, storeVars
  <2>4. \A c \in Batches \ {b} : Same(c)
    BY <2>1 DEF IInv, TypeOK, RequestsTyped, NextRow, Same
  <2>5. \A f \in Entries : rows'[b][f] = IF f = e THEN "ERROR" ELSE rows[b][f]
    BY <2>1 DEF IInv, TypeOK, RequestsTyped
  <2>6. stage'[b] = "between"
    BY <2>1 DEF NextRow
  <2>7. HandlerAgrees(b)'
    BY <1>1, <1>3, <2>5, <2>6 DEF IInv, HandlersAgree, HandlerAgrees
  <2>8. \A f \in Entries : RowAgrees(b, f)'
    BY <1>1, <1>2, <2>5 DEF IInv, RowsAgree, RowAgrees
  <2> QED
    BY <1>1, <2>3, <2>4, <2>7, <2>8, QuietStore, OneRequest
<1> QED
  BY <1>5, <1>6

\* A row that is answered without a write.
LEMMA QuietReport ==
  ASSUME IInv, NEW b \in Batches,
         stage[b] \in {"revalidating", "baseline", "creating", "verifying", "checking"},
         NEW answer \in {"ERROR", "RECREATED", "FAILED", "AMBIGUOUS"}, Report(b, answer),
         UNCHANGED <<storeVars, wire, process>>,
         answer = "ERROR" => outcome[b][row[b]] = "unstarted",
         answer = "FAILED" => outcome[b][row[b]] = "FAILED",
         answer = "RECREATED" => outcome[b][row[b]] = "SUCCESS",
         answer = "AMBIGUOUS" => outcome[b][row[b]] # "FAILED"
  PROVE  IInv'
<1>1. row[b] \in Entries /\ row[b] \notin todo[b] /\ stage[b] # "new"
  BY RowFacts
<1>2. TypeOK'
  BY <1>1, ReportFacts DEF IInv, TypeOK, StoreTyped, storeVars
<1>3. UNCHANGED <<life, claim, outcome, newEntry, wire>>
  BY DEF storeVars
<1> QED
  BY <1>1, <1>2, <1>3, QuietStore, Reported

\* A row whose plan went stale is reported and sends no request.
LEMMA RevalidatedStaleStep ==
  ASSUME IInv, NEW b \in Batches, NEW fit \in BOOLEAN, RevalidatedStale(b, fit)
  PROVE  IInv'
<1>1. row[b] \in Entries /\ row[b] \notin todo[b] /\ stage[b] # "new"
  BY RowFacts DEF RevalidatedStale
<1>2. outcome[b][row[b]] = "unstarted"
  BY DEF IInv, HandlersAgree, HandlerAgrees, RevalidatedStale
<1>3. Report(b, "ERROR") /\ UNCHANGED <<life, claim, outcome, newEntry, wire>>
  BY DEF RevalidatedStale, CreateActive, storeVars
<1>4. StoreTyped'
  BY <1>1, PlanTyped DEF RevalidatedStale, IInv, TypeOK, StoreTyped, storeVars
<1>5. TypeOK'
  BY <1>1, <1>3, <1>4, ReportFacts DEF RevalidatedStale, IInv, TypeOK
<1> QED
  BY <1>1, <1>2, <1>3, <1>5, QuietStore, Reported

\* A claim is granted on an entry no unsettled attempt is on; the attempt begins unsent.
LEMMA ClaimsStep ==
  ASSUME IInv, NEW b \in Batches, Claims(b)
  PROVE  IInv'
<1>1. PICK e \in Entries : e = row[b]
  BY RowFacts DEF Claims
<1>2. row[b] \notin todo[b] /\ stage[b] # "new" /\ rows[b][row[b]] = None
  BY RowFacts DEF Claims
<1>3. outcome[b][e] = "unstarted" /\ seen[b][e].life \in Actionable
  BY <1>1 DEF IInv, HandlersAgree, HandlerAgrees, Claims
<1>4. CASE ~HasExpiredAttempt(e) /\ Claimable(e) /\ Await(b, "baseline")
           /\ life' = [life EXCEPT ![e] = "RECREATING"] /\ claim' = [claim EXCEPT ![e] = b]
           /\ expired' = [expired EXCEPT ![e] = FALSE] /\ active' = [active EXCEPT ![e] = 0]
           /\ ready' = [ready EXCEPT ![e] = FALSE] /\ UNCHANGED <<plans, outcome, newEntry>>
  <2>1. \A c \in Batches : outcome[c][e] \notin Unsettled
    BY <1>4, FreeIfClaimable DEF Claimable, HasExpiredAttempt, IInv, ClaimsAgree
  <2>2. StoreAgrees'
    BY <1>3, <1>4, <2>1, FreeKept, NoneAssumption DEF Claims
  <2>3. StoreTyped'
    BY <1>4 DEF IInv, TypeOK, StoreTyped
  <2>4. TypeOK'
    BY <1>4, <2>3, RequestTyped DEF IInv, TypeOK, Claims
  <2>5. \A c \in Batches : Mild(c)
    BY <1>4 DEF Mild
  <2> QED
    BY <1>1, <1>2, <1>3, <1>4, <2>2, <2>4, <2>5, Awaited
<1>5. CASE HasExpiredAttempt(e) /\ RecoverAttempt(e) /\ Report(b, "ERROR")
           /\ UNCHANGED <<active, ready, plans, newEntry>>
  <2>1. StoreAgrees' /\ StoreTyped' /\ \A c \in Batches : Mild(c)
    BY <1>5, RecoverKept DEF Claims
  <2>2. TypeOK'
    BY <1>1, <1>5, <2>1, ReportFacts DEF IInv, TypeOK, Claims
  <2>3. claim[e] # b
    BY <1>3, <1>5 DEF HasExpiredAttempt
  <2>4. \A f \in Entries : outcome'[b][f] = outcome[b][f]
    BY <1>5, <2>3 DEF RecoverAttempt, IInv, TypeOK, StoreTyped, ClaimsAgree, HasExpiredAttempt
  <2> QED
    BY <1>1, <1>2, <1>3, <1>5, <2>1, <2>2, <2>4, Reported
<1>6. CASE Report(b, "ERROR") /\ UNCHANGED storeVars
  BY <1>1, <1>3, <1>6, QuietReport DEF Claims
<1> QED
  BY <1>1, <1>4, <1>5, <1>6 DEF Claims

\* A baseline that cannot be read ends the attempt before a request was sent.
LEMMA BaselineFailsStep ==
  ASSUME IInv, NEW b \in Batches, BaselineFails(b)
  PROVE  IInv'
<1>1. PICK e \in Entries : e = row[b]
  BY RowFacts DEF BaselineFails
<1>2. row[b] \notin todo[b] /\ stage[b] # "new"
  BY RowFacts DEF BaselineFails
<1>3. outcome[b][e] = "unstarted" /\ seen[b][e].life \in Actionable
  BY <1>1 DEF IInv, HandlersAgree, HandlerAgrees, BaselineFails
<1>4. Report(b, "ERROR") /\ UNCHANGED <<active, ready, plans, outcome, newEntry, wire, process>>
  BY DEF BaselineFails
<1>5. StoreAgrees' /\ StoreTyped'
  <2>1. CASE claim[e] = b
    <3>1. LeaveClaim(e, seen[b][e].life)
      BY <1>1, <2>1 DEF BaselineFails
    <3>2. life[e] = "RECREATING"
      BY <2>1 DEF IInv, ClaimsAgree
    <3>3. \A c \in Batches : outcome[c][e] \notin Unsettled
      BY <1>3, <2>1, <3>2, FreeIfClaimable
    <3>4. StoreAgrees'
      BY <1>3, <1>4, <3>1, <3>3, FreeKept, NoneAssumption DEF LeaveClaim, Actionable
    <3>5. StoreTyped'
      BY <1>3, <1>4, <3>1 DEF LeaveClaim, Actionable, IInv, TypeOK, StoreTyped
    <3> QED
      BY <3>4, <3>5
  <2>2. CASE claim[e] # b
    <3>1. UNCHANGED <<life, claim, expired>>
      BY <1>1, <2>2 DEF BaselineFails
    <3> QED
      BY <1>4, <3>1, StoreKept DEF IInv, TypeOK, StoreTyped
  <2> QED
    BY <2>1, <2>2
<1>6. TypeOK'
  BY <1>1, <1>4, <1>5, ReportFacts DEF IInv, TypeOK
<1>7. \A c \in Batches : Mild(c)
  BY <1>4 DEF Mild
<1> QED
  BY <1>1, <1>2, <1>3, <1>4, <1>5, <1>6, <1>7, Reported

\* A started attempt holds the claim, and is the only unsettled one of its entry.
LEMMA StartAttemptStep ==
  ASSUME IInv, NEW b \in Batches, StartAttempt(b)
  PROVE  IInv'
<1>1. PICK e \in Entries : e = row[b]
  BY RowFacts DEF StartAttempt
<1>2. row[b] \notin todo[b] /\ stage[b] # "new" /\ rows[b][row[b]] = None
  BY RowFacts DEF StartAttempt
<1>3. outcome[b][e] = "unstarted"
  BY <1>1 DEF IInv, HandlersAgree, HandlerAgrees, StartAttempt
<1>4. CASE HoldsClaim(b)
  <2>1. /\ outcome' = [outcome EXCEPT ![b][e] = "open"] /\ expired' = [expired EXCEPT ![e] = FALSE]
        /\ wire' = [wire EXCEPT ![b][e] = "sent"] /\ Await(b, "creating")
        /\ UNCHANGED <<life, claim, active, ready, plans, newEntry, process>>
    BY <1>1, <1>4 DEF StartAttempt
  <2>2. TypeOK'
    BY <2>1, RequestTyped DEF IInv, TypeOK, StoreTyped
  <2>3. \A c \in Batches, f \in Entries :
          /\ outcome'[c][f] = IF c = b /\ f = e THEN "open" ELSE outcome[c][f]
          /\ wire'[c][f] = IF c = b /\ f = e THEN "sent" ELSE wire[c][f]
    BY <2>1 DEF IInv, TypeOK, StoreTyped
  <2>4. claim[e] = b /\ life[e] = "RECREATING"
    BY <1>1, <1>4 DEF HoldsClaim, IInv, ClaimsAgree
  <2>5. \A c \in Batches : outcome[c][e] \notin Unsettled
    BY <1>3, <2>4, FreeIfClaimable
  <2>6. ClaimsAgree'
    BY <2>1, <2>3, <2>4 DEF IInv, ClaimsAgree
  <2>7. AttemptsAgree'
    BY <2>1, <2>3 DEF IInv, AttemptsAgree
  <2>8. UnsettledAgree'
    BY <2>1, <2>3, <2>4, <2>5 DEF IInv, UnsettledAgree, Unsettled
  <2>9. \A c \in Batches \ {b} : Mild(c)
    BY <2>3 DEF Mild
  <2> QED
    BY <1>1, <1>2, <2>1, <2>2, <2>3, <2>6, <2>7, <2>8, <2>9, Awaited DEF StoreAgrees
<1>5. CASE ~HoldsClaim(b)
  BY <1>1, <1>3, <1>5, QuietReport DEF StartAttempt, storeVars
<1> QED
  BY <1>4, <1>5

\* A confirmed create ends the attempt, and its row is reported as recreated.
LEMMA CommitCreatedStep ==
  ASSUME IInv, NEW b \in Batches, CommitCreated(b)
  PROVE  IInv'
<1>1. PICK e \in Entries : e = row[b]
  BY RowFacts DEF CommitCreated
<1>2. row[b] \notin todo[b] /\ stage[b] # "new" /\ rows[b][row[b]] = None
  BY RowFacts DEF CommitCreated
<1>3. /\ outcome[b][e] = "open" /\ claim[e] = b /\ wire[b][e] = "applied"
      /\ outcome' = [outcome EXCEPT ![b][e] = "SUCCESS"] /\ newEntry' = [newEntry EXCEPT ![e] = b]
      /\ LeaveClaim(e, "RECREATED") /\ Await(b, "verifying")
      /\ UNCHANGED <<active, ready, plans, wire, process>>
  BY <1>1 DEF CommitCreated, CanCommit, HoldsClaim
<1>4. /\ StoreAgrees' /\ \A c \in Batches \ {b} : Mild(c)
      /\ \A f \in Entries : outcome'[b][f] = IF f = e THEN "SUCCESS" ELSE outcome[b][f]
  BY <1>3, CommitKept
<1>5. TypeOK'
  BY <1>3, RequestTyped DEF LeaveClaim, IInv, TypeOK, StoreTyped
<1> QED
  BY <1>1, <1>2, <1>3, <1>4, <1>5, Awaited

\* A refused create ends the attempt without a new entry, and the row says so.
LEMMA CommitRejectedStep ==
  ASSUME IInv, NEW b \in Batches, CommitRejected(b)
  PROVE  IInv'
<1>1. PICK e \in Entries : e = row[b]
  BY RowFacts DEF CommitRejected
<1>2. row[b] \notin todo[b] /\ stage[b] # "new"
  BY RowFacts DEF CommitRejected
<1>3. /\ outcome[b][e] = "open" /\ claim[e] = b /\ wire[b][e] = "rejected"
      /\ outcome' = [outcome EXCEPT ![b][e] = "FAILED"]
      /\ LeaveClaim(e, "FAILED") /\ Report(b, "FAILED")
      /\ UNCHANGED <<active, ready, plans, newEntry, wire, process>>
  BY <1>1 DEF CommitRejected, CanCommit, HoldsClaim
<1>4. /\ StoreAgrees' /\ \A c \in Batches \ {b} : Mild(c)
      /\ \A f \in Entries : outcome'[b][f] = IF f = e THEN "FAILED" ELSE outcome[b][f]
  BY <1>3, CommitKept
<1>5. StoreTyped'
  BY <1>3 DEF LeaveClaim, IInv, TypeOK, StoreTyped
<1>6. TypeOK'
  BY <1>1, <1>3, <1>5, ReportFacts DEF IInv, TypeOK
<1> QED
  BY <1>1, <1>2, <1>3, <1>4, <1>6, Reported

\* An answer that decides nothing leaves the outcome unknown, and the row says so.
LEMMA CommitAmbiguousStep ==
  ASSUME IInv, NEW b \in Batches, CommitAmbiguous(b)
  PROVE  IInv'
<1>1. PICK e \in Entries : e = row[b]
  BY RowFacts DEF CommitAmbiguous
<1>2. row[b] \notin todo[b] /\ stage[b] # "new" /\ rows[b][row[b]] = None
  BY RowFacts DEF CommitAmbiguous
<1>3. /\ outcome[b][e] = "open" /\ claim[e] = b
      /\ outcome' = [outcome EXCEPT ![b][e] = "AMBIGUOUS"]
      /\ LeaveClaim(e, "AMBIGUOUS") /\ Await(b, "checking")
      /\ UNCHANGED <<active, ready, plans, newEntry, wire, process>>
  BY <1>1 DEF CommitAmbiguous, CanCommit, HoldsClaim, StateWithoutAnswer
<1>4. /\ StoreAgrees' /\ \A c \in Batches \ {b} : Mild(c)
      /\ \A f \in Entries : outcome'[b][f] = IF f = e THEN "AMBIGUOUS" ELSE outcome[b][f]
  BY <1>3, CommitKept
<1>5. TypeOK'
  BY <1>3, RequestTyped DEF LeaveClaim, IInv, TypeOK, StoreTyped
<1> QED
  BY <1>1, <1>2, <1>3, <1>4, <1>5, Awaited

\* A check that adopts the copy ends the doubt; one that does not leaves the entry unknown.
LEMMA CheckedStep ==
  ASSUME IInv, NEW b \in Batches, Checked(b)
  PROVE  IInv'
<1>1. PICK e \in Entries : e = row[b]
  BY RowFacts DEF Checked
<1>2. row[b] \notin todo[b] /\ stage[b] # "new"
  BY RowFacts DEF Checked
<1>3. outcome[b][e] = "AMBIGUOUS"
  BY <1>1 DEF IInv, HandlersAgree, HandlerAgrees, Checked
<1>4. CASE /\ life[e] = "AMBIGUOUS" /\ wire[b][e] = "applied"
           /\ life' = [life EXCEPT ![e] = "RECREATED"] /\ newEntry' = [newEntry EXCEPT ![e] = b]
           /\ outcome' = [outcome EXCEPT ![b][e] = "SUCCESS"]
           /\ Report(b, "RECREATED") /\ UNCHANGED <<claim, expired, active, ready, plans>>
  <2>1. StoreTyped' /\ UNCHANGED <<wire, process>>
    BY <1>4 DEF IInv, TypeOK, StoreTyped, Checked
  <2>2. TypeOK'
    BY <1>1, <1>4, <2>1, ReportFacts DEF IInv, TypeOK
  <2>3. \A c \in Batches, f \in Entries :
          outcome'[c][f] = IF c = b /\ f = e THEN "SUCCESS" ELSE outcome[c][f]
    BY <1>4 DEF IInv, TypeOK, StoreTyped
  <2>4. \A f \in Entries : /\ life'[f] = IF f = e THEN "RECREATED" ELSE life[f]
                           /\ newEntry'[f] = IF f = e THEN b ELSE newEntry[f]
    BY <1>4 DEF IInv, TypeOK, StoreTyped
  <2>5. claim[e] \notin Batches
    BY <1>4 DEF IInv, ClaimsAgree
  <2>6. ClaimsAgree'
    BY <1>4, <2>3, <2>4, <2>5 DEF IInv, ClaimsAgree
  <2>7. \A c \in Batches : outcome[c][e] \in Unsettled => c = b
    BY <1>3 DEF IInv, UnsettledAgree, Unsettled
  <2>8. AttemptsAgree'
    BY <1>3, <1>4, <2>1, <2>3, <2>4, <2>7 DEF IInv, AttemptsAgree, Unsettled
  <2>9. UnsettledAgree'
    BY <1>3, <1>4, <2>3, <2>4 DEF IInv, UnsettledAgree, Unsettled
  <2>10. \A c \in Batches \ {b} : Mild(c)
    BY <2>3 DEF Mild
  <2> QED
    BY <1>1, <1>2, <1>4, <2>2, <2>3, <2>6, <2>8, <2>9, <2>10, Reported DEF StoreAgrees
<1>5. CASE Report(b, "AMBIGUOUS") /\ UNCHANGED storeVars
  BY <1>1, <1>3, <1>5, QuietReport DEF Checked
<1> QED
  BY <1>1, <1>4, <1>5 DEF Checked

\* Every step of a request keeps the invariant.
LEMMA BatchStepKept ==
  ASSUME IInv, NEW b \in Batches, BatchStep(b)
  PROVE  IInv'
<1>1. CASE AllRowsAnswered(b) \/ BatchThrows(b)
  <2>1. End({b}) /\ UNCHANGED <<storeVars, wire, process>>
    BY <1>1 DEF AllRowsAnswered, BatchThrows
  <2>2. TypeOK'
    BY <2>1, RequestTyped DEF IInv, TypeOK, StoreTyped, storeVars
  <2> QED
    BY <2>1, <2>2, Ended DEF storeVars
<1>2. CASE RevalidationFails(b)
  <2>1. outcome[b][row[b]] = "unstarted"
    BY <1>2 DEF RevalidationFails, IInv, HandlersAgree, HandlerAgrees
  <2> QED
    BY <1>2, <2>1, QuietReport DEF RevalidationFails
<1>3. CASE Verified(b)
  <2>1. outcome[b][row[b]] = "SUCCESS"
    BY <1>3 DEF Verified, IInv, HandlersAgree, HandlerAgrees
  <2> QED
    BY <1>3, <2>1, QuietReport DEF Verified
<1>4. CASE AttemptThrows(b)
  <2>1. outcome[b][row[b]] # "FAILED"
    BY <1>4 DEF AttemptThrows, IInv, HandlersAgree, HandlerAgrees
  <2> QED
    BY <1>4, <2>1, QuietReport DEF AttemptThrows, AnswerForThrown
<1> QED
  BY <1>1, <1>2, <1>3, <1>4, NextRowStep, RevalidatedStaleStep, ClaimsStep, BaselineFailsStep,
     StartAttemptStep, CommitCreatedStep, CommitRejectedStep, CommitAmbiguousStep, CheckedStep
     DEF BatchStep

-----------------------------------------------------------------------------
(* The other steps, and the theorems. *)

\* A detail view gives an expired claim back, or makes its attempt unknown.
LEMMA RecoverStep ==
  ASSUME IInv, NEW e \in Entries, Recover(e)
  PROVE  IInv'
<1>1. \A c \in Batches : Same(c)
  BY DEF Recover, requestVars, Same
<1>2. StoreAgrees' /\ StoreTyped' /\ \A c \in Batches : Mild(c)
  <2>1. CASE HasExpiredAttempt(e)
    BY <2>1, RecoverKept DEF Recover
  <2>2. CASE ~HasExpiredAttempt(e)
    <3>1. LeaveClaim(e, "IDLE") /\ UNCHANGED <<outcome, newEntry, wire, active, ready, plans>>
      BY <2>2 DEF Recover
    <3>2. \A c \in Batches : outcome[c][e] \notin Unsettled
      BY <2>2, FreeIfClaimable DEF Recover, HasExpiredAttempt, IInv, ClaimsAgree
    <3>3. StoreAgrees'
      BY <3>1, <3>2, FreeKept, NoneAssumption DEF LeaveClaim, Actionable
    <3>4. StoreTyped'
      BY <3>1 DEF LeaveClaim, IInv, TypeOK, StoreTyped
    <3> QED
      BY <3>1, <3>3, <3>4 DEF Mild
  <2> QED
    BY <2>1, <2>2
<1>3. TypeOK'
  BY <1>2, RequestTyped DEF Recover, IInv, TypeOK
<1> QED
  BY <1>1, <1>2, <1>3, NoRequest

\* Clockify decides on a request that it has been sent.
LEMMA AnswersStep ==
  ASSUME IInv, NEW b \in Batches, NEW e \in Entries, NEW fate \in {"applied", "rejected"},
         Answers(b, e, fate)
  PROVE  IInv'
<1>1. UNCHANGED <<storeVars, process, requestVars>> /\ wire[b][e] = "sent"
  BY DEF Answers
<1>2. TypeOK'
  BY <1>1, RequestTyped DEF Answers, IInv, TypeOK, StoreTyped, storeVars
<1>3. \A c \in Batches, f \in Entries :
        wire'[c][f] = IF c = b /\ f = e THEN fate ELSE wire[c][f]
  BY DEF Answers, IInv, TypeOK
<1>4. StoreAgrees'
  BY <1>1, <1>3
     DEF StoreAgrees, IInv, ClaimsAgree, AttemptsAgree, UnsettledAgree, Unsettled, storeVars
<1>5. \A c \in Batches : Mild(c) /\ Same(c)
  BY <1>1 DEF Mild, Same, storeVars, requestVars
<1> QED
  BY <1>2, <1>4, <1>5, NoRequest

\* A lease that runs out changes no claim, outcome or row until somebody acts on it.
LEMMA LeaseExpiresStep ==
  ASSUME IInv, NEW e \in Entries, LeaseExpires(e)
  PROVE  IInv'
<1>1. UNCHANGED <<life, claim, outcome, newEntry, wire>> /\ \A c \in Batches : Same(c)
  BY DEF LeaseExpires, requestVars, Same
<1>2. StoreTyped'
  BY DEF LeaseExpires, IInv, TypeOK, StoreTyped
<1>3. TypeOK'
  BY <1>1, <1>2, RequestTyped DEF LeaseExpires, IInv, TypeOK
<1> QED
  BY <1>1, <1>3, QuietStore, NoRequest

\* A caller that goes away changes neither the store nor the loop of its batch.
LEMMA DisconnectStep ==
  ASSUME IInv, NEW b \in Batches, Disconnect(b)
  PROVE  IInv'
<1>1. UNCHANGED <<life, claim, outcome, newEntry, wire>> /\ \A c \in Batches : Same(c)
  BY DEF Disconnect, storeVars, Same
<1>2. TypeOK'
  BY DEF Disconnect, IInv, TypeOK, StoreTyped, RequestsTyped, storeVars
<1> QED
  BY <1>1, <1>2, QuietStore, NoRequest

\* However the process comes to its end, the store and the answers given stay as they are.
LEMMA ProcessStepKept ==
  ASSUME IInv, ProcessStep
  PROVE  IInv'
<1>1. CASE Exits
  <2>1. \E ended \in SUBSET Batches : End(ended)
    BY <1>1 DEF Exits
  <2>2. TypeOK'
    BY <1>1, <2>1, RequestTyped DEF Exits, IInv, TypeOK, StoreTyped, storeVars
  <2> QED
    BY <1>1, <2>1, <2>2, Ended DEF Exits, storeVars
<1>2. CASE Signal \/ CloseDatabase \/ Restart
  <2>1. UNCHANGED <<requestVars, storeVars, wire>>
    BY <1>2 DEF Signal, CloseDatabase, Restart
  <2>2. TypeOK'
    BY <1>2, <2>1, RequestTyped
       DEF Signal, CloseDatabase, Restart, IInv, TypeOK, StoreTyped, storeVars
  <2> QED
    BY <2>1, <2>2, QuietStore, NoRequest DEF storeVars, requestVars, Same
<1> QED
  BY <1>1, <1>2 DEF ProcessStep, ForceTimer, LoopEnds, Killed

\* Before anything arrives nothing is claimed, sent or reported.
LEMMA InitAgrees == Init => IInv
<1> SUFFICES ASSUME Init PROVE IInv
  OBVIOUS
<1>1. TypeOK
  <2>1. NothingSeen \in [Entries -> Reading]
    BY DEF NothingSeen, NothingRead, Reading
  <2> QED
    BY <2>1 DEF Init, TypeOK, StoreTyped, RequestsTyped
<1>2. ClaimsAgree /\ AttemptsAgree /\ UnsettledAgree
  BY NoneAssumption DEF Init, ClaimsAgree, AttemptsAgree, UnsettledAgree, Unsettled
<1>3. HandlersAgree /\ RowsAgree
  BY NoneAssumption DEF Init, HandlersAgree, HandlerAgrees, RowsAgree, RowAgrees
<1> QED
  BY <1>1, <1>2, <1>3 DEF IInv

\* Every step of the server, its shutdown included, keeps the invariant.
LEMMA StepAgrees == IInv /\ [Next]_vars => IInv'
<1> SUFFICES ASSUME IInv, [Next]_vars PROVE IInv'
  OBVIOUS
<1>1. CASE UNCHANGED vars
  <2>1. UNCHANGED <<storeVars, wire, process, requestVars>>
    BY <1>1 DEF vars
  <2>2. TypeOK'
    BY <2>1, RequestTyped DEF IInv, TypeOK, StoreTyped, storeVars
  <2> QED
    BY <2>1, <2>2, QuietStore, NoRequest DEF storeVars, requestVars, Same
<1>2. CASE Next
  BY <1>2, PreflightStep, ArriveStep, BatchStepKept, DisconnectStep, AnswersStep,
     LeaseExpiresStep, RecoverStep, ProcessStepKept DEF Next
<1> QED
  BY <1>1, <1>2

\* The agreements hold for every number of entries, batches and plans.
THEOREM ServerInvariance == Spec => []IInv
BY InitAgrees, StepAgrees, PTL DEF Spec

\* What bulkResultItem reports of a row is what happened to its create, then and for good, whatever
\* other batches, disconnected clients, the shutdown and later processes do.
THEOREM BulkIsTruthful == Spec => []RowsAreTruthful
<1>1. IInv => RowsAreTruthful
  <2> SUFFICES ASSUME IInv, NEW b \in Batches, NEW e \in Entries PROVE RowIsTruthful(b, e)
    BY DEF RowsAreTruthful
  <2>1. RowAgrees(b, e)
    BY DEF IInv, RowsAgree
  <2>2. CASE rows[b][e] = "AMBIGUOUS"
    <3>1. outcome[b][e] \in Unsettled \cup {"unstarted"}
      BY <2>1, <2>2 DEF RowAgrees, IInv, TypeOK, StoreTyped, Unsettled
    <3>2. outcome[b][e] = "unstarted" => wire[b][e] = "unsent"
      BY DEF IInv, AttemptsAgree
    <3>3. outcome[b][e] \in Unsettled => life[e] \notin Actionable
      BY DEF IInv, UnsettledAgree, ClaimsAgree, Actionable
    <3> QED
      BY <2>2, <3>1, <3>2, <3>3 DEF RowIsTruthful
  <2>3. CASE rows[b][e] # "AMBIGUOUS"
    BY <2>1, <2>3 DEF RowAgrees, RowIsTruthful, IInv, AttemptsAgree
  <2> QED
    BY <2>2, <2>3
<1> QED
  BY <1>1, ServerInvariance, PTL

\* claimForActivePlan, the durable attempt and the lease recovery never let a second create of one
\* entry be accepted, however often the process stops in the middle of a batch.
THEOREM NoSecondCopy == Spec => []OneCopyEach
<1>1. IInv => OneCopyEach
  <2> SUFFICES ASSUME IInv, NEW e \in Entries, NEW b \in Batches, NEW c \in Batches,
                      wire[b][e] = "applied", wire[c][e] = "applied"
               PROVE  b = c
    BY DEF OneCopyEach
  <2>1. outcome[b][e] \in Unsettled /\ outcome[c][e] \in Unsettled
    BY DEF IInv, TypeOK, StoreTyped, AttemptsAgree, Unsettled
  <2> QED
    BY <2>1 DEF IInv, UnsettledAgree
<1> QED
  BY <1>1, ServerInvariance, PTL
=============================================================================
