------------------------------- MODULE Server -------------------------------
(***************************************************************************)
(* Bulk recreation inside the one server process, and the end of that      *)
(* process.  A batch (POST /api/entries/bulk-recreate) looks at all its    *)
(* plans once and then confirms them one after the other, each with the    *)
(* plan and the entry it read at the start.  Meanwhile other batches and   *)
(* preflights run, the client goes away, SIGTERM stops the listener and    *)
(* closes the database under a handler whose client is gone, or the        *)
(* process dies; the next process finds the rows it left.                  *)
(*                                                                         *)
(* One action is one stretch of code between two awaits.  The batch's      *)
(* order is the order its rows are picked in.  What one create and one     *)
(* check do in detail (baseline, fingerprints, evidence) is Recreation's   *)
(* and Reconcile's matter; here a row keeps only what its answer says.  A  *)
(* row claims its entry at most once, so the batch stands for the token.   *)
(***************************************************************************)
EXTENDS Naturals

CONSTANTS
  Entries,   \* rows of recoverable_entries
  Batches,   \* requests to recreate plans; one with a single plan is a single confirmation
  Asked,     \* the entries each request names a plan of
  Reviewed,  \* entries whose plans may need an individual review
  MaxPlans,  \* bound: plans each entry is given
  None       \* no value

ASSUME AskedAssumption == Asked \in [Batches -> (SUBSET Entries) \ {{}}]
ASSUME MaxPlansAssumption == MaxPlans \in [Entries -> Nat]
ASSUME NoneAssumption ==
  /\ None \notin Entries \cup Batches
  /\ None \notin {"ERROR", "RECREATED", "FAILED", "AMBIGUOUS", "IDLE"}

VARIABLES
  (* database *)
  life,      \* lifecycle_state
  claim,     \* claim_token: the batch that claimed the entry
  expired,   \* the claim's lease is over
  active,    \* the entry's ACTIVE plan, 0 if it has none
  ready,     \* eligibleForBulkRecreation of that plan
  plans,     \* plans the entry has been given so far
  outcome,   \* outcome of the attempt of each row; "unstarted": no attempt
  newEntry,  \* new_entry_id: the row whose create made it
  (* Clockify *)
  wire,      \* what became of each row's create request
  (* the process *)
  process,   \* "running", "draining", "closed" or "undead" (see CloseDatabase), "exited"
  (* requests *)
  stage,     \* where the handler is
  row,       \* the entry of the row it works on
  todo,      \* the rows it has not begun
  seen,      \* what the pre-scan read of every row's plan and entry
  rows,      \* the answers so far
  waiting    \* the client's connection is open

storeVars   == <<life, claim, expired, active, ready, plans, outcome, newEntry>>
requestVars == <<stage, row, todo, seen, rows, waiting>>
vars == <<storeVars, wire, process, requestVars>>

Actionable == {"IDLE", "FAILED"}
Serving    == process \notin {"closed", "exited"}
Running(b) == stage[b] \notin {"new", "over"}

StoreTyped ==
  /\ life \in [Entries -> {"IDLE", "RECREATING", "RECREATED", "FAILED", "AMBIGUOUS"}]
  /\ claim \in [Entries -> Batches \cup {None}]
  /\ expired \in [Entries -> BOOLEAN]
  /\ active \in [Entries -> Nat] /\ plans \in [Entries -> Nat]
  /\ ready \in [Entries -> BOOLEAN]
  /\ outcome \in [Batches -> [Entries -> {"unstarted", "open", "SUCCESS", "FAILED", "AMBIGUOUS"}]]
  /\ newEntry \in [Entries -> Batches \cup {None}]

Reading == [plan : Nat, ready : BOOLEAN, life : {"IDLE", "FAILED", None}]

RequestsTyped ==
  /\ stage \in [Batches -> {"new", "between", "revalidating", "baseline", "creating",
                            "verifying", "checking", "over"}]
  /\ row \in [Batches -> Entries \cup {None}]
  /\ todo \in [Batches -> SUBSET Entries]
  /\ seen \in [Batches -> [Entries -> Reading]]
  /\ rows \in [Batches -> [Entries -> {"ERROR", "RECREATED", "FAILED", "AMBIGUOUS", None}]]
  /\ waiting \in [Batches -> BOOLEAN]

\* Every column and every local variable holds a value of its type.
TypeOK ==
  /\ StoreTyped
  /\ RequestsTyped
  /\ wire \in [Batches -> [Entries -> {"unsent", "sent", "applied", "rejected"}]]
  /\ process \in {"running", "draining", "closed", "undead", "exited"}

-----------------------------------------------------------------------------
(* Operators on the store and on the rows of a batch. *)

HasExpiredAttempt(e) ==
  life[e] = "RECREATING" /\ expired[e] /\ outcome[claim[e]][e] # "unstarted"

\* The claim predicate of claimWhileLocked.
Claimable(e) == life[e] \in Actionable \/ (life[e] = "RECREATING" /\ expired[e])

\* A transition that leaves RECREATING clears the claim and its lease.
LeaveClaim(e, state) ==
  /\ life'    = [life EXCEPT ![e] = state]
  /\ claim'   = [claim EXCEPT ![e] = None]
  /\ expired' = [expired EXCEPT ![e] = FALSE]

\* recoverExpiredAttempt: an attempt without an outcome may have sent its create.
RecoverAttempt(e) ==
  /\ LeaveClaim(e, "AMBIGUOUS")
  /\ outcome' = [outcome EXCEPT ![claim[e]][e] = "AMBIGUOUS"]

NothingRead == [plan |-> 0, ready |-> FALSE, life |-> None]
NothingSeen == [e \in Entries |-> NothingRead]

\* createActive: the next plan replaces the ACTIVE one.
CreateActive(e, fit) ==
  /\ fit \/ e \in Reviewed
  /\ plans[e] < MaxPlans[e]
  /\ plans'  = [plans EXCEPT ![e] = @ + 1]
  /\ active' = [active EXCEPT ![e] = plans[e] + 1]
  /\ ready'  = [ready EXCEPT ![e] = fit]
  /\ UNCHANGED <<life, claim, expired, outcome, newEntry>>

\* Wrong: an error after the attempt started is reported as if nothing had been sent.
AnswerForThrownAsError == "ERROR"

\* bulkResultItem for "attempt-error".
AnswerForThrown == "AMBIGUOUS"

\* results.push: the row is answered and the loop goes on.  What was read of it is not used again.
Report(b, answer) ==
  /\ rows'  = [rows EXCEPT ![b][row[b]] = answer]
  /\ stage' = [stage EXCEPT ![b] = "between"]
  /\ row'   = [row EXCEPT ![b] = None]
  /\ seen'  = [seen EXCEPT ![b][row[b]] = NothingRead]
  /\ UNCHANGED <<todo, waiting>>

\* The row waits for Clockify again.
Await(b, next) ==
  /\ stage' = [stage EXCEPT ![b] = next]
  /\ UNCHANGED <<row, todo, seen, rows, waiting>>

\* The handlers of `ended` are over, with their local variables and their connections.
End(ended) ==
  /\ stage'   = [b \in Batches |-> IF b \in ended THEN "over" ELSE stage[b]]
  /\ row'     = [b \in Batches |-> IF b \in ended THEN None ELSE row[b]]
  /\ todo'    = [b \in Batches |-> IF b \in ended THEN {} ELSE todo[b]]
  /\ seen'    = [b \in Batches |-> IF b \in ended THEN NothingSeen ELSE seen[b]]
  /\ waiting' = [b \in Batches |-> waiting[b] /\ b \notin ended]
  /\ UNCHANGED rows

-----------------------------------------------------------------------------
Init ==
  /\ life = [e \in Entries |-> "IDLE"]
  /\ claim = [e \in Entries |-> None]
  /\ expired = [e \in Entries |-> FALSE]
  /\ active = [e \in Entries |-> 0]
  /\ ready = [e \in Entries |-> FALSE]
  /\ plans = [e \in Entries |-> 0]
  /\ outcome = [b \in Batches |-> [e \in Entries |-> "unstarted"]]
  /\ newEntry = [e \in Entries |-> None]
  /\ wire = [b \in Batches |-> [e \in Entries |-> "unsent"]]
  /\ process = "running"
  /\ stage = [b \in Batches |-> "new"]
  /\ row = [b \in Batches |-> None]
  /\ todo = [b \in Batches |-> {}]
  /\ seen = [b \in Batches |-> NothingSeen]
  /\ rows = [b \in Batches |-> [e \in Entries |-> None]]
  /\ waiting = [b \in Batches |-> FALSE]

-----------------------------------------------------------------------------
(* Requests: preflight, and the batch up to the first row. *)

\* handlePreflight and one id of handleBulkPreflight.
Preflight(e, fit) ==
  /\ Serving
  /\ life[e] \in Actionable
  /\ CreateActive(e, fit)
  /\ UNCHANGED <<wire, process, requestVars>>

\* The pre-scan: every plan is read with its entry, and every one is ACTIVE.  A request with any
\* other plan is answered 404 or 409 and changes nothing.
Arrive(b) ==
  /\ process = "running"
  /\ stage[b] = "new"
  /\ \A e \in Asked[b] : active[e] # 0
  /\ stage'  = [stage EXCEPT ![b] = "between"]
  /\ waiting' = [waiting EXCEPT ![b] = TRUE]
  /\ todo'   = [todo EXCEPT ![b] = Asked[b]]
  /\ seen'   = [seen EXCEPT ![b] = [e \in Entries |->
                  IF e \in Asked[b]
                    THEN [plan |-> active[e], ready |-> ready[e],
                          life |-> IF life[e] \in Actionable THEN life[e] ELSE None]
                    ELSE NothingRead]]
  /\ UNCHANGED <<row, rows, storeVars, wire, process>>

\* eligibleForBulkRecreation, and the entry's state as the pre-scan read it.
MayGo(b, e) == seen[b][e].ready /\ seen[b][e].life # None

\* The loop takes the next row: it is answered at once, or the client is loaded from the store and
\* the revalidation's reads are awaited.
NextRow(b, e) ==
  /\ stage[b] = "between"
  /\ e \in todo[b]
  /\ todo' = [todo EXCEPT ![b] = @ \ {e}]
  /\ IF MayGo(b, e)
       THEN /\ Serving
            /\ stage' = [stage EXCEPT ![b] = "revalidating"]
            /\ row'   = [row EXCEPT ![b] = e]
            /\ UNCHANGED <<rows, seen>>
       ELSE /\ rows' = [rows EXCEPT ![b][e] = "ERROR"]
            /\ seen' = [seen EXCEPT ![b][e] = NothingRead]
            /\ UNCHANGED <<stage, row>>
  /\ UNCHANGED <<waiting, storeVars, wire, process>>

\* The answer 200 with all rows.
AllRowsAnswered(b) ==
  /\ stage[b] = "between"
  /\ todo[b] = {}
  /\ End({b})
  /\ UNCHANGED <<storeVars, wire, process>>

-----------------------------------------------------------------------------
(* One row: confirmPlan and attemptRecreation. *)

\* No waiting, a truncated list, a failed read: nothing was claimed.
RevalidationFails(b) ==
  /\ stage[b] = "revalidating"
  /\ Report(b, "ERROR")
  /\ UNCHANGED <<storeVars, wire, process>>

\* The plan would do something else by now: a fresh one replaces whichever is ACTIVE.
RevalidatedStale(b, fit) ==
  /\ stage[b] = "revalidating"
  /\ Serving
  /\ IF life[row[b]] \in Actionable THEN CreateActive(row[b], fit) ELSE UNCHANGED storeVars
  /\ Report(b, "ERROR")
  /\ UNCHANGED <<wire, process>>

\* claimForActivePlan.  "plan-not-active" and "unavailable" answer the row.
Claims(b) ==
  LET e == row[b] IN
  /\ stage[b] = "revalidating"
  /\ Serving
  /\ \/ /\ active[e] = seen[b][e].plan /\ ~HasExpiredAttempt(e) /\ Claimable(e)
        /\ life'    = [life EXCEPT ![e] = "RECREATING"]
        /\ claim'   = [claim EXCEPT ![e] = b]
        /\ expired' = [expired EXCEPT ![e] = FALSE]
        /\ active'  = [active EXCEPT ![e] = 0]
        /\ ready'   = [ready EXCEPT ![e] = FALSE]
        /\ Await(b, "baseline")
        /\ UNCHANGED <<plans, outcome, newEntry>>
     \/ /\ active[e] = seen[b][e].plan /\ HasExpiredAttempt(e)
        /\ RecoverAttempt(e)
        /\ Report(b, "ERROR")
        /\ UNCHANGED <<active, ready, plans, newEntry>>
     \/ /\ active[e] # seen[b][e].plan \/ (~Claimable(e) /\ ~HasExpiredAttempt(e))
        /\ Report(b, "ERROR")
        /\ UNCHANGED storeVars
  /\ UNCHANGED <<wire, process>>

\* The baseline read fails: releaseClaim puts back the state the pre-scan read.
BaselineFails(b) ==
  LET e == row[b] IN
  /\ stage[b] = "baseline"
  /\ Serving
  /\ IF claim[e] = b
       THEN LeaveClaim(e, seen[b][e].life)
       ELSE UNCHANGED <<life, claim, expired>>
  /\ Report(b, "ERROR")
  /\ UNCHANGED <<active, ready, plans, outcome, newEntry, wire, process>>

\* The fence of startForClaim and of the outcome.
HoldsClaim(b) == claim[row[b]] = b

\* startForClaim renews the lease and the create request leaves; or the claim is gone.
StartAttempt(b) ==
  LET e == row[b] IN
  /\ stage[b] = "baseline"
  /\ Serving
  /\ IF HoldsClaim(b)
       THEN /\ outcome' = [outcome EXCEPT ![b][e] = "open"]
            /\ expired' = [expired EXCEPT ![e] = FALSE]
            /\ wire'    = [wire EXCEPT ![b][e] = "sent"]
            /\ Await(b, "creating")
       ELSE /\ Report(b, "ERROR")
            /\ UNCHANGED <<outcome, expired, wire>>
  /\ UNCHANGED <<life, claim, active, ready, plans, newEntry, process>>

CanCommit(b) == outcome[b][row[b]] = "open" /\ HoldsClaim(b)

\* The answer 201 is committed; the copy is read again before the row is answered.
CommitCreated(b) ==
  LET e == row[b] IN
  /\ stage[b] = "creating"
  /\ Serving /\ CanCommit(b)
  /\ wire[b][e] = "applied"
  /\ outcome'  = [outcome EXCEPT ![b][e] = "SUCCESS"]
  /\ newEntry' = [newEntry EXCEPT ![e] = b]
  /\ LeaveClaim(e, "RECREATED")
  /\ Await(b, "verifying")
  /\ UNCHANGED <<active, ready, plans, wire, process>>

\* The read, or its failure, completes the stored differences.
Verified(b) ==
  /\ stage[b] = "verifying"
  /\ Serving
  /\ Report(b, "RECREATED")
  /\ UNCHANGED <<storeVars, wire, process>>

\* A rejection is committed.
CommitRejected(b) ==
  LET e == row[b] IN
  /\ stage[b] = "creating"
  /\ Serving /\ CanCommit(b)
  /\ wire[b][e] = "rejected"
  /\ outcome' = [outcome EXCEPT ![b][e] = "FAILED"]
  /\ LeaveClaim(e, "FAILED")
  /\ Report(b, "FAILED")
  /\ UNCHANGED <<active, ready, plans, newEntry, wire, process>>

\* Wrong: a create that got no answer counts as one that failed.
StateWithoutAnswerFailed == "FAILED"

StateWithoutAnswer == "AMBIGUOUS"

\* No answer within 30 seconds, whatever Clockify did or will do; the first check follows.
CommitAmbiguous(b) ==
  LET e == row[b] IN
  /\ stage[b] = "creating"
  /\ Serving /\ CanCommit(b)
  /\ outcome' = [outcome EXCEPT ![b][e] = "AMBIGUOUS"]
  /\ LeaveClaim(e, StateWithoutAnswer)
  /\ Await(b, "checking")
  /\ UNCHANGED <<active, ready, plans, newEntry, wire, process>>

\* The first check: it finds the copy and adopts it, or the result stays unknown.
Checked(b) ==
  LET e == row[b] IN
  /\ stage[b] = "checking"
  /\ Serving
  /\ \/ /\ life[e] = "AMBIGUOUS" /\ wire[b][e] = "applied"
        /\ life'     = [life EXCEPT ![e] = "RECREATED"]
        /\ newEntry' = [newEntry EXCEPT ![e] = b]
        /\ outcome'  = [outcome EXCEPT ![b][e] = "SUCCESS"]
        /\ Report(b, "RECREATED")
        /\ UNCHANGED <<claim, expired, active, ready, plans>>
     \/ Report(b, "AMBIGUOUS") /\ UNCHANGED storeVars
  /\ UNCHANGED <<wire, process>>

\* attemptRecreation throws after startForClaim was reached: the claim was lost, or the store
\* refuses.  confirmPlan catches it.
AttemptThrows(b) ==
  /\ stage[b] \in {"baseline", "creating", "verifying"}
  /\ Report(b, AnswerForThrown)
  /\ UNCHANGED <<storeVars, wire, process>>

\* Everywhere else a store call that throws ends the whole batch with a 500.
BatchThrows(b) ==
  /\ stage[b] \in {"between", "revalidating", "baseline", "checking"}
  /\ End({b})
  /\ UNCHANGED <<storeVars, wire, process>>

-----------------------------------------------------------------------------
(* Clockify, leases, clients. *)

Answers(b, e, fate) ==
  /\ wire[b][e] = "sent"
  /\ wire' = [wire EXCEPT ![b][e] = fate]
  /\ UNCHANGED <<storeVars, process, requestVars>>

LeaseExpires(e) ==
  /\ life[e] = "RECREATING" /\ ~expired[e]
  /\ expired' = [expired EXCEPT ![e] = TRUE]
  /\ UNCHANGED <<life, claim, active, ready, plans, outcome, newEntry, wire, process,
                 requestVars>>

\* Wrong: a claim that ran out is given back whatever it had begun.
RecoverToIdle(e) ==
  /\ Serving
  /\ life[e] = "RECREATING" /\ expired[e]
  /\ LeaveClaim(e, "IDLE")
  /\ UNCHANGED <<active, ready, plans, outcome, newEntry, wire, process, requestVars>>

\* recoverExpiredClaim, on a detail view.
Recover(e) ==
  /\ Serving
  /\ life[e] = "RECREATING" /\ expired[e]
  /\ IF HasExpiredAttempt(e)
       THEN RecoverAttempt(e)
       ELSE LeaveClaim(e, "IDLE") /\ UNCHANGED outcome
  /\ UNCHANGED <<active, ready, plans, newEntry, wire, process, requestVars>>

\* The client closes its connection.  The handler does not notice.
Disconnect(b) ==
  /\ waiting[b]
  /\ waiting' = [waiting EXCEPT ![b] = FALSE]
  /\ UNCHANGED <<stage, row, todo, seen, rows, storeVars, wire, process>>

-----------------------------------------------------------------------------
(* The process: main(). *)

\* The handlers and their connections end with the process.
Exits ==
  /\ process' = "exited"
  /\ End({b \in Batches : Running(b)})
  /\ UNCHANGED <<storeVars, wire>>

\* shutdown: the listener takes no more requests and the force timer is armed.  A second signal
\* while it drains is ignored.
Signal ==
  /\ process = "running"
  /\ process' = "draining"
  /\ UNCHANGED <<requestVars, storeVars, wire>>

\* The listener calls back when its last connection is gone.
Drained == \A b \in Batches : ~waiting[b]

\* The callback of httpServer.close: the database is closed and the process is left to end by
\* itself, with the timer off and the signal handlers removed.  "undead": closing threw and the
\* database stays open.
CloseDatabase ==
  /\ process = "draining"
  /\ Drained
  /\ process' \in {"closed", "undead"}
  /\ UNCHANGED <<requestVars, storeVars, wire>>

\* Wrong: the timer is cleared with the listener.
ForceTimerNever ==
  /\ FALSE
  /\ Exits

\* Three seconds after the signal: connections and database are closed and the process exits, in
\* one stretch of code.
ForceTimer ==
  /\ process = "draining"
  /\ Exits

\* Nothing is left to run.
LoopEnds ==
  /\ process \in {"closed", "undead"}
  /\ \A b \in Batches : ~Running(b)
  /\ Exits

\* A crash, SIGKILL, or a second signal once the handlers are removed.
Killed ==
  /\ process # "exited"
  /\ Exits

\* The platform starts the next process.
Restart ==
  /\ process = "exited"
  /\ process' = "running"
  /\ UNCHANGED <<requestVars, storeVars, wire>>

-----------------------------------------------------------------------------
BatchStep(b) ==
  \/ \E e \in Entries : NextRow(b, e)
  \/ AllRowsAnswered(b)
  \/ RevalidationFails(b)
  \/ \E fit \in BOOLEAN : RevalidatedStale(b, fit)
  \/ Claims(b) \/ BaselineFails(b) \/ StartAttempt(b)
  \/ CommitCreated(b) \/ Verified(b) \/ CommitRejected(b) \/ CommitAmbiguous(b) \/ Checked(b)
  \/ AttemptThrows(b) \/ BatchThrows(b)

ProcessStep == Signal \/ CloseDatabase \/ ForceTimer \/ LoopEnds \/ Killed \/ Restart

Next ==
  \/ \E e \in Entries, fit \in BOOLEAN : Preflight(e, fit)
  \/ \E b \in Batches : Arrive(b) \/ BatchStep(b) \/ Disconnect(b)
  \/ \E b \in Batches, e \in Entries, fate \in {"applied", "rejected"} : Answers(b, e, fate)
  \/ \E e \in Entries : LeaseExpires(e) \/ Recover(e)
  \/ ProcessStep

\* The event loop runs every handler whose answer, error or timeout has come, and every timer.
Spec ==
  /\ Init /\ [][Next]_vars
  /\ \A b \in Batches : WF_vars(BatchStep(b))
  /\ WF_vars(ForceTimer)
  /\ WF_vars(LoopEnds)

-----------------------------------------------------------------------------
(* Properties. *)

\* What one row of an answer says: ERROR means "nothing was created".
RowIsTruthful(b, e) ==
  /\ rows[b][e] = "ERROR"     => wire[b][e] = "unsent"
  /\ rows[b][e] = "FAILED"    => wire[b][e] = "rejected"
  /\ rows[b][e] = "RECREATED" =>
       wire[b][e] = "applied" /\ newEntry[e] = b /\ life[e] = "RECREATED"
  /\ rows[b][e] = "AMBIGUOUS" => wire[b][e] = "unsent" \/ life[e] \notin Actionable

\* Whatever a batch reports is what happened: an ERROR row ("nothing was created") sent no
\* create, a FAILED one was rejected, a RECREATED one has its copy and the entry shows it for
\* good, and an AMBIGUOUS one whose create left keeps the entry from being recreated again.
\* That holds while other batches work on the same entries, after the client is gone, after the
\* database is closed under the handler, and in every later process.
RowsAreTruthful == \A b \in Batches, e \in Entries : RowIsTruthful(b, e)

\* Two batches, a confirmation repeated after a lost answer, a shutdown or a crash in the middle
\* of a batch: Clockify never gets a second create for an entry whose first one it has accepted.
OneCopyEach ==
  \A e \in Entries, b, c \in Batches :
    wire[b][e] = "applied" /\ wire[c][e] = "applied" => b = c

\* After a signal the process ends, even if a client holds its connection for ever.
ExitsAfterSignal == (process = "draining") ~> (process = "exited")
=============================================================================
