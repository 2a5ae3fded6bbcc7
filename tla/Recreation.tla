----------------------------- MODULE Recreation -----------------------------
(***************************************************************************)
(* The recreation protocol: what RestoreTime does between the moment a     *)
(* user confirms a plan and the moment the deleted time entry is known to  *)
(* be recreated, rejected, or "result unknown".                            *)
(*                                                                         *)
(* One action is one stretch of code between two awaits.  A store call is  *)
(* one immediate SQLite transaction, so it is atomic; everything else of a *)
(* request handler interleaves with every other handler, of this process   *)
(* or of another process on the same database.  Handlers keep in `job`     *)
(* what the code keeps in local variables, so a value read before an await *)
(* is stale when it is used after it.                                      *)
(*                                                                         *)
(* Time is abstract here: a lease may run out at any moment, a check may   *)
(* be throttled or may take over an older one whenever the code has a      *)
(* throttle to apply.  The clock itself is not part of this module.        *)
(***************************************************************************)
EXTENDS Naturals, FiniteSets

CONSTANTS
  Entries,        \* rows of recoverable_entries (one installation, one owner)
  Handlers,       \* request handlers, of any number of processes
  PlanIds,        \* randomUUID() values for recreation_plans.id
  Tokens,         \* randomUUID() values for claim_token = recreation_attempts.id
  ClockifyIds,    \* ids Clockify can give a time entry
  Fingerprints,   \* what fingerprintMatches compares
  FingerprintOf,  \* the fingerprint of each entry's planned request
  MinChecks,      \* MARK_NOT_CREATED_MIN_CHECKS
  LegacyOutcomes, \* outcomes an older release can have left on a RECREATING row
  LegacyPlans,    \* plan ids an older release can have left without presentation
  None            \* SQL NULL, and "no value" in a handler

ASSUME FingerprintAssumption == FingerprintOf \in [Entries -> Fingerprints]
ASSUME MinChecksAssumption == MinChecks \in Nat \ {0}
ASSUME LegacyAssumption ==
  /\ LegacyOutcomes \subseteq {"SUCCESS", "FAILED", "AMBIGUOUS"}
  /\ LegacyPlans \subseteq PlanIds
ASSUME NoneAssumption ==
  /\ None \notin Entries /\ None \notin Handlers /\ None \notin PlanIds
  /\ None \notin Tokens /\ None \notin ClockifyIds /\ None \notin Fingerprints
\* A baseline that is NULL is not a list.
ASSUME NullListAssumption == \A list \in SUBSET ClockifyIds : None # list

VARIABLES
  (* recoverable_entries *)
  life,          \* lifecycle_state
  claimToken,    \* claim_token
  leaseExpired,  \* claim_expires_at <= now, while RECREATING
  newEntryId,    \* new_entry_id
  (* recreation_plans *)
  planStatus,    \* status; "unborn" and "deleted": no row
  planEntry,     \* recoverable_entry_id
  (* recreation_attempts *)
  outcome,       \* outcome; "unstarted": no row, "open": NULL
  attemptEntry,  \* recoverable_entry_id
  attemptPlan,   \* plan_id
  attemptNewId,  \* new_entry_id
  baseline,      \* baseline_json
  latest,        \* per entry, the attempt with the highest rowid
  evidence,      \* reconcile_json without its run: the last completed checks
  run,           \* reconcile_json.runId: the handler whose check is in flight
  (* Clockify *)
  look,          \* the fingerprint of each existing time entry
  origin,        \* the attempt whose create made it, None for anybody else
  wire,          \* what became of each attempt's create request
  (* request handlers *)
  pc, job,
  (* history *)
  issued,        \* claim tokens handed out so far
  marked,        \* attempts the user declared "not created"
  snapshot       \* the baseline each attempt started with, never cleared

entryVars    == <<life, claimToken, leaseExpired, newEntryId>>
planVars     == <<planStatus, planEntry>>
rowVars      == <<attemptEntry, attemptPlan, latest>>
evidenceVars == <<baseline, evidence, run>>
attemptVars  == <<outcome, attemptNewId, rowVars, evidenceVars>>
remoteVars   == <<look, origin, wire>>
handlerVars  == <<pc, job>>
historyVars  == <<issued, marked, snapshot>>
storeVars    == <<entryVars, planVars, attemptVars>>
vars == <<storeVars, remoteVars, handlerVars, historyVars>>

States     == {"IDLE", "RECREATING", "RECREATED", "FAILED", "AMBIGUOUS", "DISMISSED"}
Actionable == {"IDLE", "FAILED"}
Outcomes   == {"unstarted", "open", "SUCCESS", "FAILED", "AMBIGUOUS"}
Evidence   == [checks : 0 .. MinChecks, candidates : SUBSET ClockifyIds, truncated : BOOLEAN]
Stages     == {"idle", "revalidating", "readBaseline", "startAttempt", "creating",
               "beginCheck", "listing", "deciding"}
Job == [entry : Entries \cup {None}, plan : PlanIds \cup {None},
        prior : Actionable \cup {None}, token : Tokens \cup {None},
        base : SUBSET ClockifyIds, found : SUBSET ClockifyIds,
        pick : ClockifyIds \cup {None}]

\* The local variables of a handler that confirms a plan, of one that checks, and of none.
ConfirmJob(e, p, prior, t, base) ==
  [entry |-> e, plan |-> p, prior |-> prior, token |-> t, base |-> base, found |-> {}, pick |-> None]
CheckJob(e, t, base, found, pick) ==
  [entry |-> e, plan |-> None, prior |-> None, token |-> t, base |-> base, found |-> found,
   pick |-> pick]
NoJob == CheckJob(None, None, {}, {}, None)

-----------------------------------------------------------------------------
(* Operators on the store and on Clockify.  An operator whose comment      *)
(* starts with "Wrong:" is a plausible bug; putting it in the place of the *)
(* operator after it must make a property fail.                            *)

Existing == {c \in ClockifyIds : look[c] # None}

Attempts(e) == {a \in Tokens : outcome[a] # "unstarted" /\ attemptEntry[a] = e}

\* Wrong: the index is missing.
LinkedElsewhereNever(c, e) == FALSE

\* The partial unique index on (workspace_id, new_entry_id).
LinkedElsewhere(c, e) == \E f \in Entries \ {e} : newEntryId[f] = c

\* The claim predicate of claimWhileLocked.
Claimable(e) ==
  \/ life[e] \in Actionable
  \/ life[e] = "RECREATING" /\ leaseExpired[e]

\* Wrong: any claim will do.
HoldsAnyClaim(e, t) == life[e] = "RECREATING"

\* The fence of setRecreated, setFailed, setAmbiguous, releaseClaim and startForClaim.
HoldsClaim(e, t) == claimToken[e] = t

\* Wrong: an answer that comes after the recovery overrides it.
CanCommitLate(e, t) == outcome[t] \in {"open", "AMBIGUOUS"}

\* The condition finishUnfinished and the fenced transition share.
CanCommit(e, t) == outcome[t] = "open" /\ HoldsClaim(e, t)

\* Wrong: every expired claim is treated as one that sent nothing.
HasExpiredAttemptNever(e) == FALSE

\* recoverExpiredAttempt: an expired claim that has a durable attempt.
HasExpiredAttempt(e) ==
  /\ life[e] = "RECREATING"
  /\ leaseExpired[e]
  /\ claimToken[e] \in Attempts(e)

\* attempt.baseline ?? []
BaselineRead(a) == IF baseline[a] = None THEN {} ELSE baseline[a]

\* Wrong: the baseline is not subtracted.
MatchesAnyAge(e, base) == {c \in Existing : look[c] = FingerprintOf[e]}

\* matchCandidates: baseline delta, then fingerprint filter.
Matches(e, base) ==
  {c \in Existing \ base : look[c] = FingerprintOf[e]}

\* reconcileRunOwnedBy
OwnsRun(r, a) == run[a] = r

\* The last conjuncts of adopt and of beginReconcile's row lookup.
CurrentAmbiguous(e, a) == life[e] = "AMBIGUOUS" /\ latest[e] = a

\* markNotCreatedAllowed without its ten-minute window.
MarkAllowed(a) ==
  /\ evidence[a] # None
  /\ run[a] = None
  /\ ~evidence[a].truncated
  /\ evidence[a].candidates = {}
  /\ evidence[a].checks >= MinChecks

\* Wrong: the entry is missing from the WHERE clause.
ClearAllEvidence(e) ==
  /\ baseline' = [a \in Tokens |-> None]
  /\ evidence' = [a \in Tokens |-> None]
  /\ run'      = [a \in Tokens |-> None]

\* clearTransientEvidenceForEntry.
ClearEvidence(e) ==
  /\ baseline' = [a \in Tokens |-> IF attemptEntry[a] = e THEN None ELSE baseline[a]]
  /\ evidence' = [a \in Tokens |-> IF attemptEntry[a] = e THEN None ELSE evidence[a]]
  /\ run'      = [a \in Tokens |-> IF attemptEntry[a] = e THEN None ELSE run[a]]

\* A transition that leaves RECREATING clears the claim and its lease.
LeaveClaim(e, state) ==
  /\ life'         = [life EXCEPT ![e] = state]
  /\ claimToken'   = [claimToken EXCEPT ![e] = None]
  /\ leaseExpired' = [leaseExpired EXCEPT ![e] = FALSE]

Finish(r) ==
  /\ pc'  = [pc EXCEPT ![r] = "idle"]
  /\ job' = [job EXCEPT ![r] = NoJob]

-----------------------------------------------------------------------------
(* Plans. *)

\* Wrong: the state is only checked before the Clockify reads.
AcceptsAnyPlan(e) == TRUE

\* createActive looks at the entry again under the write lock.
AcceptsPlan(e) == life[e] \in Actionable

\* Wrong: plans with an attempt are pruned as well.
PrunedWithAttempt(p) == planStatus[p] \in {"STALE", "CONSUMED"}

\* createActive prunes obsolete plans without attempts, retires the ACTIVE one and inserts.
Pruned(p) ==
  planStatus[p] \in {"STALE", "CONSUMED"} /\ \A a \in Tokens : attemptPlan[a] # p

CreateActive(e, q) ==
  /\ AcceptsPlan(e)
  /\ planStatus[q] = "unborn"
  /\ planEntry'  = [planEntry EXCEPT ![q] = e]
  /\ planStatus' =
       [p \in PlanIds |->
          IF p = q THEN "ACTIVE"
          ELSE IF planEntry[p] = e /\ Pruned(p) THEN "deleted"
          ELSE IF planEntry[p] = e /\ planStatus[p] = "ACTIVE" THEN "STALE"
          ELSE planStatus[p]]

\* handlePreflight and handleBulkPreflight: the guard that counts is createActive's.
Preflight(e, q) ==
  /\ CreateActive(e, q)
  /\ UNCHANGED <<entryVars, attemptVars, remoteVars, handlerVars, historyVars>>

\* A legacy ACTIVE plan without presentation is retired instead of confirmed.
RetireLegacyPlan(p) ==
  /\ p \in LegacyPlans
  /\ planStatus[p] = "ACTIVE"
  /\ planStatus' = [planStatus EXCEPT ![p] = "STALE"]
  /\ UNCHANGED <<planEntry, entryVars, attemptVars, remoteVars, handlerVars, historyVars>>

-----------------------------------------------------------------------------
(* Confirming a plan: confirmPlan and attemptRecreation. *)

\* The plan and the entry are read; revalidation awaits Clockify.
ConfirmLoad(r, p) ==
  /\ pc[r] = "idle"
  /\ planStatus[p] = "ACTIVE"
  /\ p \notin LegacyPlans
  /\ LET e == planEntry[p] IN
       /\ life[e] \in Actionable
       /\ job' = [job EXCEPT ![r] = ConfirmJob(e, p, life[e], None, {})]
  /\ pc' = [pc EXCEPT ![r] = "revalidating"]
  /\ UNCHANGED <<storeVars, remoteVars, historyVars>>

\* Revalidation found a different outcome: a fresh plan replaces the confirmed one.
RevalidatedStale(r, q) ==
  /\ pc[r] = "revalidating"
  /\ CreateActive(job[r].entry, q)
  /\ Finish(r)
  /\ UNCHANGED <<entryVars, attemptVars, remoteVars, historyVars>>

\* claimForActivePlan: the claim and the plan's consumption are one transaction.
Claim(r, t) ==
  LET e == job[r].entry
      p == job[r].plan
  IN
  /\ pc[r] = "revalidating"
  /\ t \notin issued
  /\ planStatus[p] = "ACTIVE"
  /\ ~HasExpiredAttempt(e)
  /\ Claimable(e)
  /\ life'         = [life EXCEPT ![e] = "RECREATING"]
  /\ claimToken'   = [claimToken EXCEPT ![e] = t]
  /\ leaseExpired' = [leaseExpired EXCEPT ![e] = FALSE]
  /\ planStatus'   = [planStatus EXCEPT ![p] = "CONSUMED"]
  /\ issued'       = issued \cup {t}
  /\ job'          = [job EXCEPT ![r] = ConfirmJob(e, p, job[r].prior, t, {})]
  /\ pc'           = [pc EXCEPT ![r] = "readBaseline"]
  /\ UNCHANGED <<newEntryId, planEntry, attemptVars, remoteVars, marked, snapshot>>

\* recoverExpiredAttempt on an entry that HasExpiredAttempt.
RecoverAttempt(e) ==
  LET a == claimToken[e] IN
  \/ /\ outcome[a] = "SUCCESS"
     /\ ~LinkedElsewhere(attemptNewId[a], e)
     /\ LeaveClaim(e, "RECREATED")
     /\ newEntryId' = [newEntryId EXCEPT ![e] = attemptNewId[a]]
     /\ ClearEvidence(e)
     /\ UNCHANGED outcome
  \/ /\ outcome[a] = "FAILED"
     /\ LeaveClaim(e, "FAILED")
     /\ ClearEvidence(e)
     /\ UNCHANGED <<newEntryId, outcome>>
  \/ /\ outcome[a] \in {"open", "AMBIGUOUS"}
     /\ LeaveClaim(e, "AMBIGUOUS")
     /\ outcome' = [outcome EXCEPT ![a] = "AMBIGUOUS"]
     /\ UNCHANGED <<newEntryId, evidenceVars>>

\* The plan is gone, or the entry cannot be claimed.  An expired attempt is recovered on the way.
ClaimRefused(r) ==
  LET e == job[r].entry
      p == job[r].plan
  IN
  /\ pc[r] = "revalidating"
  /\ IF planStatus[p] = "ACTIVE" /\ HasExpiredAttempt(e)
       THEN RecoverAttempt(e)
       ELSE /\ planStatus[p] # "ACTIVE" \/ ~Claimable(e)
            /\ UNCHANGED <<entryVars, outcome, evidenceVars>>
  /\ Finish(r)
  /\ UNCHANGED <<planVars, attemptNewId, rowVars, remoteVars, historyVars>>

\* The baseline list is read at Clockify; its answer is still to arrive.
ReadBaseline(r) ==
  /\ pc[r] = "readBaseline"
  /\ job' = [job EXCEPT ![r] = ConfirmJob(job[r].entry, job[r].plan, job[r].prior,
                                          job[r].token, Existing)]
  /\ pc'  = [pc EXCEPT ![r] = "startAttempt"]
  /\ UNCHANGED <<storeVars, remoteVars, historyVars>>

\* The baseline read failed or was truncated: releaseClaim puts back what confirmPlan read.
BaselineFails(r) ==
  LET e == job[r].entry IN
  /\ pc[r] = "readBaseline"
  /\ IF HoldsClaim(e, job[r].token)
       THEN LeaveClaim(e, job[r].prior)
       ELSE UNCHANGED <<life, claimToken, leaseExpired>>
  /\ Finish(r)
  /\ UNCHANGED <<newEntryId, planVars, attemptVars, remoteVars, historyVars>>

\* startForClaim, then the create request leaves.
StartAttempt(r) ==
  LET e == job[r].entry
      t == job[r].token
  IN
  /\ pc[r] = "startAttempt"
  /\ life[e] = "RECREATING"
  /\ HoldsClaim(e, t)
  /\ leaseExpired' = [leaseExpired EXCEPT ![e] = FALSE]
  /\ outcome'      = [outcome EXCEPT ![t] = "open"]
  /\ attemptEntry' = [attemptEntry EXCEPT ![t] = e]
  /\ attemptPlan'  = [attemptPlan EXCEPT ![t] = job[r].plan]
  /\ baseline'     = [baseline EXCEPT ![t] = job[r].base]
  /\ latest'       = [latest EXCEPT ![e] = t]
  /\ wire'         = [wire EXCEPT ![t] = "sent"]
  /\ snapshot'     = [snapshot EXCEPT ![t] = job[r].base]
  /\ pc'           = [pc EXCEPT ![r] = "creating"]
  /\ UNCHANGED <<life, claimToken, newEntryId, planVars, attemptNewId, evidence, run,
                 look, origin, job, issued, marked>>

\* PreWriteClaimChangedError: the lease was recovered while the baseline was read.
PreWriteChanged(r) ==
  /\ pc[r] = "startAttempt"
  /\ ~(life[job[r].entry] = "RECREATING" /\ HoldsClaim(job[r].entry, job[r].token))
  /\ Finish(r)
  /\ UNCHANGED <<storeVars, remoteVars, historyVars>>

\* A 201 arrives and commits.
CommitCreated(r, c) ==
  LET e == job[r].entry
      t == job[r].token
  IN
  /\ pc[r] = "creating"
  /\ wire[t] = "applied" /\ origin[c] = t
  /\ CanCommit(e, t)
  /\ ~LinkedElsewhere(c, e)
  /\ outcome'      = [outcome EXCEPT ![t] = "SUCCESS"]
  /\ attemptNewId' = [attemptNewId EXCEPT ![t] = c]
  /\ LeaveClaim(e, "RECREATED")
  /\ newEntryId'   = [newEntryId EXCEPT ![e] = c]
  /\ ClearEvidence(e)
  /\ Finish(r)
  /\ UNCHANGED <<planVars, rowVars, remoteVars, historyVars>>

\* A 4xx arrives and commits.
CommitRejected(r) ==
  LET e == job[r].entry
      t == job[r].token
  IN
  /\ pc[r] = "creating"
  /\ wire[t] = "rejected"
  /\ CanCommit(e, t)
  /\ outcome' = [outcome EXCEPT ![t] = "FAILED"]
  /\ LeaveClaim(e, "FAILED")
  /\ ClearEvidence(e)
  /\ Finish(r)
  /\ UNCHANGED <<newEntryId, planVars, attemptNewId, rowVars, remoteVars, historyVars>>

\* The answer is lost, whatever happened to the request; the first check follows at once.
CommitAmbiguous(r) ==
  LET e == job[r].entry
      t == job[r].token
  IN
  /\ pc[r] = "creating"
  /\ CanCommit(e, t)
  /\ outcome' = [outcome EXCEPT ![t] = "AMBIGUOUS"]
  /\ LeaveClaim(e, "AMBIGUOUS")
  /\ pc'  = [pc EXCEPT ![r] = "beginCheck"]
  /\ job' = [job EXCEPT ![r] = CheckJob(e, t, BaselineRead(t), {}, None)]
  /\ UNCHANGED <<newEntryId, planVars, attemptNewId, rowVars, evidenceVars, remoteVars,
                 historyVars>>

\* commitClaimedOutcome throws and rolls back: the claim is lost, or the unique index objects.
CommitThrows(r) ==
  LET e == job[r].entry
      t == job[r].token
  IN
  /\ pc[r] = "creating"
  /\ \/ ~CanCommit(e, t)
     \/ \E c \in Existing : origin[c] = t /\ LinkedElsewhere(c, e)
  /\ Finish(r)
  /\ UNCHANGED <<storeVars, remoteVars, historyVars>>

\* A refused or failed request that touches nothing, and a crash of the process at any await.
Abandon(r) ==
  /\ pc[r] # "idle"
  /\ Finish(r)
  /\ UNCHANGED <<storeVars, remoteVars, historyVars>>

-----------------------------------------------------------------------------
(* Leases. *)

LeaseExpires(e) ==
  /\ life[e] = "RECREATING"
  /\ ~leaseExpired[e]
  /\ leaseExpired' = [leaseExpired EXCEPT ![e] = TRUE]
  /\ UNCHANGED <<life, claimToken, newEntryId, planVars, attemptVars, remoteVars,
                 handlerVars, historyVars>>

\* Wrong: only claims without an attempt are recovered.
RecoverClaimWithoutAttempt(e) ==
  /\ life[e] = "RECREATING"
  /\ leaseExpired[e]
  /\ ~HasExpiredAttempt(e)
  /\ LeaveClaim(e, "IDLE")
  /\ UNCHANGED <<newEntryId, planVars, attemptVars, remoteVars, handlerVars, historyVars>>

\* recoverExpiredClaim, on a detail view.
RecoverExpiredClaim(e) ==
  /\ life[e] = "RECREATING"
  /\ leaseExpired[e]
  /\ IF HasExpiredAttempt(e)
       THEN RecoverAttempt(e)
       ELSE LeaveClaim(e, "IDLE") /\ UNCHANGED <<newEntryId, outcome, evidenceVars>>
  /\ UNCHANGED <<planVars, attemptNewId, rowVars, remoteVars, handlerVars, historyVars>>

-----------------------------------------------------------------------------
(* Checking an AMBIGUOUS entry: handleReconcile, the lazy check of          *)
(* handleDetail, and handleResolveAmbiguous when `pick` names the entry     *)
(* the user chose.                                                          *)

CheckLoad(r, e, pick) ==
  /\ pc[r] = "idle"
  /\ life[e] = "AMBIGUOUS"
  /\ latest[e] # None
  /\ pc'  = [pc EXCEPT ![r] = "beginCheck"]
  /\ job' = [job EXCEPT ![r] = CheckJob(e, latest[e], BaselineRead(latest[e]), {}, pick)]
  /\ UNCHANGED <<storeVars, remoteVars, historyVars>>

\* beginReconcile "started": no live run, or one old enough to be taken over.
CheckBegins(r) ==
  LET a == job[r].token IN
  /\ pc[r] = "beginCheck"
  /\ CurrentAmbiguous(job[r].entry, a)
  /\ run' = [run EXCEPT ![a] = r]
  /\ pc'  = [pc EXCEPT ![r] = "listing"]
  /\ UNCHANGED <<entryVars, planVars, outcome, attemptNewId, rowVars, baseline, evidence,
                 remoteVars, job, historyVars>>

\* beginReconcile "changed" or "throttled" ends the request as Abandon does.

\* The list (or, for a pick, the one entry) is read at Clockify.
CheckReads(r) ==
  LET matches == Matches(job[r].entry, job[r].base)
      pick    == job[r].pick
  IN
  /\ pc[r] = "listing"
  /\ job' = [job EXCEPT ![r] =
               CheckJob(job[r].entry, job[r].token, job[r].base,
                        IF pick = None THEN matches ELSE matches \cap {pick}, pick)]
  /\ pc'  = [pc EXCEPT ![r] = "deciding"]
  /\ UNCHANGED <<storeVars, remoteVars, historyVars>>

\* completeReconcile: nothing unless the run is still this handler's.
Completed(a, candidates, truncated) ==
  LET prior == IF evidence[a] = None
                 THEN [checks |-> 0, candidates |-> {}, truncated |-> FALSE]
                 ELSE evidence[a]
  IN [checks |-> IF truncated \/ prior.checks = MinChecks THEN prior.checks
                 ELSE prior.checks + 1,
      candidates |-> prior.candidates \cup candidates,
      truncated |-> truncated]

CompleteCheck(r, candidates, truncated) ==
  LET a == job[r].token IN
  IF OwnsRun(r, a)
    THEN /\ evidence' = [evidence EXCEPT ![a] = Completed(a, candidates, truncated)]
         /\ run' = [run EXCEPT ![a] = None]
    ELSE UNCHANGED <<evidence, run>>

\* cancelReconcile: the run goes, the earlier evidence stays.
CancelCheck(r) ==
  LET a == job[r].token IN
  IF OwnsRun(r, a)
    THEN run' = [run EXCEPT ![a] = None] /\ UNCHANGED evidence
    ELSE UNCHANGED <<evidence, run>>

CheckTruncated(r) ==
  /\ pc[r] = "listing"
  /\ job[r].pick = None
  /\ CompleteCheck(r, {}, TRUE)
  /\ Finish(r)
  /\ UNCHANGED <<entryVars, planVars, outcome, attemptNewId, rowVars, baseline,
                 remoteVars, historyVars>>

\* A failed read; for a pick also an entry that does not match or was there before.
CheckCancelled(r) ==
  /\ \/ pc[r] = "listing"
     \/ pc[r] = "deciding" /\ job[r].pick # None /\ job[r].found = {}
  /\ CancelCheck(r)
  /\ Finish(r)
  /\ UNCHANGED <<entryVars, planVars, outcome, attemptNewId, rowVars, baseline,
                 remoteVars, historyVars>>

\* adopt refuses a lost run, a changed entry or attempt, and a linked Clockify entry.
CanAdopt(r, c) ==
  /\ OwnsRun(r, job[r].token)
  /\ CurrentAmbiguous(job[r].entry, job[r].token)
  /\ ~LinkedElsewhere(c, job[r].entry)

Adopt(r, c) ==
  LET e == job[r].entry
      a == job[r].token
  IN
  /\ pc[r] = "deciding"
  /\ job[r].found = {c}
  /\ CanAdopt(r, c)
  /\ life'         = [life EXCEPT ![e] = "RECREATED"]
  /\ newEntryId'   = [newEntryId EXCEPT ![e] = c]
  /\ outcome'      = [outcome EXCEPT ![a] = "SUCCESS"]
  /\ attemptNewId' = [attemptNewId EXCEPT ![a] = c]
  /\ ClearEvidence(e)
  /\ Finish(r)
  /\ UNCHANGED <<claimToken, leaseExpired, planVars, rowVars, remoteVars, historyVars>>

\* No match, several, or one that adopt refused: recorded as candidates.  A refused pick
\* only gives its run back.
NotAdopted(r) ==
  /\ pc[r] = "deciding"
  /\ ~\E c \in job[r].found : job[r].found = {c} /\ CanAdopt(r, c)
  /\ IF job[r].pick = None THEN CompleteCheck(r, job[r].found, FALSE) ELSE CancelCheck(r)
  /\ Finish(r)
  /\ UNCHANGED <<entryVars, planVars, outcome, attemptNewId, rowVars, baseline,
                 remoteVars, historyVars>>

\* handleMarkNotCreated: the check and the transition are one transaction.
MarkNotCreated(e) ==
  /\ life[e] = "AMBIGUOUS"
  /\ latest[e] # None
  /\ MarkAllowed(latest[e])
  /\ life'   = [life EXCEPT ![e] = "IDLE"]
  /\ marked' = marked \cup {latest[e]}
  /\ ClearEvidence(e)
  /\ UNCHANGED <<claimToken, leaseExpired, newEntryId, planVars, outcome, attemptNewId,
                 rowVars, remoteVars, handlerVars, issued, snapshot>>

-----------------------------------------------------------------------------
(* Dismissing. *)

Dismiss(e) ==
  /\ life[e] \in Actionable
  /\ life' = [life EXCEPT ![e] = "DISMISSED"]
  /\ UNCHANGED <<claimToken, leaseExpired, newEntryId, planVars, attemptVars, remoteVars,
                 handlerVars, historyVars>>

Undismiss(e) ==
  /\ life[e] = "DISMISSED"
  /\ life' = [life EXCEPT ![e] = "IDLE"]
  /\ UNCHANGED <<claimToken, leaseExpired, newEntryId, planVars, attemptVars, remoteVars,
                 handlerVars, historyVars>>

-----------------------------------------------------------------------------
(* Clockify.  A request that was sent can take effect, or be rejected, at  *)
(* any later time or never: also after its handler gave up or crashed.     *)

ClockifyCreates(a, c) ==
  /\ wire[a] = "sent"
  /\ look[c] = None
  /\ look'   = [look EXCEPT ![c] = FingerprintOf[attemptEntry[a]]]
  /\ origin' = [origin EXCEPT ![c] = a]
  /\ wire'   = [wire EXCEPT ![a] = "applied"]
  /\ UNCHANGED <<storeVars, handlerVars, historyVars>>

ClockifyRejects(a) ==
  /\ wire[a] = "sent"
  /\ wire' = [wire EXCEPT ![a] = "rejected"]
  /\ UNCHANGED <<look, origin, storeVars, handlerVars, historyVars>>

\* Somebody enters the same work by hand.
ManualEntry(c, f) ==
  /\ look[c] = None
  /\ look' = [look EXCEPT ![c] = f]
  /\ UNCHANGED <<origin, wire, storeVars, handlerVars, historyVars>>

-----------------------------------------------------------------------------
(* Specification. *)

\* A row an older release, whose outcome writes were not atomic, can have left behind.
HalfCommitted ==
  [entry : Entries, token : Tokens, plan : PlanIds \ LegacyPlans,
   outcome : LegacyOutcomes, made : ClockifyIds]

\* All rows as the webhook inserted them, but for one half-committed row h if there is one.
InitRows(h) ==
  LET Half(e)  == h # None /\ h.entry = e
      Row(t)   == h # None /\ h.token = t
      Spent(p) == h # None /\ h.plan = p
      Made(c)  == h # None /\ h.made = c /\ h.outcome = "SUCCESS"
  IN
  /\ life         = [e \in Entries |-> IF Half(e) THEN "RECREATING" ELSE "IDLE"]
  /\ claimToken   = [e \in Entries |-> IF Half(e) THEN h.token ELSE None]
  /\ leaseExpired = [e \in Entries |-> Half(e)]
  /\ newEntryId   = [e \in Entries |-> None]
  /\ planStatus   = [p \in PlanIds |-> IF p \in LegacyPlans THEN "ACTIVE"
                                       ELSE IF Spent(p) THEN "CONSUMED" ELSE "unborn"]
  /\ \E owner \in Entries :
       planEntry   = [p \in PlanIds |-> IF p \in LegacyPlans THEN owner
                                       ELSE IF Spent(p) THEN h.entry ELSE None]
  /\ outcome      = [t \in Tokens |-> IF Row(t) THEN h.outcome ELSE "unstarted"]
  /\ attemptEntry = [t \in Tokens |-> IF Row(t) THEN h.entry ELSE None]
  /\ attemptPlan  = [t \in Tokens |-> IF Row(t) THEN h.plan ELSE None]
  /\ attemptNewId = [t \in Tokens |-> IF Row(t) /\ h.outcome = "SUCCESS" THEN h.made ELSE None]
  /\ baseline     = [t \in Tokens |-> IF Row(t) /\ h.outcome = "AMBIGUOUS" THEN {} ELSE None]
  /\ latest       = [e \in Entries |-> IF Half(e) THEN h.token ELSE None]
  /\ evidence     = [t \in Tokens |-> None]
  /\ run          = [t \in Tokens |-> None]
  /\ look         = [c \in ClockifyIds |-> IF Made(c) THEN FingerprintOf[h.entry] ELSE None]
  /\ origin       = [c \in ClockifyIds |-> IF Made(c) THEN h.token ELSE None]
  /\ wire         = [t \in Tokens |-> IF ~Row(t) THEN "none"
                                      ELSE IF h.outcome = "SUCCESS" THEN "applied"
                                      ELSE IF h.outcome = "FAILED" THEN "rejected" ELSE "sent"]
  /\ pc           = [r \in Handlers |-> "idle"]
  /\ job          = [r \in Handlers |-> NoJob]
  /\ issued       = {t \in Tokens : Row(t)}
  /\ marked       = {}
  /\ snapshot     = [t \in Tokens |-> {}]

Init == \E h \in HalfCommitted \cup {None} : InitRows(h)

HandlerStep(r) ==
  \/ \E p \in PlanIds : ConfirmLoad(r, p)
  \/ \E q \in PlanIds : RevalidatedStale(r, q)
  \/ \E t \in Tokens : Claim(r, t)
  \/ ClaimRefused(r)
  \/ ReadBaseline(r)
  \/ BaselineFails(r)
  \/ StartAttempt(r)
  \/ PreWriteChanged(r)
  \/ \E c \in ClockifyIds : CommitCreated(r, c)
  \/ CommitRejected(r)
  \/ CommitAmbiguous(r)
  \/ CommitThrows(r)
  \/ Abandon(r)
  \/ \E e \in Entries, c \in ClockifyIds \cup {None} : CheckLoad(r, e, c)
  \/ CheckBegins(r)
  \/ CheckReads(r)
  \/ CheckTruncated(r)
  \/ CheckCancelled(r)
  \/ \E c \in ClockifyIds : Adopt(r, c)
  \/ NotAdopted(r)

StoreStep ==
  \/ \E e \in Entries, q \in PlanIds : Preflight(e, q)
  \/ \E p \in PlanIds : RetireLegacyPlan(p)
  \/ \E e \in Entries :
       \/ LeaseExpires(e)
       \/ RecoverExpiredClaim(e)
       \/ MarkNotCreated(e)
       \/ Dismiss(e)
       \/ Undismiss(e)

ClockifyStep ==
  \/ \E a \in Tokens, c \in ClockifyIds : ClockifyCreates(a, c)
  \/ \E a \in Tokens : ClockifyRejects(a)
  \/ \E c \in ClockifyIds, f \in Fingerprints : ManualEntry(c, f)

Next == (\E r \in Handlers : HandlerStep(r)) \/ StoreStep \/ ClockifyStep

Spec == Init /\ [][Next]_vars

\* The clock runs, and somebody keeps opening the detail view of an entry that looks busy.
FairSpec ==
  /\ Spec
  /\ \A e \in Entries : WF_vars(LeaseExpires(e)) /\ WF_vars(RecoverExpiredClaim(e))

-----------------------------------------------------------------------------
(* Properties. *)

\* Every column and every local variable holds a value of its type.
TypeOK ==
  /\ life \in [Entries -> States]
  /\ claimToken \in [Entries -> Tokens \cup {None}]
  /\ leaseExpired \in [Entries -> BOOLEAN]
  /\ newEntryId \in [Entries -> ClockifyIds \cup {None}]
  /\ planStatus \in [PlanIds -> {"unborn", "ACTIVE", "STALE", "CONSUMED", "deleted"}]
  /\ planEntry \in [PlanIds -> Entries \cup {None}]
  /\ outcome \in [Tokens -> Outcomes]
  /\ attemptEntry \in [Tokens -> Entries \cup {None}]
  /\ attemptPlan \in [Tokens -> PlanIds \cup {None}]
  /\ attemptNewId \in [Tokens -> ClockifyIds \cup {None}]
  /\ baseline \in [Tokens -> (SUBSET ClockifyIds) \cup {None}]
  /\ latest \in [Entries -> Tokens \cup {None}]
  /\ evidence \in [Tokens -> Evidence \cup {None}]
  /\ run \in [Tokens -> Handlers \cup {None}]
  /\ look \in [ClockifyIds -> Fingerprints \cup {None}]
  /\ origin \in [ClockifyIds -> Tokens \cup {None}]
  /\ wire \in [Tokens -> {"none", "sent", "applied", "rejected"}]
  /\ pc \in [Handlers -> Stages]
  /\ job \in [Handlers -> Job]
  /\ issued \subseteq Tokens
  /\ marked \subseteq Tokens
  /\ snapshot \in [Tokens -> SUBSET ClockifyIds]

\* An entry is RECREATED exactly when it names its new entry, and then exactly one of its
\* attempts is a SUCCESS and names the same one (docs/08 invariant 2).  Outside RECREATED only a
\* row an older release left half committed has a SUCCESS attempt, under its own claim.
RecreatedMatchesAttempt ==
  \A e \in Entries :
    LET succeeded == {a \in Attempts(e) : outcome[a] = "SUCCESS"} IN
    IF life[e] = "RECREATED"
      THEN /\ newEntryId[e] # None
           /\ \E a \in succeeded : succeeded = {a} /\ attemptNewId[a] = newEntryId[e]
      ELSE /\ newEntryId[e] = None
           /\ succeeded # {} => life[e] = "RECREATING" /\ succeeded = {claimToken[e]}

\* While the result of an attempt is unknown the entry is either still RECREATING under that
\* attempt's claim or AMBIGUOUS with that attempt as its latest: no path makes the entry
\* actionable, and so retryable, but the user's "not created" (ADR-007).
NoBlindRetry ==
  \A e \in Entries : \A a \in Attempts(e) \ marked :
    outcome[a] \in {"open", "AMBIGUOUS"} =>
      \/ life[e] = "RECREATING" /\ claimToken[e] = a
      \/ life[e] = "AMBIGUOUS" /\ latest[e] = a /\ outcome[a] = "AMBIGUOUS"

\* Two time entries made by creates for one deleted entry exist only if the user declared one of
\* those creates "not created": crashes, late answers, lapsed leases and concurrent confirmations
\* alone never duplicate work (README, "at most one recreated entry").
DuplicateOnlyAfterMark ==
  \A c, d \in Existing :
    /\ c # d /\ origin[c] # None /\ origin[d] # None
    /\ attemptEntry[origin[c]] = attemptEntry[origin[d]]
    => origin[c] \in marked \/ origin[d] \in marked

\* An AMBIGUOUS entry still has the baseline its latest attempt started with, so the
\* `attempt.baseline ?? []` of a check never silently means "everything is new".
BaselineKept ==
  \A e \in Entries :
    life[e] = "AMBIGUOUS" =>
      latest[e] # None /\ outcome[latest[e]] = "AMBIGUOUS" /\ baseline[latest[e]] = snapshot[latest[e]]

\* A recreated entry is never linked to a time entry that was already there when the attempt
\* that recreated it took its baseline.
NothingOlderAdopted ==
  \A a \in Tokens : outcome[a] = "SUCCESS" => attemptNewId[a] \notin snapshot[a]

\* No confirmable plan coexists with a claimed, unknown or recreated entry, and no entry has two:
\* a slow preflight or revalidation cannot attach a plan behind a confirmation's back.
OnlyActionableHasPlan ==
  \A p \in PlanIds \ LegacyPlans :
    planStatus[p] = "ACTIVE" =>
      /\ life[planEntry[p]] \in Actionable \cup {"DISMISSED"}
      /\ \A q \in PlanIds \ {p} : planStatus[q] = "ACTIVE" => planEntry[q] # planEntry[p]

\* A plan is spent once and outlives what it authorised: the plan of an attempt is a CONSUMED row
\* of the same entry that no other attempt used, and so is the plan of a handler whose claim is
\* valid and whose attempt is still to be inserted.  Pruning never takes either away.
PlanUsedOnce ==
  /\ \A a \in Tokens :
       outcome[a] # "unstarted" =>
         /\ planStatus[attemptPlan[a]] = "CONSUMED"
         /\ planEntry[attemptPlan[a]] = attemptEntry[a]
         /\ \A b \in Tokens \ {a} : outcome[b] # "unstarted" => attemptPlan[b] # attemptPlan[a]
  /\ \A r \in Handlers :
       pc[r] \in {"readBaseline", "startAttempt"} /\ HoldsClaim(job[r].entry, job[r].token) =>
         /\ planStatus[job[r].plan] = "CONSUMED"
         /\ \A a \in Tokens : attemptPlan[a] # job[r].plan

\* A time entry is the recreation of one deleted entry at most, whatever two checks that see the
\* same copy decide at the same time.
AdoptionIsExclusive ==
  \A e, f \in Entries : e # f /\ newEntryId[e] # None => newEntryId[e] # newEntryId[f]

\* The outcome of an attempt is written once, except that a verified adoption turns AMBIGUOUS
\* into SUCCESS; a row never disappears.
OutcomeSettlesOnce ==
  [][\A a \in Tokens :
       outcome'[a] # outcome[a] =>
         \/ outcome[a] = "unstarted" /\ outcome'[a] = "open"
         \/ outcome[a] = "open" /\ outcome'[a] \in {"SUCCESS", "FAILED", "AMBIGUOUS"}
         \/ outcome[a] = "AMBIGUOUS" /\ outcome'[a] = "SUCCESS"]_vars

\* An entry leaves RECREATING only by the handler that holds its claim or once the lease has run
\* out: a handler that lost its claim never moves the entry somebody else has claimed since.
ClaimFencing ==
  [][\A e \in Entries :
       life[e] = "RECREATING" /\ life'[e] # "RECREATING" =>
         \/ leaseExpired[e]
         \/ \E r \in Handlers :
              /\ pc[r] \in {"readBaseline", "creating"} /\ pc'[r] # pc[r]
              /\ job[r].entry = e /\ job[r].token = claimToken[e]]_vars

\* Whatever crashed or was lost, an entry does not stay "Recreating" for ever while its detail
\* view is being opened.
ClaimsEnd == \A e \in Entries : life[e] = "RECREATING" ~> life[e] # "RECREATING"

-----------------------------------------------------------------------------
(* What documents and comments say and the code does not do. *)

\* entries.ts:557 "puts the row back into the exact state it held before the claim": what a
\* release would write is what the claim found.
ReleaseRestoresPriorState ==
  [][\A r \in Handlers :
       pc[r] = "revalidating" /\ pc'[r] = "readBaseline" => job[r].prior = life[job[r].entry]]_vars

\* docs/08 invariant 4: an entry leaves RECREATING with an attempt row or by a fenced release.
ExitHasAttempt ==
  [][\A e \in Entries :
       life[e] = "RECREATING" /\ life'[e] # "RECREATING" =>
         \/ claimToken[e] \in Attempts(e)
         \/ \E r \in Handlers :
              /\ pc[r] = "readBaseline" /\ pc'[r] = "idle"
              /\ job[r].entry = e /\ job[r].token = claimToken[e]]_vars

\* docs/11 "a manual copy inside the window yields >= 2 -> user resolves": an automatic check
\* never links a copy somebody entered by hand.
ManualCopyLeftToUser ==
  [][\A e \in Entries, r \in Handlers :
       /\ newEntryId[e] = None /\ newEntryId'[e] # None
       /\ pc[r] = "deciding" /\ pc'[r] = "idle"
       /\ job[r].entry = e /\ job[r].pick = None
       => origin[newEntryId'[e]] # None]_vars

\* recreate.ts:166 "A 201 is definitive": a time entry that a create of RestoreTime made is only
\* ever linked to the deleted entry it was made for.
CreateLinkedToItsEntry ==
  \A e \in Entries :
    newEntryId[e] # None /\ origin[newEntryId[e]] # None =>
      attemptEntry[origin[newEntryId[e]]] = e
=============================================================================
