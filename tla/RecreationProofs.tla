-------------------------- MODULE RecreationProofs --------------------------
(***************************************************************************)
(* Proofs about Recreation for any number of entries, handlers, plans,     *)
(* tokens and time entries.  Inv (module RecreationInvariant) is proved    *)
(* inductive part by part: TypeStep, CoreStep, HandlersStep and WireStep   *)
(* each have one step per action that can disturb the part.                *)
(***************************************************************************)
EXTENDS RecreationInvariant, TLAPS

-----------------------------------------------------------------------------
(* Types. *)

\* Leaving the claim keeps the types of the entry's columns.
LEMMA LeaveClaimTyped ==
  ASSUME TypeOK, NEW e \in Entries, NEW state \in States, LeaveClaim(e, state)
  PROVE  /\ life' \in [Entries -> States]
         /\ claimToken' \in [Entries -> Tokens \cup {None}]
         /\ leaseExpired' \in [Entries -> BOOLEAN]
BY DEF TypeOK, LeaveClaim

\* Clearing a column of an entry's attempts keeps its type.
LEMMA ClearedTyped ==
  ASSUME NEW S, NEW f \in [Tokens -> S \cup {None}], NEW e
  PROVE  [a \in Tokens |-> IF attemptEntry[a] = e THEN None ELSE f[a]]
           \in [Tokens -> S \cup {None}]
OBVIOUS

\* Purging the evidence of an entry keeps the types of what it clears.
LEMMA ClearEvidenceTyped ==
  ASSUME TypeOK, NEW e, ClearEvidence(e)
  PROVE  /\ baseline' \in [Tokens -> (SUBSET ClockifyIds) \cup {None}]
         /\ evidence' \in [Tokens -> Evidence \cup {None}]
         /\ run' \in [Tokens -> Handlers \cup {None}]
<1>1. /\ baseline \in [Tokens -> (SUBSET ClockifyIds) \cup {None}]
      /\ evidence \in [Tokens -> Evidence \cup {None}]
      /\ run \in [Tokens -> Handlers \cup {None}]
  BY DEF TypeOK
<1> QED
  BY <1>1, ClearedTyped, Zenon DEF ClearEvidence

\* A missing baseline is read as an empty one.
LEMMA BaselineReadTyped ==
  ASSUME TypeOK, NEW a \in Tokens PROVE BaselineRead(a) \in SUBSET ClockifyIds
<1>1. baseline[a] \in (SUBSET ClockifyIds) \cup {None}
  BY DEF TypeOK
<1>2. CASE baseline[a] = None
  BY <1>2 DEF BaselineRead
<1>3. CASE baseline[a] # None
  <2>1. BaselineRead(a) = baseline[a]
    BY <1>3 DEF BaselineRead
  <2>2. baseline[a] \in SUBSET ClockifyIds
    BY <1>1, <1>3
  <2> QED
    BY <2>1, <2>2
<1> QED
  BY <1>2, <1>3

\* A completed check yields evidence.
LEMMA CompletedTyped ==
  ASSUME TypeOK, NEW a \in Tokens, NEW candidates \in SUBSET ClockifyIds, NEW truncated \in BOOLEAN
  PROVE  Completed(a, candidates, truncated) \in Evidence
<1> DEFINE prior == IF evidence[a] = None
                      THEN [checks |-> 0, candidates |-> {}, truncated |-> FALSE]
                      ELSE evidence[a]
<1>1. evidence[a] \in Evidence \cup {None}
  BY DEF TypeOK
<1>2. prior \in Evidence
  BY <1>1, MinChecksAssumption DEF Evidence
<1>3. Completed(a, candidates, truncated) =
        [checks |-> IF truncated \/ prior.checks = MinChecks THEN prior.checks
                    ELSE prior.checks + 1,
         candidates |-> prior.candidates \cup candidates,
         truncated |-> truncated]
  BY DEF Completed
<1> HIDE DEF prior
<1> QED
  BY <1>2, <1>3, MinChecksAssumption DEF Evidence

\* Completing a check keeps the types of the evidence it writes.
LEMMA CompleteCheckTyped ==
  ASSUME TypeInv, NEW r \in Handlers, pc[r] \in Checking,
         NEW candidates \in SUBSET ClockifyIds, NEW truncated \in BOOLEAN,
         CompleteCheck(r, candidates, truncated)
  PROVE  /\ evidence' \in [Tokens -> Evidence \cup {None}]
         /\ run' \in [Tokens -> Handlers \cup {None}]
<1> DEFINE a == job[r].token
<1>1. a \in Tokens /\ evidence \in [Tokens -> Evidence \cup {None}]
      /\ run \in [Tokens -> Handlers \cup {None}]
  BY DEF TypeInv, TypeOK, JobsTyped
<1>2. Completed(a, candidates, truncated) \in Evidence
  BY <1>1, CompletedTyped DEF TypeInv
<1>3. CASE OwnsRun(r, a)
  BY <1>1, <1>2, <1>3 DEF CompleteCheck
<1>4. CASE ~OwnsRun(r, a)
  BY <1>1, <1>4 DEF CompleteCheck
<1> QED
  BY <1>3, <1>4

\* Recovering an expired attempt keeps the types, whatever outcome it settles.
LEMMA RecoverAttemptTyped ==
  ASSUME TypeOK, NEW e \in Entries, HasExpiredAttempt(e), RecoverAttempt(e)
  PROVE  /\ life' \in [Entries -> States]
         /\ claimToken' \in [Entries -> Tokens \cup {None}]
         /\ leaseExpired' \in [Entries -> BOOLEAN]
         /\ newEntryId' \in [Entries -> ClockifyIds \cup {None}]
         /\ outcome' \in [Tokens -> Outcomes]
         /\ baseline' \in [Tokens -> (SUBSET ClockifyIds) \cup {None}]
         /\ evidence' \in [Tokens -> Evidence \cup {None}]
         /\ run' \in [Tokens -> Handlers \cup {None}]
         /\ \A a \in Tokens : outcome'[a] = "unstarted" <=> outcome[a] = "unstarted"
<1> DEFINE a == claimToken[e]
<1>1. a \in Tokens /\ outcome[a] # "unstarted" /\ attemptNewId[a] \in ClockifyIds \cup {None}
  BY DEF TypeOK, HasExpiredAttempt, Attempts
<1>2. CASE outcome[a] = "SUCCESS"
  <2>1. /\ LeaveClaim(e, "RECREATED") /\ ClearEvidence(e) /\ UNCHANGED outcome
        /\ newEntryId' = [newEntryId EXCEPT ![e] = attemptNewId[a]]
    BY <1>2 DEF RecoverAttempt
  <2> QED
    BY <1>1, <2>1, LeaveClaimTyped, ClearEvidenceTyped DEF TypeOK, States
<1>3. CASE outcome[a] = "FAILED"
  <2>1. LeaveClaim(e, "FAILED") /\ ClearEvidence(e) /\ UNCHANGED <<newEntryId, outcome>>
    BY <1>3 DEF RecoverAttempt
  <2> QED
    BY <2>1, LeaveClaimTyped, ClearEvidenceTyped DEF TypeOK, States
<1>4. CASE outcome[a] \in {"open", "AMBIGUOUS"}
  <2>1. /\ LeaveClaim(e, "AMBIGUOUS") /\ UNCHANGED <<newEntryId, evidenceVars>>
        /\ outcome' = [outcome EXCEPT ![a] = "AMBIGUOUS"]
    BY <1>4 DEF RecoverAttempt
  <2> QED
    BY <1>1, <2>1, LeaveClaimTyped DEF TypeOK, States, Outcomes, evidenceVars
<1> QED
  BY <1>2, <1>3, <1>4 DEF RecoverAttempt


\* Every step keeps the types.
LEMMA TypeStep == TypeInv /\ [Next]_vars => TypeInv'
<1> SUFFICES ASSUME TypeInv, [Next]_vars PROVE TypeInv'
  OBVIOUS
<1> USE DEF TypeInv, TypeOK, JobsTyped, RowsOwned, States, Actionable, Outcomes, Stages, Job, Claiming, Checking,
            entryVars, planVars, rowVars, evidenceVars, attemptVars, remoteVars, handlerVars,
              historyVars, storeVars
<1>1. ASSUME NEW e \in Entries, NEW q \in PlanIds, Preflight(e, q)
      PROVE  TypeInv'
  BY <1>1 DEF Preflight, CreateActive, AcceptsPlan, Pruned
<1>2. ASSUME NEW p \in PlanIds, RetireLegacyPlan(p)
      PROVE  TypeInv'
  BY <1>2 DEF RetireLegacyPlan
<1>3. ASSUME NEW r \in Handlers, NEW p \in PlanIds, ConfirmLoad(r, p)
      PROVE  TypeInv'
  BY <1>3 DEF ConfirmLoad, ConfirmJob
<1>4. ASSUME NEW r \in Handlers, NEW q \in PlanIds, RevalidatedStale(r, q)
      PROVE  TypeInv'
  BY <1>4 DEF RevalidatedStale, CreateActive, AcceptsPlan, Pruned, Finish, NoJob, CheckJob
<1>5. ASSUME NEW r \in Handlers, NEW t \in Tokens, Claim(r, t)
      PROVE  TypeInv'
  BY <1>5 DEF Claim, ConfirmJob
<1>6. ASSUME NEW r \in Handlers, ClaimRefused(r)
      PROVE  TypeInv'
  <2>1. CASE planStatus[job[r].plan] = "ACTIVE" /\ HasExpiredAttempt(job[r].entry)
    <3>1. job[r].entry \in Entries /\ RecoverAttempt(job[r].entry)
      BY <1>6, <2>1 DEF ClaimRefused
    <3> QED
      BY <1>6, <2>1, <3>1, RecoverAttemptTyped DEF ClaimRefused, Finish, NoJob, CheckJob
  <2>2. CASE ~(planStatus[job[r].plan] = "ACTIVE" /\ HasExpiredAttempt(job[r].entry))
    BY <1>6, <2>2 DEF ClaimRefused, Finish, NoJob, CheckJob
  <2> QED
    BY <2>1, <2>2
<1>7. ASSUME NEW r \in Handlers, ReadBaseline(r)
      PROVE  TypeInv'
  BY <1>7 DEF ReadBaseline, ConfirmJob, Existing
<1>8. ASSUME NEW r \in Handlers, BaselineFails(r)
      PROVE  TypeInv'
  <2>1. /\ life' \in [Entries -> States]
        /\ claimToken' \in [Entries -> Tokens \cup {None}]
        /\ leaseExpired' \in [Entries -> BOOLEAN]
    <3>1. job[r].entry \in Entries /\ job[r].prior \in States
      BY <1>8 DEF BaselineFails
    <3>2. CASE HoldsClaim(job[r].entry, job[r].token)
      BY <1>8, <3>1, <3>2, LeaveClaimTyped DEF BaselineFails
    <3>3. CASE ~HoldsClaim(job[r].entry, job[r].token)
      BY <1>8, <3>3 DEF BaselineFails
    <3> QED
      BY <3>2, <3>3
  <2> QED
    BY <1>8, <2>1 DEF BaselineFails, Finish, NoJob, CheckJob
<1>9. ASSUME NEW r \in Handlers, StartAttempt(r)
      PROVE  TypeInv'
  BY <1>9 DEF StartAttempt
<1>10. ASSUME NEW r \in Handlers, PreWriteChanged(r)
      PROVE  TypeInv'
  BY <1>10 DEF PreWriteChanged, Finish, NoJob, CheckJob
<1>11. ASSUME NEW r \in Handlers, NEW c \in ClockifyIds, CommitCreated(r, c)
      PROVE  TypeInv'
  BY <1>11, LeaveClaimTyped, ClearEvidenceTyped DEF CommitCreated, Finish, NoJob, CheckJob
<1>12. ASSUME NEW r \in Handlers, CommitRejected(r)
      PROVE  TypeInv'
  BY <1>12, LeaveClaimTyped, ClearEvidenceTyped DEF CommitRejected, Finish, NoJob, CheckJob
<1>13. ASSUME NEW r \in Handlers, CommitAmbiguous(r)
      PROVE  TypeInv'
  BY <1>13, LeaveClaimTyped, BaselineReadTyped DEF CommitAmbiguous, CanCommit, CheckJob
<1>14. ASSUME NEW r \in Handlers, CommitThrows(r)
      PROVE  TypeInv'
  BY <1>14 DEF CommitThrows, Finish, NoJob, CheckJob
<1>15. ASSUME NEW r \in Handlers, Abandon(r)
      PROVE  TypeInv'
  BY <1>15 DEF Abandon, Finish, NoJob, CheckJob
<1>16. ASSUME NEW r \in Handlers, NEW e \in Entries, NEW c \in ClockifyIds \cup {None}, CheckLoad(r, e, c)
      PROVE  TypeInv'
  BY <1>16, BaselineReadTyped DEF CheckLoad, CheckJob
<1>17. ASSUME NEW r \in Handlers, CheckBegins(r)
      PROVE  TypeInv'
  BY <1>17 DEF CheckBegins
<1>18. ASSUME NEW r \in Handlers, CheckReads(r)
      PROVE  TypeInv'
  BY <1>18 DEF CheckReads, CheckJob, Matches, Existing
<1>19. ASSUME NEW r \in Handlers, CheckTruncated(r)
      PROVE  TypeInv'
  <2>1. /\ evidence' \in [Tokens -> Evidence \cup {None}]
        /\ run' \in [Tokens -> Handlers \cup {None}]
    BY <1>19, CompleteCheckTyped DEF CheckTruncated
  <2> QED
    BY <1>19, <2>1 DEF CheckTruncated, Finish, NoJob, CheckJob
<1>20. ASSUME NEW r \in Handlers, CheckCancelled(r)
      PROVE  TypeInv'
  BY <1>20 DEF CheckCancelled, CancelCheck, Finish, NoJob, CheckJob
<1>21. ASSUME NEW r \in Handlers, NEW c \in ClockifyIds, Adopt(r, c)
      PROVE  TypeInv'
  <2>1. TypeOK'
    BY <1>21, ClearEvidenceTyped DEF Adopt, Finish, NoJob, CheckJob
  <2>2. JobsTyped' /\ RowsOwned'
    BY <1>21, ClearEvidenceTyped DEF Adopt, Finish, NoJob, CheckJob
  <2> QED
    BY <2>1, <2>2
<1>22. ASSUME NEW r \in Handlers, NotAdopted(r)
      PROVE  TypeInv'
  <2>1. TypeOK'
    BY <1>22, CompleteCheckTyped DEF NotAdopted, CancelCheck, Finish, NoJob, CheckJob
  <2>2. JobsTyped' /\ RowsOwned'
    BY <1>22 DEF NotAdopted, Finish, NoJob, CheckJob
  <2> QED
    BY <2>1, <2>2
<1>23. ASSUME NEW e \in Entries, LeaseExpires(e)
      PROVE  TypeInv'
  BY <1>23 DEF LeaseExpires
<1>24. ASSUME NEW e \in Entries, RecoverExpiredClaim(e)
      PROVE  TypeInv'
  <2>1. CASE HasExpiredAttempt(e)
    BY <1>24, <2>1, RecoverAttemptTyped DEF RecoverExpiredClaim
  <2>2. CASE ~HasExpiredAttempt(e)
    BY <1>24, <2>2, LeaveClaimTyped DEF RecoverExpiredClaim
  <2> QED
    BY <2>1, <2>2
<1>25. ASSUME NEW e \in Entries, MarkNotCreated(e)
      PROVE  TypeInv'
  BY <1>25, ClearEvidenceTyped DEF MarkNotCreated
<1>26. ASSUME NEW e \in Entries, Dismiss(e)
      PROVE  TypeInv'
  BY <1>26 DEF Dismiss
<1>27. ASSUME NEW e \in Entries, Undismiss(e)
      PROVE  TypeInv'
  BY <1>27 DEF Undismiss
<1>28. ASSUME NEW a \in Tokens, NEW c \in ClockifyIds, ClockifyCreates(a, c)
      PROVE  TypeInv'
  <2>1. attemptEntry[a] \in Entries /\ FingerprintOf[attemptEntry[a]] \in Fingerprints
    BY <1>28, FingerprintAssumption DEF ClockifyCreates
  <2> QED
    BY <1>28, <2>1 DEF ClockifyCreates
<1>29. ASSUME NEW a \in Tokens, ClockifyRejects(a)
      PROVE  TypeInv'
  BY <1>29 DEF ClockifyRejects
<1>30. ASSUME NEW c \in ClockifyIds, NEW f \in Fingerprints, ManualEntry(c, f)
      PROVE  TypeInv'
  BY <1>30 DEF ManualEntry
<1>31. CASE UNCHANGED vars
  BY <1>31 DEF vars
<1> QED
  BY <1>1, <1>2, <1>3, <1>4, <1>5, <1>6, <1>7, <1>8, <1>9, <1>10, <1>11, <1>12, <1>13, <1>14, <1>15, <1>16, <1>17, <1>18, <1>19, <1>20, <1>21, <1>22, <1>23, <1>24, <1>25, <1>26, <1>27, <1>28, <1>29, <1>30, <1>31
  DEF Next, HandlerStep, StoreStep, ClockifyStep


-----------------------------------------------------------------------------
(* Claims and attempts. *)

\* The variables CoreInv is about.
coreVars == <<life, claimToken, latest, outcome, attemptEntry, issued, marked>>

\* An expired attempt that is recovered keeps the agreement of entry, claim and attempts.
LEMMA RecoverAttemptCore ==
  ASSUME Inv, NEW e \in Entries, HasExpiredAttempt(e), RecoverAttempt(e),
         UNCHANGED <<attemptEntry, latest, issued, marked>>
  PROVE  CoreInv'
<1> USE NoneAssumption
    DEF Inv, CoreInv, TypeInv, TypeOK, JobsTyped, RowsOwned, States, Actionable, Outcomes,
        Claiming, Checking, Attempts, ClaimsAgree, LatestAgrees, HandlersAgree,
        TokensDistinct, NoBlindRetry, SuccessShows, OneUnrejected, WireAgrees
<1>1. ClaimsAgree'
  BY DEF RecoverAttempt, HasExpiredAttempt, LeaveClaim
<1>2. LatestAgrees'
  BY DEF RecoverAttempt, HasExpiredAttempt, LeaveClaim
<1>3. TokensDistinct'
  BY DEF RecoverAttempt, HasExpiredAttempt, LeaveClaim
<1>4. NoBlindRetry'
  BY DEF RecoverAttempt, HasExpiredAttempt, LeaveClaim
<1>5. SuccessShows'
  BY DEF RecoverAttempt, HasExpiredAttempt, LeaveClaim
<1>6. OneUnrejected'
  BY DEF RecoverAttempt, HasExpiredAttempt, LeaveClaim
<1> QED
  BY <1>1, <1>2, <1>3, <1>4, <1>5, <1>6

\* A claim that ends without an attempt under it.
LEMMA LeaveClaimCore ==
  ASSUME Inv, NEW e \in Entries, NEW state \in Actionable, life[e] = "RECREATING",
         claimToken[e] \notin Attempts(e), LeaveClaim(e, state),
         UNCHANGED <<attemptEntry, outcome, latest, issued, marked>>
  PROVE  CoreInv'
<1> USE NoneAssumption
    DEF Inv, CoreInv, TypeInv, TypeOK, JobsTyped, RowsOwned, States, Actionable, Outcomes,
        Claiming, Checking, Attempts, ClaimsAgree, LatestAgrees, HandlersAgree,
        TokensDistinct, NoBlindRetry, SuccessShows, OneUnrejected, WireAgrees
<1>0. \A a \in Attempts(e) : outcome[a] # "SUCCESS"
  OBVIOUS
<1>1. ClaimsAgree'
  BY DEF LeaveClaim
<1>2. LatestAgrees'
  BY DEF LeaveClaim
<1>3. TokensDistinct'
  BY DEF LeaveClaim
<1>4. NoBlindRetry'
  BY DEF LeaveClaim
<1>5. SuccessShows'
  BY <1>0 DEF LeaveClaim
<1>6. OneUnrejected'
  BY DEF LeaveClaim
<1> QED
  BY <1>1, <1>2, <1>3, <1>4, <1>5, <1>6

\* Every step keeps the agreement of entries, claims and attempts.
LEMMA CoreStep == Inv /\ [Next]_vars => CoreInv'
<1> SUFFICES ASSUME Inv, [Next]_vars PROVE CoreInv'
  OBVIOUS
<1> USE NoneAssumption
    DEF Inv, CoreInv, TypeInv, TypeOK, JobsTyped, RowsOwned, States, Actionable, Outcomes,
        Claiming, Checking, Attempts, ClaimsAgree, LatestAgrees, HandlersAgree,
        TokensDistinct, NoBlindRetry, SuccessShows, OneUnrejected, WireAgrees,
        entryVars, planVars, rowVars, evidenceVars, attemptVars, remoteVars, handlerVars,
        historyVars, storeVars
<1>1. ASSUME NEW r \in Handlers, NEW t \in Tokens, Claim(r, t)
      PROVE  CoreInv'
  <2>1. ClaimsAgree'
    BY <1>1 DEF Claim, Claimable, HasExpiredAttempt
  <2>2. LatestAgrees'
    BY <1>1 DEF Claim, Claimable, HasExpiredAttempt
  <2>3. TokensDistinct'
    BY <1>1 DEF Claim, Claimable, HasExpiredAttempt
  <2>4. NoBlindRetry'
    BY <1>1 DEF Claim, Claimable, HasExpiredAttempt
  <2>5. SuccessShows'
    BY <1>1 DEF Claim, Claimable, HasExpiredAttempt
  <2>6. OneUnrejected'
    BY <1>1 DEF Claim, Claimable, HasExpiredAttempt
  <2> QED
    BY <2>1, <2>2, <2>3, <2>4, <2>5, <2>6
<1>2. ASSUME NEW r \in Handlers, StartAttempt(r)
      PROVE  CoreInv'
  <2>1. ClaimsAgree'
    BY <1>2 DEF StartAttempt, HoldsClaim
  <2>2. LatestAgrees'
    BY <1>2 DEF StartAttempt, HoldsClaim
  <2>3. TokensDistinct'
    BY <1>2 DEF StartAttempt, HoldsClaim
  <2>4. NoBlindRetry'
    BY <1>2 DEF StartAttempt, HoldsClaim
  <2>5. SuccessShows'
    BY <1>2 DEF StartAttempt, HoldsClaim
  <2>6. OneUnrejected'
    <3> DEFINE e == job[r].entry
               t == job[r].token
    <3>1. e \in Entries /\ t \in Tokens /\ outcome[t] = "unstarted" /\ claimToken[e] = t
          /\ life[e] = "RECREATING"
      BY <1>2 DEF StartAttempt, HoldsClaim
    <3>2. \A a \in Attempts(e) \ marked : outcome[a] = "FAILED"
      <4>1. \A a \in Attempts(e) \ marked : a # t /\ outcome[a] \in Outcomes \ {"unstarted"}
        BY <3>1
      <4>2. NoBlindRetry /\ SuccessShows
        OBVIOUS
      <4> HIDE DEF e, t
      <4> QED
        BY ONLY <3>1, <4>1, <4>2 DEF NoBlindRetry, SuccessShows, Outcomes, Attempts
    <3>3. /\ outcome' = [outcome EXCEPT ![t] = "open"] /\ UNCHANGED marked
          /\ attemptEntry' = [attemptEntry EXCEPT ![t] = e]
      BY <1>2 DEF StartAttempt
    <3> QED
      BY <3>1, <3>2, <3>3
  <2> QED
    BY <2>1, <2>2, <2>3, <2>4, <2>5, <2>6
<1>3. ASSUME NEW r \in Handlers, NEW c \in ClockifyIds, CommitCreated(r, c)
      PROVE  CoreInv'
  <2>1. ClaimsAgree'
    BY <1>3 DEF CommitCreated, CanCommit, HoldsClaim, LeaveClaim
  <2>2. LatestAgrees'
    BY <1>3 DEF CommitCreated, CanCommit, HoldsClaim, LeaveClaim
  <2>3. TokensDistinct'
    BY <1>3 DEF CommitCreated, CanCommit, HoldsClaim, LeaveClaim
  <2>4. NoBlindRetry'
    BY <1>3 DEF CommitCreated, CanCommit, HoldsClaim, LeaveClaim
  <2>5. SuccessShows'
    BY <1>3 DEF CommitCreated, CanCommit, HoldsClaim, LeaveClaim
  <2>6. OneUnrejected'
    BY <1>3 DEF CommitCreated, CanCommit, HoldsClaim, LeaveClaim
  <2> QED
    BY <2>1, <2>2, <2>3, <2>4, <2>5, <2>6
<1>4. ASSUME NEW r \in Handlers, CommitRejected(r)
      PROVE  CoreInv'
  <2>1. ClaimsAgree'
    BY <1>4 DEF CommitRejected, CanCommit, HoldsClaim, LeaveClaim
  <2>2. LatestAgrees'
    BY <1>4 DEF CommitRejected, CanCommit, HoldsClaim, LeaveClaim
  <2>3. TokensDistinct'
    BY <1>4 DEF CommitRejected, CanCommit, HoldsClaim, LeaveClaim
  <2>4. NoBlindRetry'
    BY <1>4 DEF CommitRejected, CanCommit, HoldsClaim, LeaveClaim
  <2>5. SuccessShows'
    BY <1>4 DEF CommitRejected, CanCommit, HoldsClaim, LeaveClaim
  <2>6. OneUnrejected'
    BY <1>4 DEF CommitRejected, CanCommit, HoldsClaim, LeaveClaim
  <2> QED
    BY <2>1, <2>2, <2>3, <2>4, <2>5, <2>6
<1>5. ASSUME NEW r \in Handlers, CommitAmbiguous(r)
      PROVE  CoreInv'
  <2>1. ClaimsAgree'
    BY <1>5 DEF CommitAmbiguous, CanCommit, HoldsClaim, LeaveClaim
  <2>2. LatestAgrees'
    BY <1>5 DEF CommitAmbiguous, CanCommit, HoldsClaim, LeaveClaim
  <2>3. TokensDistinct'
    BY <1>5 DEF CommitAmbiguous, CanCommit, HoldsClaim, LeaveClaim
  <2>4. NoBlindRetry'
    BY <1>5 DEF CommitAmbiguous, CanCommit, HoldsClaim, LeaveClaim
  <2>5. SuccessShows'
    BY <1>5 DEF CommitAmbiguous, CanCommit, HoldsClaim, LeaveClaim
  <2>6. OneUnrejected'
    BY <1>5 DEF CommitAmbiguous, CanCommit, HoldsClaim, LeaveClaim
  <2> QED
    BY <2>1, <2>2, <2>3, <2>4, <2>5, <2>6
<1>6. ASSUME NEW r \in Handlers, NEW c \in ClockifyIds, Adopt(r, c)
      PROVE  CoreInv'
  <2>1. ClaimsAgree'
    BY <1>6 DEF Adopt, CanAdopt, CurrentAmbiguous
  <2>2. LatestAgrees'
    BY <1>6 DEF Adopt, CanAdopt, CurrentAmbiguous
  <2>3. TokensDistinct'
    BY <1>6 DEF Adopt, CanAdopt, CurrentAmbiguous
  <2>4. NoBlindRetry'
    BY <1>6 DEF Adopt, CanAdopt, CurrentAmbiguous
  <2>5. SuccessShows'
    BY <1>6 DEF Adopt, CanAdopt, CurrentAmbiguous
  <2>6. OneUnrejected'
    BY <1>6 DEF Adopt, CanAdopt, CurrentAmbiguous
  <2> QED
    BY <2>1, <2>2, <2>3, <2>4, <2>5, <2>6
<1>7. ASSUME NEW e \in Entries, MarkNotCreated(e)
      PROVE  CoreInv'
  <2>1. ClaimsAgree'
    BY <1>7 DEF MarkNotCreated
  <2>2. LatestAgrees'
    BY <1>7 DEF MarkNotCreated
  <2>3. TokensDistinct'
    BY <1>7 DEF MarkNotCreated
  <2>4. NoBlindRetry'
    BY <1>7 DEF MarkNotCreated
  <2>5. SuccessShows'
    BY <1>7 DEF MarkNotCreated
  <2>6. OneUnrejected'
    BY <1>7 DEF MarkNotCreated
  <2> QED
    BY <2>1, <2>2, <2>3, <2>4, <2>5, <2>6
<1>8. ASSUME NEW e \in Entries, Dismiss(e)
      PROVE  CoreInv'
  <2>1. ClaimsAgree'
    BY <1>8 DEF Dismiss
  <2>2. LatestAgrees'
    BY <1>8 DEF Dismiss
  <2>3. TokensDistinct'
    BY <1>8 DEF Dismiss
  <2>4. NoBlindRetry'
    BY <1>8 DEF Dismiss
  <2>5. SuccessShows'
    BY <1>8 DEF Dismiss
  <2>6. OneUnrejected'
    BY <1>8 DEF Dismiss
  <2> QED
    BY <2>1, <2>2, <2>3, <2>4, <2>5, <2>6
<1>9. ASSUME NEW e \in Entries, Undismiss(e)
      PROVE  CoreInv'
  <2>1. ClaimsAgree'
    BY <1>9 DEF Undismiss
  <2>2. LatestAgrees'
    BY <1>9 DEF Undismiss
  <2>3. TokensDistinct'
    BY <1>9 DEF Undismiss
  <2>4. NoBlindRetry'
    BY <1>9 DEF Undismiss
  <2>5. SuccessShows'
    BY <1>9 DEF Undismiss
  <2>6. OneUnrejected'
    BY <1>9 DEF Undismiss
  <2> QED
    BY <2>1, <2>2, <2>3, <2>4, <2>5, <2>6
<1>10. ASSUME NEW r \in Handlers, ClaimRefused(r)
       PROVE  CoreInv'
  <2>1. CASE planStatus[job[r].plan] = "ACTIVE" /\ HasExpiredAttempt(job[r].entry)
    <3>1. /\ job[r].entry \in Entries /\ RecoverAttempt(job[r].entry)
          /\ UNCHANGED <<attemptEntry, latest, issued, marked>>
      BY <1>10, <2>1 DEF ClaimRefused
    <3> QED
      BY <2>1, <3>1, RecoverAttemptCore
  <2>2. CASE ~(planStatus[job[r].plan] = "ACTIVE" /\ HasExpiredAttempt(job[r].entry))
    BY <1>10, <2>2 DEF ClaimRefused
  <2> QED
    BY <2>1, <2>2
<1>11. ASSUME NEW r \in Handlers, BaselineFails(r)
       PROVE  CoreInv'
  <2> DEFINE e == job[r].entry
             t == job[r].token
  <2>1. e \in Entries /\ t \in Tokens /\ outcome[t] = "unstarted" /\ job[r].prior \in Actionable
    BY <1>11 DEF BaselineFails
  <2>2. CASE claimToken[e] = t
    <3>1. /\ LeaveClaim(e, job[r].prior)
          /\ UNCHANGED <<attemptEntry, outcome, latest, issued, marked>>
      BY <1>11, <2>2 DEF BaselineFails, HoldsClaim
    <3>2. life[e] = "RECREATING" /\ claimToken[e] \notin Attempts(e)
      BY <2>1, <2>2
    <3> QED
      BY <2>1, <3>1, <3>2, LeaveClaimCore
  <2>3. CASE claimToken[e] # t
    BY <1>11, <2>3 DEF BaselineFails, HoldsClaim
  <2> QED
    BY <2>2, <2>3
<1>12. ASSUME NEW e \in Entries, RecoverExpiredClaim(e)
       PROVE  CoreInv'
  <2>1. CASE HasExpiredAttempt(e)
    BY <1>12, <2>1, RecoverAttemptCore DEF RecoverExpiredClaim
  <2>2. CASE ~HasExpiredAttempt(e)
    <3>1. /\ LeaveClaim(e, "IDLE") /\ life[e] = "RECREATING" /\ claimToken[e] \notin Attempts(e)
          /\ UNCHANGED <<attemptEntry, outcome, latest, issued, marked>>
      BY <1>12, <2>2 DEF RecoverExpiredClaim, HasExpiredAttempt
    <3> QED
      BY <3>1, LeaveClaimCore
  <2> QED
    BY <2>1, <2>2
<1>13. ASSUME UNCHANGED coreVars
       PROVE  CoreInv'
  BY <1>13 DEF coreVars
\* The other actions leave the variables of CoreInv alone.
<1>14. ASSUME NEW e \in Entries, NEW q \in PlanIds, Preflight(e, q)
       PROVE  UNCHANGED coreVars
  BY <1>14 DEF Preflight, coreVars, CreateActive
<1>15. ASSUME NEW p \in PlanIds, RetireLegacyPlan(p)
       PROVE  UNCHANGED coreVars
  BY <1>15 DEF RetireLegacyPlan, coreVars
<1>16. ASSUME NEW r \in Handlers, NEW p \in PlanIds, ConfirmLoad(r, p)
       PROVE  UNCHANGED coreVars
  BY <1>16 DEF ConfirmLoad, coreVars
<1>17. ASSUME NEW r \in Handlers, NEW q \in PlanIds, RevalidatedStale(r, q)
       PROVE  UNCHANGED coreVars
  BY <1>17 DEF RevalidatedStale, coreVars, CreateActive
<1>18. ASSUME NEW r \in Handlers, ReadBaseline(r)
       PROVE  UNCHANGED coreVars
  BY <1>18 DEF ReadBaseline, coreVars
<1>19. ASSUME NEW r \in Handlers, PreWriteChanged(r)
       PROVE  UNCHANGED coreVars
  BY <1>19 DEF PreWriteChanged, coreVars
<1>20. ASSUME NEW r \in Handlers, CommitThrows(r)
       PROVE  UNCHANGED coreVars
  BY <1>20 DEF CommitThrows, coreVars
<1>21. ASSUME NEW r \in Handlers, Abandon(r)
       PROVE  UNCHANGED coreVars
  BY <1>21 DEF Abandon, coreVars
<1>22. ASSUME NEW r \in Handlers, NEW e \in Entries, NEW c \in ClockifyIds \cup {None}, CheckLoad(r, e, c)
       PROVE  UNCHANGED coreVars
  BY <1>22 DEF CheckLoad, coreVars
<1>23. ASSUME NEW r \in Handlers, CheckBegins(r)
       PROVE  UNCHANGED coreVars
  BY <1>23 DEF CheckBegins, coreVars
<1>24. ASSUME NEW r \in Handlers, CheckReads(r)
       PROVE  UNCHANGED coreVars
  BY <1>24 DEF CheckReads, coreVars
<1>25. ASSUME NEW r \in Handlers, CheckTruncated(r)
       PROVE  UNCHANGED coreVars
  BY <1>25 DEF CheckTruncated, coreVars
<1>26. ASSUME NEW r \in Handlers, CheckCancelled(r)
       PROVE  UNCHANGED coreVars
  BY <1>26 DEF CheckCancelled, coreVars
<1>27. ASSUME NEW r \in Handlers, NotAdopted(r)
       PROVE  UNCHANGED coreVars
  BY <1>27 DEF NotAdopted, coreVars
<1>28. ASSUME NEW e \in Entries, LeaseExpires(e)
       PROVE  UNCHANGED coreVars
  BY <1>28 DEF LeaseExpires, coreVars
<1>29. ASSUME NEW a \in Tokens, NEW c \in ClockifyIds, ClockifyCreates(a, c)
       PROVE  UNCHANGED coreVars
  BY <1>29 DEF ClockifyCreates, coreVars
<1>30. ASSUME NEW a \in Tokens, ClockifyRejects(a)
       PROVE  UNCHANGED coreVars
  BY <1>30 DEF ClockifyRejects, coreVars
<1>31. ASSUME NEW c \in ClockifyIds, NEW f \in Fingerprints, ManualEntry(c, f)
       PROVE  UNCHANGED coreVars
  BY <1>31 DEF ManualEntry, coreVars
<1>32. CASE UNCHANGED vars
  BY <1>32, <1>13 DEF vars, coreVars
<1> QED
  BY <1>1, <1>2, <1>3, <1>4, <1>5, <1>6, <1>7, <1>8, <1>9, <1>10, <1>11, <1>12, <1>13,
     <1>14, <1>15, <1>16, <1>17, <1>18, <1>19, <1>20, <1>21, <1>22, <1>23, <1>24, <1>25,
     <1>26, <1>27, <1>28, <1>29, <1>30, <1>31, <1>32
  DEF Next, HandlerStep, StoreStep, ClockifyStep

-----------------------------------------------------------------------------
(* Handlers. *)

\* Every step keeps what a handler may assume of the claim and the attempt it holds.
LEMMA HandlersStep == Inv /\ [Next]_vars => HandlersAgree'
<1> SUFFICES ASSUME Inv, [Next]_vars PROVE HandlersAgree'
  OBVIOUS
<1> USE NoneAssumption
    DEF Inv, CoreInv, TypeInv, TypeOK, JobsTyped, RowsOwned, States, Actionable,
        Outcomes, Claiming, Checking, Attempts, ClaimsAgree, LatestAgrees,
        TokensDistinct, HandlersAgree,
        entryVars, planVars, rowVars, evidenceVars, attemptVars, remoteVars, handlerVars,
        historyVars, storeVars
<1>1. ASSUME NEW e \in Entries, NEW q \in PlanIds, Preflight(e, q)
      PROVE  HandlersAgree'
  BY <1>1 DEF Preflight
<1>2. ASSUME NEW p \in PlanIds, RetireLegacyPlan(p)
      PROVE  HandlersAgree'
  BY <1>2 DEF RetireLegacyPlan
<1>3. ASSUME NEW r \in Handlers, NEW p \in PlanIds, ConfirmLoad(r, p)
      PROVE  HandlersAgree'
  BY <1>3 DEF ConfirmLoad, ConfirmJob
<1>4. ASSUME NEW r \in Handlers, NEW q \in PlanIds, RevalidatedStale(r, q)
      PROVE  HandlersAgree'
  BY <1>4 DEF RevalidatedStale, Finish, NoJob, CheckJob
<1>5. ASSUME NEW r \in Handlers, NEW t \in Tokens, Claim(r, t)
      PROVE  HandlersAgree'
  BY <1>5 DEF Claim, ConfirmJob
<1>6. ASSUME NEW r \in Handlers, ClaimRefused(r)
      PROVE  HandlersAgree'
  BY <1>6
  DEF ClaimRefused, RecoverAttempt, LeaveClaim, HasExpiredAttempt, Finish, NoJob,
      CheckJob
<1>7. ASSUME NEW r \in Handlers, ReadBaseline(r)
      PROVE  HandlersAgree'
  BY <1>7 DEF ReadBaseline, ConfirmJob
<1>8. ASSUME NEW r \in Handlers, BaselineFails(r)
      PROVE  HandlersAgree'
  BY <1>8 DEF BaselineFails, LeaveClaim, HoldsClaim, Finish, NoJob, CheckJob
<1>9. ASSUME NEW r \in Handlers, StartAttempt(r)
      PROVE  HandlersAgree'
  BY <1>9 DEF StartAttempt, HoldsClaim
<1>10. ASSUME NEW r \in Handlers, PreWriteChanged(r)
      PROVE  HandlersAgree'
  BY <1>10 DEF PreWriteChanged, Finish, NoJob, CheckJob
<1>11. ASSUME NEW r \in Handlers, NEW c \in ClockifyIds, CommitCreated(r, c)
      PROVE  HandlersAgree'
  BY <1>11 DEF CommitCreated, CanCommit, HoldsClaim, LeaveClaim, Finish, NoJob, CheckJob
<1>12. ASSUME NEW r \in Handlers, CommitRejected(r)
      PROVE  HandlersAgree'
  BY <1>12 DEF CommitRejected, CanCommit, HoldsClaim, LeaveClaim, Finish, NoJob, CheckJob
<1>13. ASSUME NEW r \in Handlers, CommitAmbiguous(r)
      PROVE  HandlersAgree'
  BY <1>13 DEF CommitAmbiguous, CanCommit, HoldsClaim, LeaveClaim, CheckJob
<1>14. ASSUME NEW r \in Handlers, CommitThrows(r)
      PROVE  HandlersAgree'
  BY <1>14 DEF CommitThrows, Finish, NoJob, CheckJob
<1>15. ASSUME NEW r \in Handlers, Abandon(r)
      PROVE  HandlersAgree'
  BY <1>15 DEF Abandon, Finish, NoJob, CheckJob
<1>16. ASSUME NEW r \in Handlers, NEW e \in Entries, NEW c \in ClockifyIds \cup {None}, CheckLoad(r, e, c)
      PROVE  HandlersAgree'
  BY <1>16 DEF CheckLoad, CheckJob
<1>17. ASSUME NEW r \in Handlers, CheckBegins(r)
      PROVE  HandlersAgree'
  BY <1>17 DEF CheckBegins
<1>18. ASSUME NEW r \in Handlers, CheckReads(r)
      PROVE  HandlersAgree'
  BY <1>18 DEF CheckReads, CheckJob
<1>19. ASSUME NEW r \in Handlers, CheckTruncated(r)
      PROVE  HandlersAgree'
  BY <1>19 DEF CheckTruncated, Finish, NoJob, CheckJob
<1>20. ASSUME NEW r \in Handlers, CheckCancelled(r)
      PROVE  HandlersAgree'
  BY <1>20 DEF CheckCancelled, Finish, NoJob, CheckJob
<1>21. ASSUME NEW r \in Handlers, NEW c \in ClockifyIds, Adopt(r, c)
      PROVE  HandlersAgree'
  BY <1>21 DEF Adopt, CanAdopt, CurrentAmbiguous, Finish, NoJob, CheckJob
<1>22. ASSUME NEW r \in Handlers, NotAdopted(r)
      PROVE  HandlersAgree'
  BY <1>22 DEF NotAdopted, Finish, NoJob, CheckJob
<1>23. ASSUME NEW e \in Entries, LeaseExpires(e)
      PROVE  HandlersAgree'
  BY <1>23 DEF LeaseExpires
<1>24. ASSUME NEW e \in Entries, RecoverExpiredClaim(e)
      PROVE  HandlersAgree'
  BY <1>24 DEF RecoverExpiredClaim, RecoverAttempt, LeaveClaim, HasExpiredAttempt
<1>25. ASSUME NEW e \in Entries, MarkNotCreated(e)
      PROVE  HandlersAgree'
  BY <1>25 DEF MarkNotCreated
<1>26. ASSUME NEW e \in Entries, Dismiss(e)
      PROVE  HandlersAgree'
  BY <1>26 DEF Dismiss
<1>27. ASSUME NEW e \in Entries, Undismiss(e)
      PROVE  HandlersAgree'
  BY <1>27 DEF Undismiss
<1>28. ASSUME NEW a \in Tokens, NEW c \in ClockifyIds, ClockifyCreates(a, c)
      PROVE  HandlersAgree'
  BY <1>28 DEF ClockifyCreates
<1>29. ASSUME NEW a \in Tokens, ClockifyRejects(a)
      PROVE  HandlersAgree'
  BY <1>29 DEF ClockifyRejects
<1>30. ASSUME NEW c \in ClockifyIds, NEW f \in Fingerprints, ManualEntry(c, f)
      PROVE  HandlersAgree'
  BY <1>30 DEF ManualEntry
<1>31. CASE UNCHANGED vars
  BY <1>31 DEF vars
<1> QED
  BY <1>1, <1>2, <1>3, <1>4, <1>5, <1>6, <1>7, <1>8, <1>9, <1>10, <1>11, <1>12, <1>13,
     <1>14, <1>15, <1>16, <1>17, <1>18, <1>19, <1>20, <1>21, <1>22, <1>23, <1>24, <1>25,
     <1>26, <1>27, <1>28, <1>29, <1>30, <1>31
  DEF Next, HandlerStep, StoreStep, ClockifyStep

-----------------------------------------------------------------------------
(* The wire. *)

\* Every step keeps the agreement of the requests that were sent with what Clockify did.
LEMMA WireStep == Inv /\ [Next]_vars => WireAgrees'
<1> SUFFICES ASSUME Inv, [Next]_vars PROVE WireAgrees'
  OBVIOUS
<1> USE NoneAssumption
    DEF Inv, CoreInv, TypeInv, TypeOK, JobsTyped, RowsOwned, States, Actionable,
        Outcomes, Claiming, Checking, Attempts, ClaimsAgree, LatestAgrees,
        TokensDistinct, WireAgrees,
        entryVars, planVars, rowVars, evidenceVars, attemptVars, remoteVars, handlerVars,
        historyVars, storeVars
<1>1. ASSUME NEW e \in Entries, NEW q \in PlanIds, Preflight(e, q)
      PROVE  WireAgrees'
  BY <1>1 DEF Preflight
<1>2. ASSUME NEW p \in PlanIds, RetireLegacyPlan(p)
      PROVE  WireAgrees'
  BY <1>2 DEF RetireLegacyPlan
<1>3. ASSUME NEW r \in Handlers, NEW p \in PlanIds, ConfirmLoad(r, p)
      PROVE  WireAgrees'
  BY <1>3 DEF ConfirmLoad, ConfirmJob
<1>4. ASSUME NEW r \in Handlers, NEW q \in PlanIds, RevalidatedStale(r, q)
      PROVE  WireAgrees'
  BY <1>4 DEF RevalidatedStale, Finish, NoJob, CheckJob
<1>5. ASSUME NEW r \in Handlers, NEW t \in Tokens, Claim(r, t)
      PROVE  WireAgrees'
  BY <1>5 DEF Claim, ConfirmJob
<1>6. ASSUME NEW r \in Handlers, ClaimRefused(r)
      PROVE  WireAgrees'
  BY <1>6
  DEF ClaimRefused, RecoverAttempt, LeaveClaim, HasExpiredAttempt, Finish, NoJob,
      CheckJob
<1>7. ASSUME NEW r \in Handlers, ReadBaseline(r)
      PROVE  WireAgrees'
  BY <1>7 DEF ReadBaseline, ConfirmJob
<1>8. ASSUME NEW r \in Handlers, BaselineFails(r)
      PROVE  WireAgrees'
  BY <1>8 DEF BaselineFails, LeaveClaim, HoldsClaim, Finish, NoJob, CheckJob
<1>9. ASSUME NEW r \in Handlers, StartAttempt(r)
      PROVE  WireAgrees'
  <2>1. job[r].token \in Tokens /\ outcome[job[r].token] = "unstarted"
    BY <1>9 DEF StartAttempt, HandlersAgree
  <2> QED
    BY <1>9, <2>1 DEF StartAttempt
<1>10. ASSUME NEW r \in Handlers, PreWriteChanged(r)
      PROVE  WireAgrees'
  BY <1>10 DEF PreWriteChanged, Finish, NoJob, CheckJob
<1>11. ASSUME NEW r \in Handlers, NEW c \in ClockifyIds, CommitCreated(r, c)
      PROVE  WireAgrees'
  BY <1>11 DEF CommitCreated, CanCommit, HoldsClaim, LeaveClaim, Finish, NoJob, CheckJob
<1>12. ASSUME NEW r \in Handlers, CommitRejected(r)
      PROVE  WireAgrees'
  BY <1>12 DEF CommitRejected, CanCommit, HoldsClaim, LeaveClaim, Finish, NoJob, CheckJob
<1>13. ASSUME NEW r \in Handlers, CommitAmbiguous(r)
      PROVE  WireAgrees'
  BY <1>13 DEF CommitAmbiguous, CanCommit, HoldsClaim, LeaveClaim, CheckJob
<1>14. ASSUME NEW r \in Handlers, CommitThrows(r)
      PROVE  WireAgrees'
  BY <1>14 DEF CommitThrows, Finish, NoJob, CheckJob
<1>15. ASSUME NEW r \in Handlers, Abandon(r)
      PROVE  WireAgrees'
  BY <1>15 DEF Abandon, Finish, NoJob, CheckJob
<1>16. ASSUME NEW r \in Handlers, NEW e \in Entries, NEW c \in ClockifyIds \cup {None}, CheckLoad(r, e, c)
      PROVE  WireAgrees'
  BY <1>16 DEF CheckLoad, CheckJob
<1>17. ASSUME NEW r \in Handlers, CheckBegins(r)
      PROVE  WireAgrees'
  BY <1>17 DEF CheckBegins
<1>18. ASSUME NEW r \in Handlers, CheckReads(r)
      PROVE  WireAgrees'
  BY <1>18 DEF CheckReads, CheckJob
<1>19. ASSUME NEW r \in Handlers, CheckTruncated(r)
      PROVE  WireAgrees'
  BY <1>19 DEF CheckTruncated, Finish, NoJob, CheckJob
<1>20. ASSUME NEW r \in Handlers, CheckCancelled(r)
      PROVE  WireAgrees'
  BY <1>20 DEF CheckCancelled, Finish, NoJob, CheckJob
<1>21. ASSUME NEW r \in Handlers, NEW c \in ClockifyIds, Adopt(r, c)
      PROVE  WireAgrees'
  BY <1>21 DEF Adopt, CanAdopt, CurrentAmbiguous, Finish, NoJob, CheckJob
<1>22. ASSUME NEW r \in Handlers, NotAdopted(r)
      PROVE  WireAgrees'
  BY <1>22 DEF NotAdopted, Finish, NoJob, CheckJob
<1>23. ASSUME NEW e \in Entries, LeaseExpires(e)
      PROVE  WireAgrees'
  BY <1>23 DEF LeaseExpires
<1>24. ASSUME NEW e \in Entries, RecoverExpiredClaim(e)
      PROVE  WireAgrees'
  BY <1>24 DEF RecoverExpiredClaim, RecoverAttempt, LeaveClaim, HasExpiredAttempt
<1>25. ASSUME NEW e \in Entries, MarkNotCreated(e)
      PROVE  WireAgrees'
  BY <1>25 DEF MarkNotCreated
<1>26. ASSUME NEW e \in Entries, Dismiss(e)
      PROVE  WireAgrees'
  BY <1>26 DEF Dismiss
<1>27. ASSUME NEW e \in Entries, Undismiss(e)
      PROVE  WireAgrees'
  BY <1>27 DEF Undismiss
<1>28. ASSUME NEW a \in Tokens, NEW c \in ClockifyIds, ClockifyCreates(a, c)
      PROVE  WireAgrees'
  <2>1. origin[c] = None /\ \A d \in ClockifyIds : origin[d] # a
    BY <1>28 DEF ClockifyCreates
  <2>2. outcome[a] # "FAILED"
    BY <1>28 DEF ClockifyCreates
  <2>3. /\ look' = [look EXCEPT ![c] = FingerprintOf[attemptEntry[a]]]
        /\ FingerprintOf[attemptEntry[a]] # None
    BY <1>28, FingerprintAssumption DEF ClockifyCreates
  <2> QED
    BY <1>28, <2>1, <2>2, <2>3 DEF ClockifyCreates
<1>29. ASSUME NEW a \in Tokens, ClockifyRejects(a)
      PROVE  WireAgrees'
  BY <1>29 DEF ClockifyRejects
<1>30. ASSUME NEW c \in ClockifyIds, NEW f \in Fingerprints, ManualEntry(c, f)
      PROVE  WireAgrees'
  BY <1>30 DEF ManualEntry
<1>31. CASE UNCHANGED vars
  BY <1>31 DEF vars
<1> QED
  BY <1>1, <1>2, <1>3, <1>4, <1>5, <1>6, <1>7, <1>8, <1>9, <1>10, <1>11, <1>12, <1>13,
     <1>14, <1>15, <1>16, <1>17, <1>18, <1>19, <1>20, <1>21, <1>22, <1>23, <1>24, <1>25,
     <1>26, <1>27, <1>28, <1>29, <1>30, <1>31
  DEF Next, HandlerStep, StoreStep, ClockifyStep

-----------------------------------------------------------------------------
(* The theorems. *)

\* Inv holds of an empty database and of what an older release can have left.
LEMMA InitInv == Init => Inv
<1> SUFFICES ASSUME NEW h \in HalfCommitted \cup {None}, InitRows(h) PROVE Inv
  BY DEF Init
<1> USE NoneAssumption, FingerprintAssumption, MinChecksAssumption, LegacyAssumption
    DEF InitRows, States, Outcomes, Stages, Attempts, Claiming, Checking
<1>1. CASE h = None
  <2>1. TypeOK
    BY <1>1 DEF TypeOK, Job, NoJob, CheckJob
  <2>2. JobsTyped /\ RowsOwned
    BY <1>1 DEF JobsTyped, RowsOwned
  <2>3. CoreInv
    BY <1>1 DEF CoreInv, ClaimsAgree, LatestAgrees, TokensDistinct, NoBlindRetry, SuccessShows,
                OneUnrejected
  <2>4. HandlersAgree /\ WireAgrees
    BY <1>1 DEF HandlersAgree, WireAgrees
  <2> QED
    BY <2>1, <2>2, <2>3, <2>4 DEF Inv, TypeInv
<1>2. CASE h # None
  <2>0. /\ h \in HalfCommitted /\ h.entry \in Entries /\ h.token \in Tokens /\ h.plan \in PlanIds
        /\ h.outcome \in {"SUCCESS", "FAILED", "AMBIGUOUS"} /\ h.made \in ClockifyIds
    BY <1>2 DEF HalfCommitted
  <2>1. TypeOK
    BY <1>2, <2>0 DEF TypeOK, Job, NoJob, CheckJob
  <2>2. JobsTyped /\ RowsOwned
    BY <1>2, <2>0 DEF JobsTyped, RowsOwned
  <2>3. CoreInv
    BY <1>2, <2>0 DEF CoreInv, ClaimsAgree, LatestAgrees, TokensDistinct, NoBlindRetry,
                      SuccessShows, OneUnrejected
  <2>4. HandlersAgree /\ WireAgrees
    BY <1>2, <2>0 DEF HandlersAgree, WireAgrees
  <2> QED
    BY <2>1, <2>2, <2>3, <2>4 DEF Inv, TypeInv
<1> QED
  BY <1>1, <1>2

\* Inv holds in every reachable state, whatever the constants are.
THEOREM Invariance == Spec => []Inv
<1>1. Inv /\ [Next]_vars => Inv'
  BY TypeStep, CoreStep, HandlersStep, WireStep DEF Inv
<1> QED
  BY InitInv, <1>1, PTL DEF Spec

\* Every column and local variable always has its type.
THEOREM TypeCorrect == Spec => []TypeOK
<1>1. Inv => TypeOK
  BY DEF Inv, TypeInv
<1> QED
  BY Invariance, <1>1, PTL

\* An attempt whose result is unknown blocks every retry until the user says "not created".
THEOREM NeverRetriedBlindly == Spec => []NoBlindRetry
<1>1. Inv => NoBlindRetry
  BY DEF Inv, CoreInv
<1> QED
  BY Invariance, <1>1, PTL

\* Two creates for one deleted entry both take effect only after a "not created" of the user.
THEOREM NoSilentDuplicate == Spec => []DuplicateOnlyAfterMark
<1>1. Inv => DuplicateOnlyAfterMark
  <2> SUFFICES ASSUME Inv, NEW c \in Existing, NEW d \in Existing,
                      c # d, origin[c] # None, origin[d] # None,
                      attemptEntry[origin[c]] = attemptEntry[origin[d]]
               PROVE  origin[c] \in marked \/ origin[d] \in marked
    BY DEF DuplicateOnlyAfterMark
  <2> DEFINE a == origin[c]
             b == origin[d]
  <2>1. a \in Tokens /\ b \in Tokens /\ a # b /\ wire[a] = "applied" /\ wire[b] = "applied"
    BY DEF Inv, TypeInv, TypeOK, WireAgrees, Existing
  <2>2. outcome[a] # "FAILED" /\ outcome[b] # "FAILED"
    BY <2>1 DEF Inv, WireAgrees
  <2>3. \E e \in Entries : a \in Attempts(e) /\ b \in Attempts(e)
    BY <2>1 DEF Inv, TypeInv, RowsOwned, Attempts
  <2> QED
    BY <2>1, <2>2, <2>3 DEF Inv, CoreInv, OneUnrejected
<1> QED
  BY Invariance, <1>1, PTL
=============================================================================
