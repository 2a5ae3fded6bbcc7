--------------------------- MODULE ProtocolProofs ---------------------------
(***************************************************************************)
(* What the recreation protocol promises, for any number of entries,       *)
(* plans, attempts and handlers.  First, that Recreation implements        *)
(* EntryLifecycle: a step maps to a stutter unless it moves the state of   *)
(* an entry or starts an attempt.  Then what it owes to plans, to          *)
(* baselines and to the fence of a claim: PlanInv and BaselineInv (module  *)
(* RecreationInvariant) are inductive on top of FullInv.  A handler that   *)
(* awaits acts on local copies of a plan or a baseline, and these say what *)
(* the copies are still worth.                                             *)
(***************************************************************************)
EXTENDS RecreationRefinement, RecreationProofs

-----------------------------------------------------------------------------
(* EntryLifecycle. *)

\* The variables the mapping and FullInv are about.
Relevant == <<life, claimToken, newEntryId, latest, outcome, attemptEntry, attemptNewId, issued,
              marked>>

\* The steps that change one of them.
Loud ==
  \/ \E r \in Handlers, t \in Tokens : Claim(r, t)
  \/ \E e \in Entries :
       /\ HasExpiredAttempt(e) /\ RecoverAttempt(e)
       /\ UNCHANGED <<latest, attemptEntry, attemptNewId, issued, marked>>
  \/ \E r \in Handlers : BaselineFails(r) /\ HoldsClaim(job[r].entry, job[r].token)
  \/ \E r \in Handlers : StartAttempt(r)
  \/ \E r \in Handlers, c \in ClockifyIds : CommitCreated(r, c)
  \/ \E r \in Handlers : CommitRejected(r)
  \/ \E r \in Handlers : CommitAmbiguous(r)
  \/ \E r \in Handlers, c \in ClockifyIds : Adopt(r, c)
  \/ \E e \in Entries : RecoverExpiredClaim(e) /\ ~HasExpiredAttempt(e)
  \/ \E e \in Entries : MarkNotCreated(e) \/ Dismiss(e) \/ Undismiss(e)

\* Every other step, and every stutter, leaves all of them alone.
LEMMA LoudOrQuiet ==
  ASSUME TypeInv, [Next]_vars
  PROVE  Loud \/ UNCHANGED Relevant
<1> USE DEF Relevant, entryVars, planVars, rowVars, evidenceVars, attemptVars, remoteVars,
            handlerVars, historyVars, storeVars
<1>1. ASSUME NEW r \in Handlers, HandlerStep(r) PROVE Loud \/ UNCHANGED Relevant
  <2>1. ASSUME NEW p \in PlanIds, ConfirmLoad(r, p) PROVE UNCHANGED Relevant
    BY <2>1 DEF ConfirmLoad
  <2>2. ASSUME NEW q \in PlanIds, RevalidatedStale(r, q) PROVE UNCHANGED Relevant
    BY <2>2 DEF RevalidatedStale
  <2>3. ASSUME ClaimRefused(r) PROVE Loud \/ UNCHANGED Relevant
    <3>1. job[r].entry \in Entries
      BY <2>3 DEF ClaimRefused, TypeInv, JobsTyped
    <3> QED
      BY <2>3, <3>1 DEF ClaimRefused, Loud
  <2>4. ASSUME ReadBaseline(r) PROVE UNCHANGED Relevant
    BY <2>4 DEF ReadBaseline
  <2>5. ASSUME BaselineFails(r) PROVE Loud \/ UNCHANGED Relevant
    BY <2>5 DEF BaselineFails, Loud
  <2>6. ASSUME PreWriteChanged(r) \/ CommitThrows(r) \/ Abandon(r) PROVE UNCHANGED Relevant
    BY <2>6 DEF PreWriteChanged, CommitThrows, Abandon
  <2>7. ASSUME NEW e \in Entries, NEW c \in ClockifyIds \cup {None}, CheckLoad(r, e, c)
        PROVE  UNCHANGED Relevant
    BY <2>7 DEF CheckLoad
  <2>8. ASSUME CheckBegins(r) \/ CheckReads(r) PROVE UNCHANGED Relevant
    BY <2>8 DEF CheckBegins, CheckReads
  <2>9. ASSUME CheckTruncated(r) \/ CheckCancelled(r) \/ NotAdopted(r) PROVE UNCHANGED Relevant
    BY <2>9 DEF CheckTruncated, CheckCancelled, NotAdopted
  <2> QED
    BY <1>1, <2>1, <2>2, <2>3, <2>4, <2>5, <2>6, <2>7, <2>8, <2>9 DEF HandlerStep, Loud
<1>2. ASSUME StoreStep PROVE Loud \/ UNCHANGED Relevant
  <2>1. ASSUME NEW e \in Entries, NEW q \in PlanIds, Preflight(e, q) PROVE UNCHANGED Relevant
    BY <2>1 DEF Preflight
  <2>2. ASSUME NEW p \in PlanIds, RetireLegacyPlan(p) PROVE UNCHANGED Relevant
    BY <2>2 DEF RetireLegacyPlan
  <2>3. ASSUME NEW e \in Entries, LeaseExpires(e) PROVE UNCHANGED Relevant
    BY <2>3 DEF LeaseExpires
  <2>4. ASSUME NEW e \in Entries, RecoverExpiredClaim(e) PROVE Loud
    BY <2>4 DEF RecoverExpiredClaim, Loud
  <2> QED
    BY <1>2, <2>1, <2>2, <2>3, <2>4 DEF StoreStep, Loud
<1>3. ASSUME ClockifyStep PROVE UNCHANGED Relevant
  BY <1>3 DEF ClockifyStep, ClockifyCreates, ClockifyRejects, ManualEntry
<1>4. ASSUME UNCHANGED vars PROVE UNCHANGED Relevant
  BY <1>4 DEF vars
<1> QED
  BY <1>1, <1>2, <1>3, <1>4 DEF Next

-----------------------------------------------------------------------------
(* FullInv is inductive. *)

\* No attempt of an entry that is neither RECREATING nor RECREATED is a SUCCESS.
LEMMA NoOtherSuccess ==
  ASSUME Inv, NEW e \in Entries, NEW a \in Attempts(e), outcome[a] = "SUCCESS"
  PROVE  life[e] = "RECREATED" \/ (life[e] = "RECREATING" /\ claimToken[e] = a)
BY DEF Inv, CoreInv, SuccessShows

\* Every step keeps the marks in the past.
LEMMA MarksStep == FullInv /\ [Next]_vars => MarksSettled'
<1> SUFFICES ASSUME FullInv, [Next]_vars PROVE MarksSettled'
  OBVIOUS
<1> USE NoneAssumption
    DEF FullInv, Inv, TypeInv, TypeOK, CoreInv, ClaimsAgree, MarksSettled
<1>1. CASE UNCHANGED Relevant
  BY <1>1 DEF Relevant
<1>2. ASSUME NEW r \in Handlers, NEW t \in Tokens, Claim(r, t) PROVE MarksSettled'
  <2>1. outcome[t] = "unstarted"
    BY <1>2 DEF Claim, RowsOwned
  <2>2. job[r].entry \in Entries
    BY <1>2 DEF Claim, JobsTyped
  <2> QED
    BY <1>2, <2>1, <2>2 DEF Claim, attemptVars, rowVars
<1>3. ASSUME NEW e \in Entries, HasExpiredAttempt(e), RecoverAttempt(e),
             UNCHANGED <<latest, attemptEntry, attemptNewId, issued, marked>>
      PROVE  MarksSettled'
  BY <1>3 DEF HasExpiredAttempt, RecoverAttempt, LeaveClaim, LatestAgrees, Attempts
<1>4. ASSUME NEW r \in Handlers, BaselineFails(r), HoldsClaim(job[r].entry, job[r].token)
      PROVE  MarksSettled'
  <2>1. job[r].entry \in Entries /\ job[r].prior \in Actionable
    BY <1>4 DEF BaselineFails, JobsTyped, Claiming
  <2> QED
    BY <1>4, <2>1 DEF BaselineFails, LeaveClaim, attemptVars, rowVars, historyVars, Actionable
<1>5. ASSUME NEW r \in Handlers, StartAttempt(r) PROVE MarksSettled'
  <2>1. job[r].entry \in Entries /\ job[r].token \in Tokens
    BY <1>5 DEF StartAttempt, JobsTyped, Claiming
  <2>2. \A e \in Entries : claimToken[e] = job[r].token => e = job[r].entry
    BY <1>5 DEF StartAttempt, HandlersAgree, Claiming
  <2> QED
    BY <1>5, <2>1, <2>2 DEF StartAttempt, HoldsClaim
<1>6. ASSUME NEW r \in Handlers, NEW c \in ClockifyIds, CommitCreated(r, c) PROVE MarksSettled'
  BY <1>6 DEF CommitCreated, CanCommit, HoldsClaim, LeaveClaim, JobsTyped, Claiming, rowVars,
              historyVars
<1>7. ASSUME NEW r \in Handlers, CommitRejected(r) PROVE MarksSettled'
  BY <1>7 DEF CommitRejected, CanCommit, HoldsClaim, LeaveClaim, JobsTyped, Claiming, rowVars,
              historyVars
<1>8. ASSUME NEW r \in Handlers, CommitAmbiguous(r) PROVE MarksSettled'
  <2>1. /\ job[r].entry \in Entries /\ job[r].token \in Attempts(job[r].entry)
        /\ claimToken[job[r].entry] = job[r].token
    BY <1>8 DEF CommitAmbiguous, CanCommit, HoldsClaim, JobsTyped, Claiming, HandlersAgree
  <2>2. latest[job[r].entry] = job[r].token
    BY <2>1 DEF LatestAgrees
  <2>3. job[r].token \in Tokens \ marked /\ outcome[job[r].token] = "open"
    BY <1>8, <2>1 DEF CommitAmbiguous, CanCommit, Attempts
  <2>4. /\ life' = [life EXCEPT ![job[r].entry] = "AMBIGUOUS"]
        /\ claimToken' = [claimToken EXCEPT ![job[r].entry] = None]
        /\ outcome' = [outcome EXCEPT ![job[r].token] = "AMBIGUOUS"]
        /\ UNCHANGED <<latest, attemptEntry, issued, marked>>
    BY <1>8 DEF CommitAmbiguous, LeaveClaim, rowVars, historyVars
  <2> QED
    BY <2>1, <2>2, <2>3, <2>4
<1>9. ASSUME NEW r \in Handlers, NEW c \in ClockifyIds, Adopt(r, c) PROVE MarksSettled'
  BY <1>9 DEF Adopt, CanAdopt, CurrentAmbiguous, JobsTyped, Checking, rowVars, historyVars
<1>10. ASSUME NEW e \in Entries, RecoverExpiredClaim(e), ~HasExpiredAttempt(e)
       PROVE  MarksSettled'
  BY <1>10 DEF RecoverExpiredClaim, LeaveClaim, rowVars, historyVars
<1>11. ASSUME NEW e \in Entries, MarkNotCreated(e) PROVE MarksSettled'
  <2>1. latest[e] \in Attempts(e)
    BY <1>11 DEF MarkNotCreated, LatestAgrees
  <2>2. \A f \in Entries \ {e} : latest[f] # None => latest[f] # latest[e]
    BY <2>1 DEF LatestAgrees, Attempts
  <2>3. \A f \in Entries : claimToken[f] # latest[e]
    BY <1>11, <2>1 DEF MarkNotCreated, Attempts
  <2>4. latest[e] \in issued
    BY <2>1 DEF Attempts, RowsOwned
  <2>5. \A f \in Entries : life[f] = "AMBIGUOUS" => latest[f] # None
    BY DEF LatestAgrees
  <2> QED
    BY <1>11, <2>1, <2>2, <2>3, <2>4, <2>5 DEF MarkNotCreated, rowVars
<1>12. ASSUME NEW e \in Entries, Dismiss(e) \/ Undismiss(e) PROVE MarksSettled'
  BY <1>12 DEF Dismiss, Undismiss, attemptVars, rowVars, historyVars
<1> QED
  BY <1>1, <1>2, <1>3, <1>4, <1>5, <1>6, <1>7, <1>8, <1>9, <1>10, <1>11, <1>12, LoudOrQuiet
  DEF Loud

\* Nothing is said of an entry that is not recreated, before and after, and has no SUCCESS.
LEMMA LinksKept ==
  ASSUME LinksAgree, NEW e \in Entries,
         life[e] # "RECREATED", life'[e] # "RECREATED",
         \A a \in Attempts(e) : outcome[a] # "SUCCESS",
         UNCHANGED <<newEntryId, attemptEntry, attemptNewId>>,
         \A a \in Tokens : /\ outcome'[a] = "SUCCESS" <=> outcome[a] = "SUCCESS"
                           /\ outcome'[a] = "unstarted" <=> outcome[a] = "unstarted",
         \A f \in Entries \ {e} : life'[f] = life[f] /\ claimToken'[f] = claimToken[f]
  PROVE  LinksAgree'
<1> DEFINE Succeeded(f) == {a \in Attempts(f) : outcome[a] = "SUCCESS"}
<1>1. \A f \in Entries : Succeeded(f)' = Succeeded(f)
  <2>1. \A f \in Entries, a \in Tokens : a \in Attempts(f)' <=> a \in Attempts(f)
    BY DEF Attempts
  <2>2. \A f \in Entries : Attempts(f)' \subseteq Tokens /\ Attempts(f) \subseteq Tokens
    BY DEF Attempts
  <2> QED
    BY <2>1, <2>2
<1>2. Succeeded(e) = {}
  OBVIOUS
<1>3. ASSUME NEW f \in Entries
      PROVE  IF life'[f] = "RECREATED"
               THEN /\ newEntryId'[f] # None
                    /\ \E a \in Succeeded(f)' :
                         Succeeded(f)' = {a} /\ attemptNewId'[a] = newEntryId'[f]
               ELSE /\ newEntryId'[f] = None
                    /\ Succeeded(f)' # {} =>
                         life'[f] = "RECREATING" /\ Succeeded(f)' = {claimToken'[f]}
  <2>1. IF life[f] = "RECREATED"
          THEN /\ newEntryId[f] # None
               /\ \E a \in Succeeded(f) : Succeeded(f) = {a} /\ attemptNewId[a] = newEntryId[f]
          ELSE /\ newEntryId[f] = None
               /\ Succeeded(f) # {} => life[f] = "RECREATING" /\ Succeeded(f) = {claimToken[f]}
    BY DEF LinksAgree, RecreatedMatchesAttempt
  <2> HIDE DEF Succeeded
  <2>2. CASE f = e
    BY <1>1, <1>2, <2>1, <2>2
  <2>3. CASE f # e
    BY <1>1, <2>1, <2>3
  <2> QED
    BY <2>2, <2>3
<1>4. \A a \in Tokens : outcome'[a] = "SUCCESS" => attemptNewId'[a] # None
  BY DEF LinksAgree
<1> QED
  BY <1>3, <1>4 DEF LinksAgree, RecreatedMatchesAttempt

\* Recovering an expired attempt that is no SUCCESS makes no link.
LEMMA RecoveryLinksNothing ==
  ASSUME FullInv, NEW e \in Entries, HasExpiredAttempt(e), RecoverAttempt(e),
         UNCHANGED <<attemptEntry, attemptNewId>>, outcome[claimToken[e]] # "SUCCESS"
  PROVE  LinksAgree'
<1> DEFINE t == claimToken[e]
<1>1. /\ t \in Attempts(e) /\ t \in Tokens /\ life[e] = "RECREATING"
      /\ \A a \in Attempts(e) : outcome[a] # "SUCCESS"
  BY DEF HasExpiredAttempt, FullInv, Inv, CoreInv, SuccessShows, Attempts
<1>2. /\ \E s \in {"FAILED", "AMBIGUOUS"} : life' = [life EXCEPT ![e] = s]
      /\ \/ UNCHANGED outcome
         \/ outcome' = [outcome EXCEPT ![t] = "AMBIGUOUS"]
      /\ UNCHANGED newEntryId
      /\ claimToken' = [claimToken EXCEPT ![e] = None]
  BY DEF RecoverAttempt, LeaveClaim
<1>3. outcome[t] \notin {"SUCCESS", "unstarted"}
  BY <1>1 DEF Attempts
<1>4. \A a \in Tokens : /\ outcome'[a] = "SUCCESS" <=> outcome[a] = "SUCCESS"
                        /\ outcome'[a] = "unstarted" <=> outcome[a] = "unstarted"
  BY <1>2, <1>3 DEF FullInv, Inv, TypeInv, TypeOK
<1>5. life[e] # "RECREATED" /\ life'[e] # "RECREATED"
  BY <1>1, <1>2 DEF FullInv, Inv, TypeInv, TypeOK
<1>6. \A f \in Entries \ {e} : life'[f] = life[f] /\ claimToken'[f] = claimToken[f]
  BY <1>2 DEF FullInv, Inv, TypeInv, TypeOK
<1>7. LinksAgree
  BY DEF FullInv
<1>8. UNCHANGED <<newEntryId, attemptEntry, attemptNewId>>
  BY <1>2
<1> HIDE DEF t
<1> QED
  BY <1>1, <1>4, <1>5, <1>6, <1>7, <1>8, LinksKept

\* Recovering an expired attempt makes the link its SUCCESS records, or none.
LEMMA RecoveryLinks ==
  ASSUME FullInv, NEW e \in Entries, HasExpiredAttempt(e), RecoverAttempt(e),
         UNCHANGED <<latest, attemptEntry, attemptNewId, issued, marked>>
  PROVE  LinksAgree'
<1>1. CASE outcome[claimToken[e]] = "SUCCESS"
  <2>1. /\ claimToken[e] \in Attempts(e) /\ life[e] = "RECREATING"
        /\ \A a \in Attempts(e) : outcome[a] = "SUCCESS" => a = claimToken[e]
    BY DEF HasExpiredAttempt, FullInv, Inv, CoreInv, SuccessShows
  <2>2. /\ life' = [life EXCEPT ![e] = "RECREATED"] /\ UNCHANGED outcome
        /\ newEntryId' = [newEntryId EXCEPT ![e] = attemptNewId[claimToken[e]]]
        /\ claimToken' = [claimToken EXCEPT ![e] = None]
    BY <1>1 DEF RecoverAttempt, LeaveClaim
  <2>3. UNCHANGED <<attemptEntry, attemptNewId>>
    OBVIOUS
  <2> QED
    BY <1>1, <2>1, <2>2, <2>3, NoneAssumption
    DEF FullInv, Inv, TypeInv, TypeOK, LinksAgree, RecreatedMatchesAttempt, Attempts
<1>2. CASE outcome[claimToken[e]] # "SUCCESS"
  <2>1. UNCHANGED <<attemptEntry, attemptNewId>>
    OBVIOUS
  <2> QED
    BY <1>2, <2>1, RecoveryLinksNothing
<1> QED
  BY <1>1, <1>2

\* An attempt that succeeds, at its commit or by adoption, and the link written with it agree.
LEMMA SuccessLinks ==
  ASSUME FullInv, NEW e \in Entries, NEW t \in Attempts(e), NEW c \in ClockifyIds,
         \A a \in Attempts(e) : outcome[a] # "SUCCESS",
         life' = [life EXCEPT ![e] = "RECREATED"],
         newEntryId' = [newEntryId EXCEPT ![e] = c],
         outcome' = [outcome EXCEPT ![t] = "SUCCESS"],
         attemptNewId' = [attemptNewId EXCEPT ![t] = c],
         UNCHANGED attemptEntry,
         \A f \in Entries \ {e} : claimToken'[f] = claimToken[f]
  PROVE  LinksAgree'
<1>1. t \in Tokens /\ outcome[t] # "unstarted" /\ attemptEntry[t] = e
  BY DEF Attempts
<1>2. /\ outcome'[t] = "SUCCESS" /\ attemptNewId'[t] = c
      /\ \A a \in Tokens \ {t} : outcome'[a] = outcome[a] /\ attemptNewId'[a] = attemptNewId[a]
  BY <1>1 DEF FullInv, Inv, TypeInv, TypeOK
<1>3. /\ life'[e] = "RECREATED" /\ newEntryId'[e] = c
      /\ \A f \in Entries \ {e} : life'[f] = life[f] /\ newEntryId'[f] = newEntryId[f]
  BY DEF FullInv, Inv, TypeInv, TypeOK
<1>4. \A f \in Entries : Attempts(f)' = Attempts(f)
  BY <1>1, <1>2 DEF Attempts
<1>5. \A f \in Entries \ {e} : t \notin Attempts(f)
  BY <1>1 DEF Attempts
<1>6. \A f \in Entries : Attempts(f) \subseteq Tokens
  BY DEF Attempts
<1>7. LinksAgree
  BY DEF FullInv
<1>8. \A a \in Tokens : outcome'[a] = "SUCCESS" => attemptNewId'[a] # None
  BY <1>2, <1>7, NoneAssumption DEF LinksAgree
<1>9. {a \in Attempts(e)' : outcome'[a] = "SUCCESS"} = {t}
  BY <1>2, <1>4, <1>6
<1>10. \A f \in Entries \ {e} :
         /\ {a \in Attempts(f)' : outcome'[a] = "SUCCESS"}
              = {a \in Attempts(f) : outcome[a] = "SUCCESS"}
         /\ \A a \in Attempts(f) : attemptNewId'[a] = attemptNewId[a]
  BY <1>2, <1>4, <1>5, <1>6
<1>11. RecreatedMatchesAttempt'
  <2> SUFFICES ASSUME NEW f \in Entries
      PROVE  LET succeeded == {a \in Attempts(f)' : outcome'[a] = "SUCCESS"} IN
             IF life'[f] = "RECREATED"
               THEN /\ newEntryId'[f] # None
                    /\ \E a \in succeeded :
                         succeeded = {a} /\ attemptNewId'[a] = newEntryId'[f]
               ELSE /\ newEntryId'[f] = None
                    /\ succeeded # {} =>
                         life'[f] = "RECREATING" /\ succeeded = {claimToken'[f]}
    BY DEF RecreatedMatchesAttempt
  <2>1. CASE f = e
    BY <2>1, <1>2, <1>3, <1>9, NoneAssumption
  <2>2. CASE f # e
    BY <2>2, <1>3, <1>7, <1>10 DEF LinksAgree, RecreatedMatchesAttempt
  <2> QED
    BY <2>1, <2>2
<1> QED
  BY <1>8, <1>11 DEF LinksAgree

\* Every step keeps what successful attempts and recreated entries say of each other.
LEMMA LinksStep == FullInv /\ [Next]_vars => LinksAgree'
<1> SUFFICES ASSUME FullInv, [Next]_vars PROVE LinksAgree'
  OBVIOUS
<1> USE NoneAssumption
    DEF FullInv, Inv, TypeInv, TypeOK, CoreInv, LinksAgree, RecreatedMatchesAttempt, Attempts
<1>1. CASE UNCHANGED Relevant
  BY <1>1 DEF Relevant
<1>2. ASSUME NEW r \in Handlers, NEW t \in Tokens, Claim(r, t) PROVE LinksAgree'
  <2>1. job[r].entry \in Entries
    BY <1>2 DEF Claim, JobsTyped
  <2>2. \A a \in Attempts(job[r].entry) : outcome[a] # "SUCCESS"
    BY <1>2, <2>1 DEF Claim, Claimable, Actionable, HasExpiredAttempt, SuccessShows
  <2> QED
    BY <1>2, <2>1, <2>2 DEF Claim, attemptVars, rowVars
<1>3. ASSUME NEW e \in Entries, HasExpiredAttempt(e), RecoverAttempt(e),
             UNCHANGED <<latest, attemptEntry, attemptNewId, issued, marked>>
      PROVE  LinksAgree'
  BY ONLY FullInv, <1>3, RecoveryLinks
<1>4. ASSUME NEW r \in Handlers, BaselineFails(r), HoldsClaim(job[r].entry, job[r].token)
      PROVE  LinksAgree'
  <2>1. job[r].entry \in Entries /\ job[r].prior \in Actionable /\ job[r].token \in Tokens
    BY <1>4 DEF BaselineFails, JobsTyped, Claiming
  <2>2. outcome[job[r].token] = "unstarted" /\ life[job[r].entry] = "RECREATING"
    <3>1. outcome[job[r].token] = "unstarted"
      BY <1>4 DEF BaselineFails, HandlersAgree, Claiming
    <3>2. claimToken[job[r].entry] # None
      BY <1>4, <2>1 DEF HoldsClaim
    <3> QED
      BY <2>1, <3>1, <3>2 DEF ClaimsAgree
  <2>3. \A a \in Attempts(job[r].entry) : outcome[a] # "SUCCESS"
    <3>1. claimToken[job[r].entry] = job[r].token
      BY <1>4 DEF HoldsClaim
    <3>2. SuccessShows
      OBVIOUS
    <3> QED
      BY ONLY <2>1, <2>2, <3>1, <3>2 DEF SuccessShows
  <2>4. /\ life' = [life EXCEPT ![job[r].entry] = job[r].prior]
        /\ claimToken' = [claimToken EXCEPT ![job[r].entry] = None]
        /\ UNCHANGED <<newEntryId, outcome, attemptEntry, attemptNewId>>
    BY <1>4 DEF BaselineFails, LeaveClaim, attemptVars, rowVars
  <2> QED
    BY <2>1, <2>2, <2>3, <2>4 DEF Actionable
<1>5. ASSUME NEW r \in Handlers, StartAttempt(r) PROVE LinksAgree'
  <2>1. job[r].entry \in Entries /\ job[r].token \in Tokens
    BY <1>5 DEF StartAttempt, JobsTyped, Claiming
  <2>2. outcome[job[r].token] = "unstarted"
    BY <1>5 DEF StartAttempt, HandlersAgree, Claiming
  <2> QED
    BY <1>5, <2>1, <2>2 DEF StartAttempt, HoldsClaim
<1>6. ASSUME NEW r \in Handlers, NEW c \in ClockifyIds, CommitCreated(r, c) PROVE LinksAgree'
  <2> DEFINE e == job[r].entry
             t == job[r].token
  <2>1. /\ e \in Entries /\ t \in Attempts(e) /\ claimToken[e] = t /\ outcome[t] = "open"
        /\ life[e] = "RECREATING"
    BY <1>6 DEF CommitCreated, CanCommit, HoldsClaim, JobsTyped, Claiming, HandlersAgree, ClaimsAgree
  <2>2. \A a \in Attempts(e) : outcome[a] # "SUCCESS"
    BY <2>1 DEF SuccessShows
  <2>3. /\ life' = [life EXCEPT ![e] = "RECREATED"]
        /\ claimToken' = [claimToken EXCEPT ![e] = None]
        /\ newEntryId' = [newEntryId EXCEPT ![e] = c]
        /\ outcome' = [outcome EXCEPT ![t] = "SUCCESS"]
        /\ attemptNewId' = [attemptNewId EXCEPT ![t] = c]
        /\ UNCHANGED attemptEntry
    BY <1>6 DEF CommitCreated, LeaveClaim, rowVars
  <2>4. \A f \in Entries \ {e} : claimToken'[f] = claimToken[f]
    BY <2>3
  <2> HIDE DEF e, t
  <2> QED
    BY ONLY FullInv, <2>1, <2>2, <2>3, <2>4, SuccessLinks
<1>7. ASSUME NEW r \in Handlers, CommitRejected(r) PROVE LinksAgree'
  <2> DEFINE e == job[r].entry
             t == job[r].token
  <2>1. /\ e \in Entries /\ t \in Attempts(e) /\ claimToken[e] = t /\ outcome[t] = "open"
        /\ life[e] = "RECREATING"
    BY <1>7 DEF CommitRejected, CanCommit, HoldsClaim, JobsTyped, Claiming, HandlersAgree, ClaimsAgree
  <2>2. \A a \in Attempts(e) : outcome[a] # "SUCCESS"
    BY <2>1 DEF SuccessShows
  <2>3. /\ life' = [life EXCEPT ![e] = "FAILED"]
        /\ claimToken' = [claimToken EXCEPT ![e] = None]
        /\ outcome' = [outcome EXCEPT ![t] = "FAILED"]
        /\ UNCHANGED <<newEntryId, attemptNewId, attemptEntry>>
    BY <1>7 DEF CommitRejected, LeaveClaim, rowVars
  <2> QED
    BY <2>1, <2>2, <2>3
<1>8. ASSUME NEW r \in Handlers, CommitAmbiguous(r) PROVE LinksAgree'
  <2> DEFINE e == job[r].entry
             t == job[r].token
  <2>1. /\ e \in Entries /\ t \in Attempts(e) /\ claimToken[e] = t /\ outcome[t] = "open"
        /\ life[e] = "RECREATING"
    BY <1>8 DEF CommitAmbiguous, CanCommit, HoldsClaim, JobsTyped, Claiming, HandlersAgree, ClaimsAgree
  <2>2. \A a \in Attempts(e) : outcome[a] # "SUCCESS"
    BY <2>1 DEF SuccessShows
  <2>3. /\ life' = [life EXCEPT ![e] = "AMBIGUOUS"]
        /\ claimToken' = [claimToken EXCEPT ![e] = None]
        /\ outcome' = [outcome EXCEPT ![t] = "AMBIGUOUS"]
        /\ UNCHANGED <<newEntryId, attemptNewId, attemptEntry>>
    BY <1>8 DEF CommitAmbiguous, LeaveClaim, rowVars
  <2> QED
    BY <2>1, <2>2, <2>3
<1>9. ASSUME NEW r \in Handlers, NEW c \in ClockifyIds, Adopt(r, c) PROVE LinksAgree'
  <2> DEFINE e == job[r].entry
             a == job[r].token
  <2>1. /\ e \in Entries /\ life[e] = "AMBIGUOUS" /\ latest[e] = a /\ a \in Attempts(e)
    BY <1>9 DEF Adopt, CanAdopt, CurrentAmbiguous, JobsTyped, Checking, LatestAgrees
  <2>2. \A b \in Attempts(e) : outcome[b] # "SUCCESS"
    BY <2>1 DEF SuccessShows
  <2>3. /\ life' = [life EXCEPT ![e] = "RECREATED"]
        /\ newEntryId' = [newEntryId EXCEPT ![e] = c]
        /\ outcome' = [outcome EXCEPT ![a] = "SUCCESS"]
        /\ attemptNewId' = [attemptNewId EXCEPT ![a] = c]
        /\ UNCHANGED <<attemptEntry, claimToken>>
    BY <1>9 DEF Adopt, rowVars
  <2>4. \A f \in Entries \ {e} : claimToken'[f] = claimToken[f]
    BY <2>3
  <2>5. UNCHANGED attemptEntry
    BY <2>3
  <2> HIDE DEF e, a
  <2> QED
    BY ONLY FullInv, <2>1, <2>2, <2>3, <2>4, <2>5, SuccessLinks
<1>10. ASSUME NEW e \in Entries, RecoverExpiredClaim(e), ~HasExpiredAttempt(e)
       PROVE  LinksAgree'
  <2>1. \A a \in Attempts(e) : outcome[a] # "SUCCESS"
    BY <1>10 DEF RecoverExpiredClaim, HasExpiredAttempt, SuccessShows
  <2> QED
    BY <1>10, <2>1 DEF RecoverExpiredClaim, LeaveClaim, rowVars
<1>11. ASSUME NEW e \in Entries, MarkNotCreated(e) \/ Dismiss(e) \/ Undismiss(e)
       PROVE  LinksAgree'
  <2>1. \A a \in Attempts(e) : outcome[a] # "SUCCESS"
    BY <1>11 DEF MarkNotCreated, Dismiss, Undismiss, Actionable, SuccessShows
  <2> QED
    BY <1>11, <2>1 DEF MarkNotCreated, Dismiss, Undismiss, Actionable, attemptVars, rowVars
<1> QED
  BY <1>1, <1>2, <1>3, <1>4, <1>5, <1>6, <1>7, <1>8, <1>9, <1>10, <1>11, LoudOrQuiet DEF Loud

\* The first rows agree with one another.
LEMMA InitFull == Init => FullInv
<1> SUFFICES ASSUME NEW h \in HalfCommitted \cup {None}, InitRows(h)
             PROVE  MarksSettled /\ LinksAgree
  BY InitInv DEF Init, FullInv
<1> USE NoneAssumption
<1>1. CASE h = None
  BY <1>1 DEF InitRows, MarksSettled, LinksAgree, RecreatedMatchesAttempt, Attempts
<1>2. CASE h # None
  <2>1. /\ h.entry \in Entries /\ h.token \in Tokens /\ h.made \in ClockifyIds
        /\ h.outcome \in {"SUCCESS", "FAILED", "AMBIGUOUS"}
    BY <1>2, LegacyAssumption DEF HalfCommitted
  <2>2. MarksSettled
    BY <1>2, <2>1 DEF InitRows, MarksSettled
  <2>3. LinksAgree
    BY <1>2, <2>1 DEF InitRows, LinksAgree, RecreatedMatchesAttempt, Attempts
  <2> QED
    BY <2>2, <2>3
<1> QED
  BY <1>1, <1>2

\* Every step keeps FullInv.
LEMMA FullStep == FullInv /\ [Next]_vars => FullInv'
<1>1. FullInv /\ [Next]_vars => Inv'
  BY TypeStep, CoreStep, HandlersStep, WireStep DEF Inv, FullInv
<1> QED
  BY <1>1, MarksStep, LinksStep DEF FullInv

-----------------------------------------------------------------------------
(* The doubt, read off the state and the claim alone. *)

\* The create under the claim, or the latest one of an AMBIGUOUS entry, may have been obeyed.
MayHaveCreated(e) ==
  \/ life[e] = "AMBIGUOUS"
  \/ life[e] = "RECREATING" /\ claimToken[e] \in Attempts(e) /\ outcome[claimToken[e]] # "FAILED"

\* FullInv makes the two views of a doubt the same.
DoubtsAgree == \A e \in Entries : InDoubt(e) <=> MayHaveCreated(e)

\* A doubt is what MayHaveCreated says.
LEMMA DoubtIs == FullInv => DoubtsAgree
<1> SUFFICES ASSUME FullInv, NEW e \in Entries PROVE InDoubt(e) <=> MayHaveCreated(e)
  BY DEF DoubtsAgree
<1> USE DEF FullInv, Inv, CoreInv
<1>1. ASSUME NEW a \in Attempts(e) \ marked, outcome[a] \in {"open", "AMBIGUOUS"}
      PROVE  MayHaveCreated(e)
  BY <1>1 DEF NoBlindRetry, MayHaveCreated
<1>2. ASSUME NEW a \in Attempts(e) \ marked, outcome[a] = "SUCCESS", life[e] = "RECREATING"
      PROVE  MayHaveCreated(e)
  BY <1>2 DEF SuccessShows, MayHaveCreated
<1>3. ASSUME life[e] = "AMBIGUOUS" PROVE InDoubt(e)
  <2>1. latest[e] \in Attempts(e) \ marked /\ outcome[latest[e]] = "AMBIGUOUS"
    BY <1>3 DEF LatestAgrees, MarksSettled
  <2> QED
    BY <2>1 DEF InDoubt
<1>4. ASSUME life[e] = "RECREATING", claimToken[e] \in Attempts(e),
             outcome[claimToken[e]] # "FAILED"
      PROVE  InDoubt(e)
  <2>1. claimToken[e] \in Attempts(e) \ marked
    BY <1>4 DEF MarksSettled
  <2>2. outcome[claimToken[e]] \in {"open", "AMBIGUOUS", "SUCCESS"}
    BY <1>4 DEF TypeInv, TypeOK, Outcomes, Attempts
  <2> QED
    BY <1>4, <2>1, <2>2 DEF InDoubt
<1> QED
  BY <1>1, <1>2, <1>3, <1>4 DEF InDoubt, MayHaveCreated

\* What a step that is about one entry does to the doubts.
LEMMA DoubtBecomes ==
  ASSUME FullInv, FullInv', NEW e \in Entries, NEW b \in BOOLEAN,
         MayHaveCreated(e)' <=> b,
         \A f \in Entries \ {e} : MayHaveCreated(f)' <=> MayHaveCreated(f)
  PROVE  Doubts' = [Doubts EXCEPT ![e] = b]
<1>0. DoubtsAgree /\ DoubtsAgree'
  BY DoubtIs, PTL
<1>1. \A f \in Entries : InDoubt(f) <=> MayHaveCreated(f)
  BY <1>0 DEF DoubtsAgree
<1>2. \A f \in Entries : InDoubt(f)' <=> MayHaveCreated(f)'
  BY <1>0 DEF DoubtsAgree
<1>3. InDoubt(e)' = b
  BY <1>2 DEF InDoubt
<1>4. \A f \in Entries \ {e} : InDoubt(f)' = InDoubt(f)
  BY <1>1, <1>2 DEF InDoubt
<1> QED
  BY <1>3, <1>4 DEF Doubts

\* A step that keeps what every entry may have created keeps the doubts.
LEMMA DoubtsKept ==
  ASSUME FullInv, FullInv', \A f \in Entries : MayHaveCreated(f)' <=> MayHaveCreated(f)
  PROVE  Doubts' = Doubts
<1>0. DoubtsAgree /\ DoubtsAgree'
  BY DoubtIs, PTL
<1>1. \A f \in Entries : InDoubt(f)' = InDoubt(f)
  BY <1>0 DEF DoubtsAgree, InDoubt
<1> QED
  BY <1>1 DEF Doubts

\* The mapped doubt of an entry.
LEMMA DoubtValue ==
  ASSUME FullInv, NEW e \in Entries PROVE Doubts[e] <=> MayHaveCreated(e)
BY DoubtIs DEF DoubtsAgree, Doubts

\* A step that touches the state, the claim and the attempts of one entry leaves the others alone.
LEMMA OthersKept ==
  ASSUME NEW e \in Entries,
         \A f \in Entries \ {e} : life'[f] = life[f] /\ claimToken'[f] = claimToken[f],
         \A a \in Tokens :
           \/ outcome'[a] = outcome[a] /\ attemptEntry'[a] = attemptEntry[a]
           \/ attemptEntry'[a] = e /\ (outcome[a] = "unstarted" \/ attemptEntry[a] = e)
  PROVE  \A f \in Entries \ {e} : MayHaveCreated(f)' <=> MayHaveCreated(f)
BY DEF MayHaveCreated, Attempts

\* A step that moves nothing the mapping reads is a stutter of the lifecycle.
LEMMA Stutter ==
  ASSUME FullInv, FullInv', UNCHANGED Relevant PROVE UNCHANGED Lifecycle!vars
<1>1. \A f \in Entries : MayHaveCreated(f)' <=> MayHaveCreated(f)
  BY DEF Relevant, MayHaveCreated, Attempts
<1> QED
  BY <1>1, DoubtsKept DEF Relevant, Lifecycle!vars

-----------------------------------------------------------------------------
(* One lemma for each step that moves an entry. *)

\* A claim of an actionable entry is a Claim; taking over a lapsed claim that started nothing is a
\* stutter.
LEMMA ClaimMaps ==
  ASSUME FullInv, FullInv', NEW r \in Handlers, NEW t \in Tokens, Claim(r, t)
  PROVE  [Lifecycle!Next]_(Lifecycle!vars)
<1>0. PICK e \in Entries : e = job[r].entry
  BY DEF Claim, FullInv, Inv, TypeInv, JobsTyped
<1>1. /\ ~HasExpiredAttempt(e) /\ Claimable(e) /\ outcome[t] = "unstarted"
      /\ life' = [life EXCEPT ![e] = "RECREATING"]
      /\ claimToken' = [claimToken EXCEPT ![e] = t]
      /\ UNCHANGED <<newEntryId, outcome, attemptEntry>>
  BY <1>0 DEF Claim, attemptVars, rowVars, FullInv, Inv, TypeInv, RowsOwned
<1>2. ~MayHaveCreated(e)
  BY <1>1 DEF MayHaveCreated, Claimable, HasExpiredAttempt, Actionable
<1>3. ~MayHaveCreated(e)'
  BY <1>1 DEF MayHaveCreated, Attempts, FullInv, Inv, TypeInv, TypeOK
<1>4. \A f \in Entries \ {e} : MayHaveCreated(f)' <=> MayHaveCreated(f)
  BY <1>1, OthersKept DEF FullInv, Inv, TypeInv, TypeOK
<1>5. Doubts' = Doubts
  BY <1>2, <1>3, <1>4, DoubtsKept
<1>6. CASE life[e] \in Actionable
  <2>1. Lifecycle!Claim(e)
    BY <1>1, <1>2, <1>5, <1>6, DoubtValue
    DEF Lifecycle!Claim, Lifecycle!Becomes, Lifecycle!Actionable, Actionable
  <2> QED
    BY <1>1, <2>1 DEF Lifecycle!Next, Lifecycle!Step
<1>7. CASE life[e] \notin Actionable
  <2>1. life' = life
    BY <1>1, <1>7 DEF Claimable, FullInv, Inv, TypeInv, TypeOK
  <2> QED
    BY <1>1, <1>5, <2>1 DEF Lifecycle!vars
<1> QED
  BY <1>6, <1>7

\* What leaves a claim with no create in doubt behind is a Release.
LEMMA ReleaseMaps ==
  ASSUME FullInv, FullInv', NEW e \in Entries, NEW s \in Actionable,
         life[e] = "RECREATING", claimToken[e] \notin Attempts(e),
         life' = [life EXCEPT ![e] = s], claimToken' = [claimToken EXCEPT ![e] = None],
         UNCHANGED <<newEntryId, outcome, attemptEntry>>
  PROVE  [Lifecycle!Next]_(Lifecycle!vars)
<1>1. ~MayHaveCreated(e) /\ ~MayHaveCreated(e)'
  BY DEF MayHaveCreated, Actionable, FullInv, Inv, TypeInv, TypeOK
<1>2. \A f \in Entries \ {e} : MayHaveCreated(f)' <=> MayHaveCreated(f)
  BY OthersKept DEF FullInv, Inv, TypeInv, TypeOK
<1>3. Doubts' = Doubts
  BY <1>1, <1>2, DoubtsKept
<1>4. Lifecycle!Release(e)
  BY <1>1, <1>3, DoubtValue
  DEF Lifecycle!Release, Lifecycle!Becomes, Lifecycle!Actionable, Actionable
<1> QED
  BY <1>4 DEF Lifecycle!Next, Lifecycle!Step

\* Starting the attempt is what Send describes.
LEMMA StartMaps ==
  ASSUME FullInv, FullInv', NEW r \in Handlers, StartAttempt(r)
  PROVE  [Lifecycle!Next]_(Lifecycle!vars)
<1>0. PICK e \in Entries, t \in Tokens : e = job[r].entry /\ t = job[r].token
  BY DEF StartAttempt, FullInv, Inv, TypeInv, TypeOK, JobsTyped, Claiming
<1>1. /\ life[e] = "RECREATING" /\ claimToken[e] = t /\ outcome[t] = "unstarted"
      /\ outcome' = [outcome EXCEPT ![t] = "open"]
      /\ attemptEntry' = [attemptEntry EXCEPT ![t] = e]
      /\ UNCHANGED <<life, claimToken, newEntryId>>
  BY <1>0 DEF StartAttempt, HoldsClaim, FullInv, Inv, HandlersAgree, Claiming
<1>2. ~MayHaveCreated(e) /\ MayHaveCreated(e)'
  BY <1>1 DEF MayHaveCreated, Attempts, FullInv, Inv, TypeInv, TypeOK
<1>3. \A f \in Entries \ {e} : MayHaveCreated(f)' <=> MayHaveCreated(f)
  BY <1>1, OthersKept DEF FullInv, Inv, TypeInv, TypeOK
<1>4. Doubts' = [Doubts EXCEPT ![e] = TRUE]
  BY <1>1, <1>2, <1>3, DoubtBecomes
<1>5. Lifecycle!Send(e)
  BY <1>1, <1>2, <1>4, DoubtValue DEF Lifecycle!Send
<1> QED
  BY <1>1, <1>5 DEF Lifecycle!Next, Lifecycle!Step

\* An attempt of an entry is settled: nothing of the others moves.
LEMMA SettledOthers ==
  ASSUME FullInv, NEW e \in Entries, NEW t \in Attempts(e),
         NEW s, life' = [life EXCEPT ![e] = s],
         \/ UNCHANGED claimToken
         \/ claimToken' = [claimToken EXCEPT ![e] = None],
         \/ UNCHANGED outcome
         \/ \E o \in Outcomes : outcome' = [outcome EXCEPT ![t] = o],
         UNCHANGED attemptEntry
  PROVE  \A f \in Entries \ {e} : MayHaveCreated(f)' <=> MayHaveCreated(f)
<1>1. \A f \in Entries \ {e} : life'[f] = life[f] /\ claimToken'[f] = claimToken[f]
  BY DEF FullInv, Inv, TypeInv, TypeOK
<1>2. \A a \in Tokens :
        \/ outcome'[a] = outcome[a] /\ attemptEntry'[a] = attemptEntry[a]
        \/ attemptEntry'[a] = e /\ (outcome[a] = "unstarted" \/ attemptEntry[a] = e)
  BY DEF FullInv, Inv, TypeInv, TypeOK, Attempts
<1> QED
  BY <1>1, <1>2, OthersKept

\* A settled attempt that made the entry RECREATED is a Succeed.
LEMMA SucceedMaps ==
  ASSUME FullInv, FullInv', NEW e \in Entries, NEW t \in Attempts(e), NEW c \in ClockifyIds,
         MayHaveCreated(e), ~LinkedElsewhere(c, e),
         life' = [life EXCEPT ![e] = "RECREATED"],
         newEntryId' = [newEntryId EXCEPT ![e] = c],
         UNCHANGED claimToken \/ claimToken' = [claimToken EXCEPT ![e] = None],
         UNCHANGED outcome \/ outcome' = [outcome EXCEPT ![t] = "SUCCESS"],
         UNCHANGED attemptEntry
  PROVE  [Lifecycle!Next]_(Lifecycle!vars)
<1>1. ~MayHaveCreated(e)'
  BY DEF MayHaveCreated, FullInv, Inv, TypeInv, TypeOK
<1>2. \A f \in Entries \ {e} : MayHaveCreated(f)' <=> MayHaveCreated(f)
  BY SettledOthers DEF Outcomes
<1>3. Doubts' = [Doubts EXCEPT ![e] = FALSE]
  BY <1>1, <1>2, DoubtBecomes
<1>4. life[e] \in {"RECREATING", "AMBIGUOUS"} /\ Doubts[e]
  BY DoubtValue DEF MayHaveCreated
<1>5. Lifecycle!Succeed(e, c)
  BY <1>3, <1>4 DEF Lifecycle!Succeed, Lifecycle!Becomes, LinkedElsewhere
<1> QED
  BY <1>5 DEF Lifecycle!Next, Lifecycle!Step

\* A rejected attempt is a Reject.
LEMMA RejectMaps ==
  ASSUME FullInv, FullInv', NEW e \in Entries, NEW t \in Attempts(e),
         life[e] = "RECREATING", MayHaveCreated(e),
         life' = [life EXCEPT ![e] = "FAILED"],
         claimToken' = [claimToken EXCEPT ![e] = None],
         outcome' = [outcome EXCEPT ![t] = "FAILED"],
         UNCHANGED <<newEntryId, attemptEntry>>
  PROVE  [Lifecycle!Next]_(Lifecycle!vars)
<1>1. ~MayHaveCreated(e)'
  BY DEF MayHaveCreated, FullInv, Inv, TypeInv, TypeOK
<1>2. UNCHANGED attemptEntry
  OBVIOUS
<1>3. \A f \in Entries \ {e} : MayHaveCreated(f)' <=> MayHaveCreated(f)
  BY <1>2, SettledOthers DEF Outcomes
<1>4. Doubts' = [Doubts EXCEPT ![e] = FALSE]
  BY <1>1, <1>3, DoubtBecomes
<1>5. Doubts[e]
  BY DoubtValue
<1>6. Lifecycle!Reject(e)
  BY <1>4, <1>5 DEF Lifecycle!Reject, Lifecycle!Becomes
<1> QED
  BY <1>6 DEF Lifecycle!Next, Lifecycle!Step

\* An attempt whose answer is lost is a LoseTrack.
LEMMA LoseMaps ==
  ASSUME FullInv, FullInv', NEW e \in Entries, NEW t \in Attempts(e),
         life[e] = "RECREATING", MayHaveCreated(e),
         life' = [life EXCEPT ![e] = "AMBIGUOUS"],
         claimToken' = [claimToken EXCEPT ![e] = None],
         outcome' = [outcome EXCEPT ![t] = "AMBIGUOUS"],
         UNCHANGED <<newEntryId, attemptEntry>>
  PROVE  [Lifecycle!Next]_(Lifecycle!vars)
<1>1. MayHaveCreated(e)'
  BY DEF MayHaveCreated, FullInv, Inv, TypeInv, TypeOK
<1>2. UNCHANGED attemptEntry
  OBVIOUS
<1>3. \A f \in Entries \ {e} : MayHaveCreated(f)' <=> MayHaveCreated(f)
  BY <1>2, SettledOthers DEF Outcomes
<1>4. Doubts' = Doubts
  BY <1>1, <1>3, DoubtsKept
<1>5. Doubts[e]
  BY DoubtValue
<1>6. Lifecycle!LoseTrack(e)
  BY <1>4, <1>5 DEF Lifecycle!LoseTrack, Lifecycle!Becomes
<1> QED
  BY <1>6 DEF Lifecycle!Next, Lifecycle!Step

\* Recovering an expired attempt settles it as it was recorded, or as unknown.
LEMMA RecoveryMaps ==
  ASSUME FullInv, FullInv', NEW e \in Entries, HasExpiredAttempt(e), RecoverAttempt(e),
         UNCHANGED <<latest, attemptEntry, attemptNewId, issued, marked>>
  PROVE  [Lifecycle!Next]_(Lifecycle!vars)
<1>0. PICK t \in Attempts(e) : t = claimToken[e]
  BY DEF HasExpiredAttempt
<1>1. life[e] = "RECREATING" /\ t \in Tokens /\ UNCHANGED attemptEntry
  BY DEF HasExpiredAttempt, Attempts
<1>2. CASE outcome[t] = "SUCCESS"
  <2>1. attemptNewId[t] \in ClockifyIds
    BY <1>1, <1>2 DEF FullInv, LinksAgree, Inv, TypeInv, TypeOK
  <2>2. PICK c \in ClockifyIds : c = attemptNewId[t]
    BY <2>1
  <2>3. /\ ~LinkedElsewhere(c, e)
        /\ life' = [life EXCEPT ![e] = "RECREATED"]
        /\ newEntryId' = [newEntryId EXCEPT ![e] = c]
        /\ claimToken' = [claimToken EXCEPT ![e] = None]
        /\ UNCHANGED outcome
    BY <1>0, <1>2, <2>2 DEF RecoverAttempt, LeaveClaim
  <2>4. MayHaveCreated(e)
    BY <1>0, <1>1, <1>2 DEF MayHaveCreated
  <2> QED
    BY <1>1, <2>3, <2>4, SucceedMaps
<1>3. CASE outcome[t] = "FAILED"
  <2>1. /\ life' = [life EXCEPT ![e] = "FAILED"]
        /\ claimToken' = [claimToken EXCEPT ![e] = None]
        /\ UNCHANGED <<newEntryId, outcome>>
    BY <1>0, <1>3 DEF RecoverAttempt, LeaveClaim
  <2>2. ~MayHaveCreated(e) /\ ~MayHaveCreated(e)'
    BY <1>0, <1>1, <1>3, <2>1 DEF MayHaveCreated, FullInv, Inv, TypeInv, TypeOK
  <2>3. \A f \in Entries \ {e} : MayHaveCreated(f)' <=> MayHaveCreated(f)
    BY <1>1, <2>1, SettledOthers
  <2>4. Doubts' = Doubts
    BY <2>2, <2>3, DoubtsKept
  <2>5. Lifecycle!Release(e)
    BY <1>1, <2>1, <2>2, <2>4, DoubtValue
    DEF Lifecycle!Release, Lifecycle!Becomes, Lifecycle!Actionable
  <2> QED
    BY <2>5 DEF Lifecycle!Next, Lifecycle!Step
<1>4. CASE outcome[t] \in {"open", "AMBIGUOUS"}
  <2>1. /\ life' = [life EXCEPT ![e] = "AMBIGUOUS"]
        /\ claimToken' = [claimToken EXCEPT ![e] = None]
        /\ outcome' = [outcome EXCEPT ![t] = "AMBIGUOUS"]
        /\ UNCHANGED <<newEntryId, attemptEntry>>
    BY <1>0, <1>1, <1>4 DEF RecoverAttempt, LeaveClaim
  <2>2. MayHaveCreated(e)
    BY <1>0, <1>1, <1>4 DEF MayHaveCreated
  <2> QED
    BY <1>1, <2>1, <2>2, LoseMaps
<1> QED
  BY <1>0, <1>2, <1>3, <1>4 DEF RecoverAttempt

\* What a handler that is still fenced knows of its entry and its attempt.
LEMMA Fenced ==
  ASSUME FullInv, NEW r \in Handlers, pc[r] = "creating", CanCommit(job[r].entry, job[r].token)
  PROVE  \E e \in Entries : \E t \in Attempts(e) :
           /\ e = job[r].entry /\ t = job[r].token /\ claimToken[e] = t
           /\ life[e] = "RECREATING" /\ MayHaveCreated(e)
<1> USE DEF FullInv, Inv
<1>1. PICK e \in Entries : e = job[r].entry
  BY DEF TypeInv, JobsTyped, Claiming
<1>2. PICK t \in Attempts(e) : t = job[r].token
  BY <1>1 DEF HandlersAgree, Claiming
<1>3. claimToken[e] = t /\ outcome[t] = "open"
  BY <1>1, <1>2 DEF CanCommit, HoldsClaim
<1>4. life[e] = "RECREATING"
  BY <1>2, <1>3, NoneAssumption DEF CoreInv, ClaimsAgree, Attempts
<1> QED
  BY <1>1, <1>2, <1>3, <1>4 DEF MayHaveCreated

\* An outcome that a handler commits.
LEMMA CommitMaps ==
  ASSUME FullInv, FullInv', NEW r \in Handlers,
         \/ \E c \in ClockifyIds : CommitCreated(r, c)
         \/ CommitRejected(r)
         \/ CommitAmbiguous(r)
  PROVE  [Lifecycle!Next]_(Lifecycle!vars)
<1>0. pc[r] = "creating" /\ CanCommit(job[r].entry, job[r].token)
  BY DEF CommitCreated, CommitRejected, CommitAmbiguous
<1>1. PICK e \in Entries : \E t \in Attempts(e) :
        /\ e = job[r].entry /\ t = job[r].token /\ claimToken[e] = t
        /\ life[e] = "RECREATING" /\ MayHaveCreated(e)
  BY <1>0, Fenced
<1>2. PICK t \in Attempts(e) :
        /\ e = job[r].entry /\ t = job[r].token /\ claimToken[e] = t
        /\ life[e] = "RECREATING" /\ MayHaveCreated(e)
  BY <1>1
<1>3. ASSUME NEW c \in ClockifyIds, CommitCreated(r, c)
      PROVE  [Lifecycle!Next]_(Lifecycle!vars)
  <2>1. /\ ~LinkedElsewhere(c, e)
        /\ life' = [life EXCEPT ![e] = "RECREATED"]
        /\ newEntryId' = [newEntryId EXCEPT ![e] = c]
        /\ claimToken' = [claimToken EXCEPT ![e] = None]
        /\ outcome' = [outcome EXCEPT ![t] = "SUCCESS"]
        /\ UNCHANGED attemptEntry
    BY <1>2, <1>3 DEF CommitCreated, LeaveClaim, rowVars
  <2> QED
    BY <1>2, <2>1, SucceedMaps
<1>4. CASE CommitRejected(r)
  <2>1. /\ life' = [life EXCEPT ![e] = "FAILED"]
        /\ claimToken' = [claimToken EXCEPT ![e] = None]
        /\ outcome' = [outcome EXCEPT ![t] = "FAILED"]
        /\ UNCHANGED <<newEntryId, attemptEntry>>
    BY <1>2, <1>4 DEF CommitRejected, LeaveClaim, rowVars
  <2> QED
    BY <1>2, <2>1, RejectMaps
<1>5. CASE CommitAmbiguous(r)
  <2>1. /\ life' = [life EXCEPT ![e] = "AMBIGUOUS"]
        /\ claimToken' = [claimToken EXCEPT ![e] = None]
        /\ outcome' = [outcome EXCEPT ![t] = "AMBIGUOUS"]
        /\ UNCHANGED <<newEntryId, attemptEntry>>
    BY <1>2, <1>5 DEF CommitAmbiguous, LeaveClaim, rowVars
  <2> QED
    BY <1>2, <2>1, LoseMaps
<1> QED
  BY <1>3, <1>4, <1>5

\* A time entry that a check, or the user, found.
LEMMA AdoptMaps ==
  ASSUME FullInv, FullInv', NEW r \in Handlers, NEW c \in ClockifyIds, Adopt(r, c)
  PROVE  [Lifecycle!Next]_(Lifecycle!vars)
<1>1. PICK e \in Entries : e = job[r].entry
  BY DEF Adopt, FullInv, Inv, TypeInv, JobsTyped, Checking
<1>2. life[e] = "AMBIGUOUS" /\ latest[e] = job[r].token /\ ~LinkedElsewhere(c, e)
  BY <1>1 DEF Adopt, CanAdopt, CurrentAmbiguous
<1>3. PICK t \in Attempts(e) : t = job[r].token
  BY <1>2 DEF FullInv, Inv, CoreInv, LatestAgrees
<1>4. /\ life' = [life EXCEPT ![e] = "RECREATED"]
      /\ newEntryId' = [newEntryId EXCEPT ![e] = c]
      /\ outcome' = [outcome EXCEPT ![t] = "SUCCESS"]
      /\ UNCHANGED claimToken
      /\ UNCHANGED attemptEntry
  BY <1>1, <1>3 DEF Adopt, rowVars
<1>5. MayHaveCreated(e)
  BY <1>2 DEF MayHaveCreated
<1> QED
  BY <1>2, <1>4, <1>5, SucceedMaps

\* The steps that only move the state of an entry which is not claimed.
LEMMA UserMaps ==
  ASSUME FullInv, FullInv', NEW e \in Entries,
         MarkNotCreated(e) \/ Dismiss(e) \/ Undismiss(e)
  PROVE  [Lifecycle!Next]_(Lifecycle!vars)
<1>1. UNCHANGED <<newEntryId, claimToken, outcome, attemptEntry>>
  BY DEF MarkNotCreated, Dismiss, Undismiss, attemptVars, rowVars
<1>2. ~MayHaveCreated(e)'
  BY DEF MarkNotCreated, Dismiss, Undismiss, MayHaveCreated, FullInv, Inv, TypeInv, TypeOK
<1>3. \A f \in Entries \ {e} : MayHaveCreated(f)' <=> MayHaveCreated(f)
  BY <1>1 DEF MarkNotCreated, Dismiss, Undismiss, MayHaveCreated, Attempts, FullInv, Inv, TypeInv,
              TypeOK
<1>4. CASE MarkNotCreated(e)
  <2>1. Doubts' = [Doubts EXCEPT ![e] = FALSE]
    BY <1>2, <1>3, DoubtBecomes
  <2>2. Lifecycle!MarkNotCreated(e)
    BY <1>4, <2>1 DEF MarkNotCreated, Lifecycle!MarkNotCreated, Lifecycle!Becomes
  <2> QED
    BY <2>2 DEF Lifecycle!Next, Lifecycle!Step
<1>5. CASE Dismiss(e) \/ Undismiss(e)
  <2>1. ~MayHaveCreated(e)
    BY <1>5 DEF Dismiss, Undismiss, Actionable, MayHaveCreated
  <2>2. Doubts' = Doubts
    BY <1>2, <1>3, <2>1, DoubtsKept
  <2>3. Lifecycle!Dismiss(e) \/ Lifecycle!Undismiss(e)
    BY <1>5, <2>2
    DEF Dismiss, Undismiss, Actionable, Lifecycle!Dismiss, Lifecycle!Undismiss,
        Lifecycle!Becomes, Lifecycle!Actionable
  <2> QED
    BY <2>3 DEF Lifecycle!Next, Lifecycle!Step
<1> QED
  BY <1>4, <1>5

-----------------------------------------------------------------------------
(* The theorems. *)

\* Every step is a step of the lifecycle or a stutter.
LEMMA StepMaps == FullInv /\ FullInv' /\ [Next]_vars => [Lifecycle!Next]_(Lifecycle!vars)
<1> SUFFICES ASSUME FullInv, FullInv', [Next]_vars PROVE [Lifecycle!Next]_(Lifecycle!vars)
  OBVIOUS
<1>1. Loud \/ UNCHANGED Relevant
  BY LoudOrQuiet DEF FullInv, Inv
<1>2. CASE UNCHANGED Relevant
  BY <1>2, Stutter
<1>3. ASSUME NEW r \in Handlers, BaselineFails(r), HoldsClaim(job[r].entry, job[r].token)
      PROVE  [Lifecycle!Next]_(Lifecycle!vars)
  <2> USE DEF FullInv, Inv
  <2>1. PICK e \in Entries, s \in Actionable : e = job[r].entry /\ s = job[r].prior
    BY <1>3 DEF BaselineFails, TypeInv, JobsTyped, Claiming
  <2>2. claimToken[e] = job[r].token /\ outcome[claimToken[e]] = "unstarted"
        /\ claimToken[e] \in issued
    BY <1>3, <2>1 DEF BaselineFails, HoldsClaim, HandlersAgree, Claiming, TypeInv, JobsTyped
  <2>3. claimToken[e] \notin Attempts(e) /\ life[e] = "RECREATING"
    BY <2>2, NoneAssumption DEF CoreInv, ClaimsAgree, TypeInv, TypeOK, Attempts
  <2>4. /\ life' = [life EXCEPT ![e] = s]
        /\ claimToken' = [claimToken EXCEPT ![e] = None]
        /\ UNCHANGED <<newEntryId, outcome, attemptEntry>>
    BY <1>3, <2>1 DEF BaselineFails, LeaveClaim, attemptVars, rowVars
  <2> QED
    BY <2>3, <2>4, ReleaseMaps
<1>4. ASSUME NEW e \in Entries, RecoverExpiredClaim(e), ~HasExpiredAttempt(e)
      PROVE  [Lifecycle!Next]_(Lifecycle!vars)
  <2>1. life[e] = "RECREATING" /\ claimToken[e] \notin Attempts(e)
    BY <1>4 DEF RecoverExpiredClaim, HasExpiredAttempt
  <2>2. /\ life' = [life EXCEPT ![e] = "IDLE"]
        /\ claimToken' = [claimToken EXCEPT ![e] = None]
        /\ UNCHANGED <<newEntryId, outcome, attemptEntry>>
    BY <1>4 DEF RecoverExpiredClaim, LeaveClaim, rowVars
  <2>3. "IDLE" \in Actionable
    BY DEF Actionable
  <2> QED
    BY <2>1, <2>2, <2>3, ReleaseMaps
<1> QED
  BY <1>1, <1>2, <1>3, <1>4, ClaimMaps, StartMaps, RecoveryMaps, CommitMaps, AdoptMaps, UserMaps
  DEF Loud

\* The first rows are first states of the lifecycle.
LEMMA InitMaps == Init => Lifecycle!Init
<1> SUFFICES ASSUME Init PROVE Lifecycle!Init
  OBVIOUS
<1>1. life \in [Entries -> {"IDLE", "RECREATING"}] /\ newEntryId = [e \in Entries |-> None]
  BY DEF Init, InitRows
<1>2. \A e \in Entries : MayHaveCreated(e) => life[e] = "RECREATING"
  BY <1>1 DEF MayHaveCreated
<1>3. FullInv
  BY InitFull
<1>4. Doubts \in [Entries -> BOOLEAN]
  BY DEF Doubts, InDoubt
<1>5. \A e \in Entries : Doubts[e] => life[e] = "RECREATING"
  BY <1>2, <1>3, DoubtValue
<1> QED
  BY <1>1, <1>4, <1>5 DEF Lifecycle!Init

\* Claims, attempts, marks and links agree in every reachable state.
THEOREM FullInvariance == Spec => []FullInv
BY InitFull, FullStep, PTL DEF Spec

\* A recreated entry and its one successful attempt always name the same time entry.
THEOREM RecreatedAgrees == Spec => []RecreatedMatchesAttempt
<1>1. FullInv => RecreatedMatchesAttempt
  BY DEF FullInv, LinksAgree
<1> QED
  BY FullInvariance, <1>1, PTL

\* The protocol implements the lifecycle: no interleaving of handlers, answers, lapsed leases and
\* crashes shows an entry anything but a step of it.
THEOREM Refinement == Spec => ImplementsLifecycle
BY InitMaps, StepMaps, FullInvariance, PTL DEF Spec, ImplementsLifecycle, Lifecycle!Spec

\* What LinksDistinct needs of the link column.
LinksSound == AdoptionIsExclusive /\ newEntryId \in [Entries -> ClockifyIds \cup {None}]

\* A lifecycle never links two entries to one time entry.
LEMMA LifecycleLinks == ImplementsLifecycle => []AdoptionIsExclusive
<1>1. Lifecycle!Init => LinksSound
  BY DEF Lifecycle!Init, LinksSound, AdoptionIsExclusive
<1>2. LinksSound /\ [Lifecycle!Next]_(Lifecycle!vars) => LinksSound'
  BY DEF LinksSound, AdoptionIsExclusive, Lifecycle!vars, Lifecycle!Next, Lifecycle!Step,
         Lifecycle!Claim, Lifecycle!Release, Lifecycle!Send, Lifecycle!Reject, Lifecycle!Succeed,
         Lifecycle!LoseTrack, Lifecycle!MarkNotCreated, Lifecycle!Dismiss, Lifecycle!Undismiss
<1>3. LinksSound => AdoptionIsExclusive
  BY DEF LinksSound
<1> QED
  BY <1>1, <1>2, <1>3, PTL DEF ImplementsLifecycle, Lifecycle!Spec

\* No time entry is the recreation of two deleted entries: a consequence of the lifecycle alone.
THEOREM AdoptedOnce == Spec => []AdoptionIsExclusive
BY Refinement, LifecycleLinks, PTL

-----------------------------------------------------------------------------
(* Plans. *)

\* A plan that can be confirmed belongs to an entry that is not claimed.
LEMMA PlanIsFree ==
  ASSUME PlanInv, NEW p \in PlanIds \ LegacyPlans, planStatus[p] = "ACTIVE"
  PROVE  life[planEntry[p]] # "RECREATING"
BY DEF PlanInv, OnlyActionableHasPlan, Actionable

\* While no plan changes, it is enough that an entry that can hold a plan stays one that can.
LEMMA StillFree ==
  ASSUME Inv, PlanInv, UNCHANGED planVars,
         \A f \in Entries : life[f] \in Actionable \cup {"DISMISSED"} =>
                            life'[f] \in Actionable \cup {"DISMISSED"}
  PROVE  OnlyActionableHasPlan'
<1>1. UNCHANGED <<planStatus, planEntry>>
  BY DEF planVars
<1>2. \A p \in PlanIds \ LegacyPlans : planStatus[p] = "ACTIVE" => planEntry[p] \in Entries
  BY NoneAssumption DEF Inv, TypeInv, RowsOwned
<1> QED
  BY <1>1, <1>2 DEF PlanInv, OnlyActionableHasPlan

\* A new plan retires and prunes others, but none that an attempt or a valid claim rests on.
LEMMA CreateKeepsPlanUse ==
  ASSUME Inv, PlanInv, NEW e \in Entries, NEW q \in PlanIds, CreateActive(e, q),
         UNCHANGED <<entryVars, attemptVars>>,
         \A r \in Handlers : pc'[r] \in {"readBaseline", "startAttempt"} =>
                             pc'[r] = pc[r] /\ job'[r] = job[r]
  PROVE  PlanUsedOnce'
<1> USE DEF entryVars, attemptVars, rowVars
<1>1. \A p \in PlanIds :
        planStatus[p] = "CONSUMED" /\ (planEntry[p] = e => \E a \in Tokens : attemptPlan[a] = p)
          => planStatus'[p] = "CONSUMED" /\ planEntry'[p] = planEntry[p]
  BY DEF Inv, TypeInv, TypeOK, CreateActive, Pruned
<1>2. \A p \in PlanIds :
        planStatus[p] = "CONSUMED" /\ planEntry[p] # e
          => planStatus'[p] = "CONSUMED" /\ planEntry'[p] = planEntry[p]
  BY DEF Inv, TypeInv, TypeOK, CreateActive
<1>3. ASSUME NEW a \in Tokens, outcome[a] # "unstarted"
      PROVE  /\ planStatus'[attemptPlan[a]] = "CONSUMED"
             /\ planEntry'[attemptPlan[a]] = attemptEntry[a]
  <2>1. attemptPlan[a] \in PlanIds
    BY <1>3, NoneAssumption DEF PlanInv, AttemptsHavePlan, Inv, TypeInv, TypeOK
  <2>2. planStatus[attemptPlan[a]] = "CONSUMED" /\ planEntry[attemptPlan[a]] = attemptEntry[a]
    BY <1>3 DEF PlanInv, PlanUsedOnce
  <2> QED
    BY <1>1, <2>1, <2>2
<1>4. ASSUME NEW r \in Handlers, pc[r] \in {"readBaseline", "startAttempt"},
             HoldsClaim(job[r].entry, job[r].token)
      PROVE  planStatus'[job[r].plan] = "CONSUMED"
  <2>1. /\ job[r].entry \in Entries /\ job[r].plan \in PlanIds
        /\ claimToken[job[r].entry] = job[r].token /\ job[r].token # None
    BY <1>4, NoneAssumption DEF Inv, TypeInv, TypeOK, JobsTyped, Claiming, HoldsClaim
  <2>2. planEntry[job[r].plan] # e
    BY <1>4, <2>1 DEF CreateActive, AcceptsPlan, Actionable, Inv, CoreInv, ClaimsAgree, PlanInv,
                      HandlersPlansAgree, Claiming
  <2>3. planStatus[job[r].plan] = "CONSUMED"
    BY <1>4 DEF PlanInv, PlanUsedOnce
  <2> QED
    BY <1>2, <2>1, <2>2, <2>3
<1> QED
  BY <1>3, <1>4 DEF PlanInv, PlanUsedOnce, HoldsClaim

\* Every step keeps what plans, their confirmations and their attempts owe each other.
LEMMA PlanStep == Inv /\ PlanInv /\ [Next]_vars => PlanInv'
<1> SUFFICES ASSUME Inv, PlanInv, [Next]_vars PROVE PlanInv'
  OBVIOUS
<1> USE NoneAssumption
    DEF Inv, TypeInv, TypeOK, JobsTyped, RowsOwned, Job, Claiming, Checking, Actionable, CoreInv,
        ClaimsAgree, HandlersAgree, HoldsClaim, PlanInv, AttemptsHavePlan, HandlersPlansAgree,
        PlanUsedOnce, OnlyActionableHasPlan, entryVars, planVars, rowVars, evidenceVars,
        attemptVars, remoteVars, handlerVars, historyVars, storeVars
<1>1. ASSUME NEW e \in Entries, NEW q \in PlanIds, Preflight(e, q)
      PROVE  PlanInv'
  <2>1. HandlersPlansAgree' /\ AttemptsHavePlan'
    BY <1>1 DEF Preflight, CreateActive
  <2>2. PlanUsedOnce'
    BY <1>1, CreateKeepsPlanUse DEF Preflight
  <2>3. OnlyActionableHasPlan'
    BY <1>1 DEF Preflight, CreateActive, AcceptsPlan
  <2> QED
    BY <2>1, <2>2, <2>3
<1>2. ASSUME NEW p \in PlanIds, RetireLegacyPlan(p)
      PROVE  PlanInv'
  BY <1>2 DEF RetireLegacyPlan
<1>3. ASSUME NEW r \in Handlers, NEW p \in PlanIds, ConfirmLoad(r, p)
      PROVE  PlanInv'
  BY <1>3 DEF ConfirmLoad, ConfirmJob
<1>4. ASSUME NEW r \in Handlers, NEW q \in PlanIds, RevalidatedStale(r, q)
      PROVE  PlanInv'
  <2>1. HandlersPlansAgree' /\ AttemptsHavePlan'
    BY <1>4 DEF RevalidatedStale, CreateActive, Finish, NoJob, CheckJob
  <2>2. PlanUsedOnce'
    BY <1>4, CreateKeepsPlanUse DEF RevalidatedStale, Finish
  <2>3. OnlyActionableHasPlan'
    BY <1>4 DEF RevalidatedStale, CreateActive, AcceptsPlan, Finish
  <2> QED
    BY <2>1, <2>2, <2>3
<1>5. ASSUME NEW r \in Handlers, NEW t \in Tokens, Claim(r, t)
      PROVE  PlanInv'
  BY <1>5 DEF Claim, ConfirmJob
<1>6. ASSUME NEW r \in Handlers, ClaimRefused(r)
      PROVE  PlanInv'
  <2>1. job[r].plan \in PlanIds \ LegacyPlans /\ planEntry[job[r].plan] = job[r].entry
    BY <1>6 DEF ClaimRefused
  <2>2. ~(planStatus[job[r].plan] = "ACTIVE" /\ HasExpiredAttempt(job[r].entry))
    BY <2>1, PlanIsFree DEF HasExpiredAttempt
  <2> QED
    BY <1>6, <2>2 DEF ClaimRefused, Finish, NoJob, CheckJob
<1>7. ASSUME NEW r \in Handlers, ReadBaseline(r)
      PROVE  PlanInv'
  BY <1>7 DEF ReadBaseline, ConfirmJob
<1>8. ASSUME NEW r \in Handlers, BaselineFails(r)
      PROVE  PlanInv'
  <2>1. job[r].entry \in Entries /\ job[r].prior \in Actionable /\ job[r].token # None
    BY <1>8 DEF BaselineFails
  <2>2. CASE HoldsClaim(job[r].entry, job[r].token)
    <3>1. HandlersPlansAgree' /\ AttemptsHavePlan'
      BY <1>8, <2>1, <2>2 DEF BaselineFails, LeaveClaim, Finish, NoJob, CheckJob
    <3>2. PlanUsedOnce'
      BY <1>8, <2>1, <2>2 DEF BaselineFails, LeaveClaim, Finish, NoJob, CheckJob
    <3>3. OnlyActionableHasPlan'
      <4>1. \A f \in Entries : life[f] \in Actionable \cup {"DISMISSED"} =>
                                life'[f] \in Actionable \cup {"DISMISSED"}
        BY <1>8, <2>1, <2>2 DEF BaselineFails, LeaveClaim
      <4> QED
        BY <1>8, <4>1 DEF BaselineFails
    <3> QED
      BY <3>1, <3>2, <3>3
  <2>3. CASE ~HoldsClaim(job[r].entry, job[r].token)
    BY <1>8, <2>3 DEF BaselineFails, Finish, NoJob, CheckJob
  <2> QED
    BY <2>2, <2>3
<1>9. ASSUME NEW r \in Handlers, StartAttempt(r)
      PROVE  PlanInv'
  BY <1>9 DEF StartAttempt
<1>10. ASSUME NEW r \in Handlers, PreWriteChanged(r) \/ CommitThrows(r) \/ Abandon(r)
       PROVE  PlanInv'
  <2>1. CASE PreWriteChanged(r)
    BY <2>1 DEF PreWriteChanged, Finish, NoJob, CheckJob
  <2>2. CASE CommitThrows(r)
    BY <2>2 DEF CommitThrows, Finish, NoJob, CheckJob
  <2>3. CASE Abandon(r)
    BY <2>3 DEF Abandon, Finish, NoJob, CheckJob
  <2> QED
    BY <1>10, <2>1, <2>2, <2>3
<1>11. ASSUME NEW r \in Handlers, NEW c \in ClockifyIds, CommitCreated(r, c)
       PROVE  PlanInv'
  BY <1>11 DEF CommitCreated, CanCommit, LeaveClaim, Finish, NoJob, CheckJob
<1>12. ASSUME NEW r \in Handlers, CommitRejected(r)
       PROVE  PlanInv'
  BY <1>12 DEF CommitRejected, CanCommit, LeaveClaim, Finish, NoJob, CheckJob
<1>13. ASSUME NEW r \in Handlers, CommitAmbiguous(r)
       PROVE  PlanInv'
  BY <1>13 DEF CommitAmbiguous, CanCommit, LeaveClaim, CheckJob
<1>14. ASSUME NEW r \in Handlers, NEW e \in Entries, NEW c \in ClockifyIds \cup {None},
             CheckLoad(r, e, c)
       PROVE  PlanInv'
  BY <1>14 DEF CheckLoad, CheckJob
<1>15. ASSUME NEW r \in Handlers, CheckBegins(r)
       PROVE  PlanInv'
  BY <1>15 DEF CheckBegins
<1>16. ASSUME NEW r \in Handlers, CheckReads(r)
       PROVE  PlanInv'
  BY <1>16 DEF CheckReads, CheckJob
<1>17. ASSUME NEW r \in Handlers, CheckTruncated(r) \/ CheckCancelled(r) \/ NotAdopted(r)
       PROVE  PlanInv'
  <2>1. CASE CheckTruncated(r)
    BY <2>1 DEF CheckTruncated, Finish, NoJob, CheckJob
  <2>2. CASE CheckCancelled(r)
    BY <2>2 DEF CheckCancelled, Finish, NoJob, CheckJob
  <2>3. CASE NotAdopted(r)
    BY <2>3 DEF NotAdopted, Finish, NoJob, CheckJob
  <2> QED
    BY <1>17, <2>1, <2>2, <2>3
<1>18. ASSUME NEW r \in Handlers, NEW c \in ClockifyIds, Adopt(r, c)
       PROVE  PlanInv'
  <2>1. /\ UNCHANGED <<planStatus, planEntry, attemptPlan, attemptEntry, claimToken>>
        /\ pc' = [pc EXCEPT ![r] = "idle"] /\ job' = [job EXCEPT ![r] = NoJob]
    BY <1>18 DEF Adopt, Finish
  <2>2. \A a \in Tokens : outcome'[a] = "unstarted" <=> outcome[a] = "unstarted"
    BY <1>18 DEF Adopt, CanAdopt, CurrentAmbiguous, Attempts
  <2>3. HandlersPlansAgree' /\ AttemptsHavePlan' /\ PlanUsedOnce'
    BY <2>1, <2>2
  <2>4. OnlyActionableHasPlan'
    <3>1. job[r].entry \in Entries /\ life[job[r].entry] = "AMBIGUOUS"
      BY <1>18 DEF Adopt, CanAdopt, CurrentAmbiguous
    <3>2. \A f \in Entries : life[f] # "AMBIGUOUS" => life'[f] = life[f]
      BY <1>18, <3>1 DEF Adopt
    <3>3. \A f \in Entries : life[f] \in Actionable \cup {"DISMISSED"} =>
                              life'[f] = life[f]
      BY <3>2
    <3>4. UNCHANGED planVars
      BY <1>18 DEF Adopt
    <3> QED
      BY ONLY Inv, PlanInv, NoneAssumption, <3>3, <3>4, StillFree
  <2> QED
    BY <2>3, <2>4
<1>19. ASSUME NEW e \in Entries, LeaseExpires(e)
       PROVE  PlanInv'
  BY <1>19 DEF LeaseExpires
<1>20. ASSUME NEW e \in Entries, RecoverExpiredClaim(e)
       PROVE  PlanInv'
  <2>1. \A p \in PlanIds \ LegacyPlans : planStatus[p] = "ACTIVE" => planEntry[p] # e
    BY <1>20 DEF RecoverExpiredClaim
  <2>2. HandlersPlansAgree' /\ AttemptsHavePlan'
    BY <1>20 DEF RecoverExpiredClaim, RecoverAttempt, LeaveClaim, HasExpiredAttempt, Attempts
  <2>3. PlanUsedOnce'
    <3>1. \A a \in Tokens : outcome'[a] = "unstarted" <=> outcome[a] = "unstarted"
      BY <1>20, RecoverAttemptTyped DEF RecoverExpiredClaim
    <3>2. claimToken' = [claimToken EXCEPT ![e] = None]
      BY <1>20 DEF RecoverExpiredClaim, RecoverAttempt, LeaveClaim, HasExpiredAttempt
    <3> QED
      BY <1>20, <3>1, <3>2 DEF RecoverExpiredClaim
  <2>4. OnlyActionableHasPlan'
    <3>1. \A f \in Entries \ {e} : life'[f] = life[f]
      BY <1>20 DEF RecoverExpiredClaim, RecoverAttempt, LeaveClaim, HasExpiredAttempt, Attempts
    <3> QED
      BY <1>20, <2>1, <3>1 DEF RecoverExpiredClaim
  <2> QED
    BY <2>2, <2>3, <2>4
<1>21. ASSUME NEW e \in Entries, MarkNotCreated(e)
       PROVE  PlanInv'
  BY <1>21 DEF MarkNotCreated
<1>22. ASSUME NEW e \in Entries, Dismiss(e) \/ Undismiss(e)
       PROVE  PlanInv'
  <2>1. HandlersPlansAgree' /\ AttemptsHavePlan' /\ PlanUsedOnce'
    <3>1. UNCHANGED <<planVars, attemptVars, handlerVars, claimToken>>
      BY <1>22 DEF Dismiss, Undismiss
    <3> QED
      BY <3>1
  <2>2. OnlyActionableHasPlan'
    <3>1. \A f \in Entries : life[f] \in Actionable \cup {"DISMISSED"} =>
                              life'[f] \in Actionable \cup {"DISMISSED"}
      BY <1>22 DEF Dismiss, Undismiss
    <3>2. UNCHANGED planVars
      BY <1>22 DEF Dismiss, Undismiss
    <3> QED
      BY ONLY Inv, PlanInv, NoneAssumption, <3>1, <3>2, StillFree
  <2> QED
    BY <2>1, <2>2
<1>23. ASSUME NEW a \in Tokens, NEW c \in ClockifyIds, ClockifyCreates(a, c)
       PROVE  PlanInv'
  BY <1>23 DEF ClockifyCreates
<1>24. ASSUME NEW a \in Tokens, ClockifyRejects(a)
       PROVE  PlanInv'
  BY <1>24 DEF ClockifyRejects
<1>25. ASSUME NEW c \in ClockifyIds, NEW f \in Fingerprints, ManualEntry(c, f)
       PROVE  PlanInv'
  BY <1>25 DEF ManualEntry
<1>26. CASE UNCHANGED vars
  BY <1>26 DEF vars
<1> QED
  BY <1>1, <1>2, <1>3, <1>4, <1>5, <1>6, <1>7, <1>8, <1>9, <1>10, <1>11, <1>12, <1>13, <1>14,
     <1>15, <1>16, <1>17, <1>18, <1>19, <1>20, <1>21, <1>22, <1>23, <1>24, <1>25, <1>26
  DEF Next, HandlerStep, StoreStep, ClockifyStep

-----------------------------------------------------------------------------
(* Baselines. *)

\* A check that reads the baseline of an attempt with an unknown result reads the one it started
\* with: `attempt.baseline ?? []` never means "nothing was there".
LEMMA BaselineReadIs ==
  ASSUME FullInv, BaselineInv, NEW a \in Tokens \ marked, outcome[a] \in {"open", "AMBIGUOUS"}
  PROVE  BaselineRead(a) = snapshot[a]
<1>1. baseline[a] = snapshot[a] /\ snapshot[a] \in SUBSET ClockifyIds
  BY DEF FullInv, Inv, TypeInv, TypeOK, BaselineInv, UnknownKeepsBaseline
<1> QED
  BY <1>1, NullListAssumption DEF BaselineRead

\* An expired attempt that is recovered takes no baseline from a result that stays unknown.
LEMMA RecoveryKeepsBaselines ==
  ASSUME FullInv, BaselineInv, NEW e \in Entries, HasExpiredAttempt(e), RecoverAttempt(e),
         UNCHANGED <<attemptEntry, attemptNewId, marked, snapshot>>
  PROVE  UnknownKeepsBaseline' /\ NothingOlderAdopted'
<1> USE DEF FullInv, MarksSettled, Inv, TypeInv, TypeOK, RowsOwned, CoreInv, NoBlindRetry,
            Attempts, BaselineInv, UnknownKeepsBaseline, NothingOlderAdopted
<1> DEFINE a == claimToken[e]
<1>1. a \in Attempts(e)
  BY DEF HasExpiredAttempt
<1>2. \A b \in Attempts(e) \ marked : outcome[b] \in {"open", "AMBIGUOUS"} => b = a
  BY DEF HasExpiredAttempt
<1>3. CASE outcome[a] \in {"SUCCESS", "FAILED"}
  <2>1. UNCHANGED outcome /\ ClearEvidence(e)
    BY <1>3 DEF RecoverAttempt
  <2>2. \A b \in Tokens \ marked : outcome[b] \in {"open", "AMBIGUOUS"} => attemptEntry[b] # e
    BY <1>2, <1>3
  <2> QED
    BY <2>1, <2>2 DEF ClearEvidence
<1>4. CASE outcome[a] \in {"open", "AMBIGUOUS"}
  <2>1. outcome' = [outcome EXCEPT ![a] = "AMBIGUOUS"] /\ UNCHANGED baseline
    BY <1>4 DEF RecoverAttempt, evidenceVars
  <2> QED
    BY <1>1, <1>4, <2>1
<1> QED
  BY <1>3, <1>4 DEF RecoverAttempt

\* Every step keeps the baselines, and what handlers compare with them.
LEMMA BaselineStep == FullInv /\ BaselineInv /\ [Next]_vars => BaselineInv'
<1> SUFFICES ASSUME FullInv, BaselineInv, [Next]_vars PROVE BaselineInv'
  OBVIOUS
<1> USE NoneAssumption
    DEF FullInv, MarksSettled, Inv, TypeInv, TypeOK, JobsTyped, RowsOwned, Job, Claiming,
        Checking, CoreInv, ClaimsAgree, LatestAgrees, NoBlindRetry, HandlersAgree, WireAgrees,
        Attempts, HoldsClaim, ClearEvidence, BaselineInv, UnknownKeepsBaseline, ChecksCompare,
        BaselineIsOlder, Existing, NothingOlderAdopted, entryVars, planVars, rowVars,
        evidenceVars, attemptVars, remoteVars, handlerVars, historyVars, storeVars
<1>1. ASSUME NEW e \in Entries, NEW q \in PlanIds, Preflight(e, q)
      PROVE  BaselineInv'
  BY <1>1 DEF Preflight, CreateActive, AcceptsPlan, Pruned
<1>2. ASSUME NEW p \in PlanIds, RetireLegacyPlan(p)
      PROVE  BaselineInv'
  BY <1>2 DEF RetireLegacyPlan
<1>3. ASSUME NEW r \in Handlers, NEW p \in PlanIds, ConfirmLoad(r, p)
      PROVE  BaselineInv'
  BY <1>3 DEF ConfirmLoad, ConfirmJob
<1>4. ASSUME NEW r \in Handlers, NEW q \in PlanIds, RevalidatedStale(r, q)
      PROVE  BaselineInv'
  BY <1>4 DEF RevalidatedStale, CreateActive, AcceptsPlan, Pruned, Finish, NoJob, CheckJob
<1>5. ASSUME NEW r \in Handlers, NEW t \in Tokens, Claim(r, t)
      PROVE  BaselineInv'
  BY <1>5 DEF Claim, ConfirmJob
<1>6. ASSUME NEW r \in Handlers, ClaimRefused(r)
      PROVE  BaselineInv'
  <2>1. CASE planStatus[job[r].plan] = "ACTIVE" /\ HasExpiredAttempt(job[r].entry)
    <3>1. UnknownKeepsBaseline'
      BY <1>6, <2>1, RecoveryKeepsBaselines DEF ClaimRefused
    <3>2. BaselineIsOlder' /\ ChecksCompare'
      BY <1>6, <2>1 DEF ClaimRefused, Finish, NoJob, CheckJob
    <3>3. NothingOlderAdopted'
      BY <1>6, <2>1, RecoveryKeepsBaselines DEF ClaimRefused
    <3> QED
      BY <3>1, <3>2, <3>3
  <2>2. CASE ~(planStatus[job[r].plan] = "ACTIVE" /\ HasExpiredAttempt(job[r].entry))
    BY <1>6, <2>2 DEF ClaimRefused, Finish, NoJob, CheckJob
  <2> QED
    BY <2>1, <2>2
<1>7. ASSUME NEW r \in Handlers, ReadBaseline(r)
      PROVE  BaselineInv'
  BY <1>7 DEF ReadBaseline, ConfirmJob
<1>8. ASSUME NEW r \in Handlers, BaselineFails(r)
      PROVE  BaselineInv'
  BY <1>8 DEF BaselineFails, LeaveClaim, Finish, NoJob, CheckJob
<1>9. ASSUME NEW r \in Handlers, StartAttempt(r)
      PROVE  BaselineInv'
  BY <1>9 DEF StartAttempt
<1>10. ASSUME NEW r \in Handlers, PreWriteChanged(r) \/ CommitThrows(r) \/ Abandon(r)
       PROVE  BaselineInv'
  <2>1. CASE PreWriteChanged(r)
    BY <2>1 DEF PreWriteChanged, Finish, NoJob, CheckJob
  <2>2. CASE CommitThrows(r)
    BY <2>2 DEF CommitThrows, Finish, NoJob, CheckJob
  <2>3. CASE Abandon(r)
    BY <2>3 DEF Abandon, Finish, NoJob, CheckJob
  <2> QED
    BY <1>10, <2>1, <2>2, <2>3
<1>11. ASSUME NEW r \in Handlers, NEW c \in ClockifyIds, CommitCreated(r, c)
       PROVE  BaselineInv'
  BY <1>11 DEF CommitCreated, CanCommit, LeaveClaim, Finish, NoJob, CheckJob
<1>12. ASSUME NEW r \in Handlers, CommitRejected(r)
       PROVE  BaselineInv'
  BY <1>12 DEF CommitRejected, CanCommit, LeaveClaim, Finish, NoJob, CheckJob
<1>13. ASSUME NEW r \in Handlers, CommitAmbiguous(r)
       PROVE  BaselineInv'
  <2>1. job[r].token \in Tokens \ marked /\ outcome[job[r].token] = "open"
    BY <1>13 DEF CommitAmbiguous, CanCommit
  <2>2. BaselineRead(job[r].token) = snapshot[job[r].token]
    BY <2>1, BaselineReadIs
  <2> QED
    BY <1>13, <2>1, <2>2 DEF CommitAmbiguous, CanCommit, LeaveClaim, CheckJob
<1>14. ASSUME NEW r \in Handlers, NEW e \in Entries, NEW c \in ClockifyIds \cup {None},
             CheckLoad(r, e, c)
       PROVE  BaselineInv'
  <2>1. latest[e] \in Tokens \ marked /\ outcome[latest[e]] = "AMBIGUOUS"
    BY <1>14 DEF CheckLoad
  <2>2. BaselineRead(latest[e]) = snapshot[latest[e]]
    BY <2>1, BaselineReadIs
  <2> QED
    BY <1>14, <2>1, <2>2 DEF CheckLoad, CheckJob
<1>15. ASSUME NEW r \in Handlers, CheckBegins(r)
       PROVE  BaselineInv'
  BY <1>15 DEF CheckBegins
<1>16. ASSUME NEW r \in Handlers, CheckReads(r)
       PROVE  BaselineInv'
  BY <1>16 DEF CheckReads, CheckJob, Matches
<1>17. ASSUME NEW r \in Handlers, CheckTruncated(r) \/ CheckCancelled(r) \/ NotAdopted(r)
       PROVE  BaselineInv'
  <2>1. CASE CheckTruncated(r)
    BY <2>1 DEF CheckTruncated, Finish, NoJob, CheckJob
  <2>2. CASE CheckCancelled(r)
    BY <2>2 DEF CheckCancelled, Finish, NoJob, CheckJob
  <2>3. CASE NotAdopted(r)
    BY <2>3 DEF NotAdopted, Finish, NoJob, CheckJob
  <2> QED
    BY <1>17, <2>1, <2>2, <2>3
<1>18. ASSUME NEW r \in Handlers, NEW c \in ClockifyIds, Adopt(r, c)
       PROVE  BaselineInv'
  BY <1>18 DEF Adopt, CanAdopt, CurrentAmbiguous, Finish, NoJob, CheckJob
<1>19. ASSUME NEW e \in Entries, LeaseExpires(e)
       PROVE  BaselineInv'
  BY <1>19 DEF LeaseExpires
<1>20. ASSUME NEW e \in Entries, RecoverExpiredClaim(e)
       PROVE  BaselineInv'
  <2>1. CASE HasExpiredAttempt(e)
    BY <1>20, <2>1, RecoveryKeepsBaselines DEF RecoverExpiredClaim
  <2>2. CASE ~HasExpiredAttempt(e)
    BY <1>20, <2>2 DEF RecoverExpiredClaim, LeaveClaim
  <2> QED
    BY <2>1, <2>2
<1>21. ASSUME NEW e \in Entries, MarkNotCreated(e)
       PROVE  BaselineInv'
  BY <1>21 DEF MarkNotCreated
<1>22. ASSUME NEW e \in Entries, Dismiss(e) \/ Undismiss(e)
       PROVE  BaselineInv'
  BY <1>22 DEF Dismiss, Undismiss
<1>23. ASSUME NEW a \in Tokens, NEW c \in ClockifyIds, ClockifyCreates(a, c)
       PROVE  BaselineInv'
  BY <1>23 DEF ClockifyCreates
<1>24. ASSUME NEW a \in Tokens, ClockifyRejects(a)
       PROVE  BaselineInv'
  BY <1>24 DEF ClockifyRejects
<1>25. ASSUME NEW c \in ClockifyIds, NEW f \in Fingerprints, ManualEntry(c, f)
       PROVE  BaselineInv'
  BY <1>25 DEF ManualEntry
<1>26. CASE UNCHANGED vars
  BY <1>26 DEF vars
<1> QED
  BY <1>1, <1>2, <1>3, <1>4, <1>5, <1>6, <1>7, <1>8, <1>9, <1>10, <1>11, <1>12, <1>13, <1>14,
     <1>15, <1>16, <1>17, <1>18, <1>19, <1>20, <1>21, <1>22, <1>23, <1>24, <1>25, <1>26
  DEF Next, HandlerStep, StoreStep, ClockifyStep

-----------------------------------------------------------------------------
(* The invariant. *)

\* No plan, handler or baseline is at odds with what an older release left.
LEMMA InitProtocol == Init => ProtocolInv
<1> SUFFICES ASSUME NEW h \in HalfCommitted \cup {None}, InitRows(h), FullInv
             PROVE  PlanInv /\ BaselineInv
  BY InitFull DEF Init, ProtocolInv
<1> USE NoneAssumption, FingerprintAssumption, LegacyAssumption
    DEF InitRows, PlanInv, HandlersPlansAgree, AttemptsHavePlan, PlanUsedOnce,
        OnlyActionableHasPlan, BaselineInv, UnknownKeepsBaseline, BaselineIsOlder, ChecksCompare,
        NothingOlderAdopted, Claiming, Checking, Existing, Actionable
<1>1. CASE h = None
  BY <1>1
<1>2. CASE h # None
  <2>1. /\ h.entry \in Entries /\ h.token \in Tokens /\ h.plan \in PlanIds \ LegacyPlans
        /\ h.outcome \in {"SUCCESS", "FAILED", "AMBIGUOUS"} /\ h.made \in ClockifyIds
    BY <1>2 DEF HalfCommitted
  <2>2. PlanInv
    BY <1>2, <2>1
  <2>3. BaselineInv
    BY <1>2, <2>1
  <2> QED
    BY <2>2, <2>3
<1> QED
  BY <1>1, <1>2

\* Every step keeps ProtocolInv.
LEMMA ProtocolStep == ProtocolInv /\ [Next]_vars => ProtocolInv'
BY FullStep, PlanStep, BaselineStep DEF ProtocolInv, FullInv

\* Claims, attempts, plans and baselines agree in every reachable state.
THEOREM ProtocolInvariance == Spec => []ProtocolInv
BY InitProtocol, ProtocolStep, PTL DEF Spec

\* A plan authorises one attempt, and its row outlives the attempt that spent it.
THEOREM PlanSpentOnce == Spec => []PlanUsedOnce
<1>1. ProtocolInv => PlanUsedOnce
  BY DEF ProtocolInv, PlanInv
<1> QED
  BY ProtocolInvariance, <1>1, PTL

\* No slow preflight or revalidation leaves a confirmable plan behind a claim or a result.
THEOREM NoPlanBehindClaim == Spec => []OnlyActionableHasPlan
<1>1. ProtocolInv => OnlyActionableHasPlan
  BY DEF ProtocolInv, PlanInv
<1> QED
  BY ProtocolInvariance, <1>1, PTL

\* As long as a result is unknown, the baseline that can resolve it is there.
THEOREM BaselineSurvives == Spec => []BaselineKept
<1>1. ProtocolInv => BaselineKept
  <2> SUFFICES ASSUME ProtocolInv, NEW e \in Entries, life[e] = "AMBIGUOUS"
               PROVE  /\ latest[e] # None
                      /\ outcome[latest[e]] = "AMBIGUOUS"
                      /\ baseline[latest[e]] = snapshot[latest[e]]
    BY DEF BaselineKept
  <2>1. latest[e] # None /\ outcome[latest[e]] = "AMBIGUOUS"
    BY DEF ProtocolInv, FullInv, Inv, CoreInv, LatestAgrees
  <2>2. latest[e] \in Tokens \ marked
    BY <2>1 DEF ProtocolInv, FullInv, MarksSettled, Inv, TypeInv, TypeOK
  <2> QED
    BY <2>1, <2>2 DEF ProtocolInv, BaselineInv, UnknownKeepsBaseline
<1> QED
  BY ProtocolInvariance, <1>1, PTL

\* Nothing that was there before the attempt is ever taken for its result.
THEOREM OnlyNewerAdopted == Spec => []NothingOlderAdopted
<1>1. ProtocolInv => NothingOlderAdopted
  BY DEF ProtocolInv, BaselineInv
<1> QED
  BY ProtocolInvariance, <1>1, PTL

-----------------------------------------------------------------------------
(* What no step does. *)

\* OutcomeSettlesOnce of one step.
Settles ==
  \A a \in Tokens :
    outcome'[a] # outcome[a] =>
      \/ outcome[a] = "unstarted" /\ outcome'[a] = "open"
      \/ outcome[a] = "open" /\ outcome'[a] \in {"SUCCESS", "FAILED", "AMBIGUOUS"}
      \/ outcome[a] = "AMBIGUOUS" /\ outcome'[a] = "SUCCESS"

\* Whatever comes late, twice or after a recovery, a settled attempt stays settled.
THEOREM SettledStays == Spec => OutcomeSettlesOnce
<1>1. Inv /\ [Next]_vars => [Settles]_vars
  <2> SUFFICES ASSUME Inv, [Next]_vars PROVE Settles
    OBVIOUS
  <2> USE DEF Settles, Inv, TypeInv, TypeOK
  <2>1. CASE UNCHANGED Relevant
    BY <2>1 DEF Relevant
  <2>2. ASSUME NEW r \in Handlers, NEW t \in Tokens, Claim(r, t) PROVE Settles
    BY <2>2 DEF Claim, attemptVars
  <2>3. ASSUME NEW e \in Entries, RecoverAttempt(e) PROVE Settles
    BY <2>3 DEF RecoverAttempt
  <2>4. ASSUME NEW r \in Handlers, BaselineFails(r) PROVE Settles
    BY <2>4 DEF BaselineFails, attemptVars
  <2>5. ASSUME NEW r \in Handlers, StartAttempt(r) PROVE Settles
    BY <2>5 DEF StartAttempt, HandlersAgree, Claiming
  <2>6. ASSUME NEW r \in Handlers, NEW c \in ClockifyIds, CommitCreated(r, c) PROVE Settles
    BY <2>6 DEF CommitCreated, CanCommit
  <2>7. ASSUME NEW r \in Handlers, CommitRejected(r) \/ CommitAmbiguous(r) PROVE Settles
    BY <2>7 DEF CommitRejected, CommitAmbiguous, CanCommit
  <2>8. ASSUME NEW r \in Handlers, NEW c \in ClockifyIds, Adopt(r, c) PROVE Settles
    BY <2>8 DEF Adopt, CanAdopt, CurrentAmbiguous, CoreInv, LatestAgrees, JobsTyped, Checking
  <2>9. ASSUME NEW e \in Entries, RecoverExpiredClaim(e), ~HasExpiredAttempt(e) PROVE Settles
    BY <2>9 DEF RecoverExpiredClaim
  <2>10. ASSUME NEW e \in Entries, MarkNotCreated(e) \/ Dismiss(e) \/ Undismiss(e) PROVE Settles
    BY <2>10 DEF MarkNotCreated, Dismiss, Undismiss, attemptVars
  <2> QED
    BY <2>1, <2>2, <2>3, <2>4, <2>5, <2>6, <2>7, <2>8, <2>9, <2>10, LoudOrQuiet DEF Loud
<1>2. Spec => [][Settles]_vars
  BY Invariance, <1>1, PTL DEF Spec
<1> QED
  BY <1>2 DEF OutcomeSettlesOnce, Settles

\* ClaimFencing of one step.
Fences ==
  \A e \in Entries :
    life[e] = "RECREATING" /\ life'[e] # "RECREATING" =>
      \/ leaseExpired[e]
      \/ \E r \in Handlers :
           /\ pc[r] \in {"readBaseline", "creating"} /\ pc'[r] # pc[r]
           /\ job[r].entry = e /\ job[r].token = claimToken[e]

\* Only the holder of a claim, or the end of its lease, moves a claimed entry.
THEOREM ClaimsAreFenced == Spec => ClaimFencing
<1>1. Inv /\ [Next]_vars => [Fences]_vars
  <2> SUFFICES ASSUME Inv, [Next]_vars PROVE Fences
    OBVIOUS
  <2> USE DEF Fences, Inv, TypeInv, TypeOK
  <2>1. CASE UNCHANGED Relevant
    BY <2>1 DEF Relevant
  <2>2. ASSUME NEW r \in Handlers, NEW t \in Tokens, Claim(r, t) PROVE Fences
    BY <2>2 DEF Claim
  <2>3. ASSUME NEW e \in Entries, HasExpiredAttempt(e), RecoverAttempt(e) PROVE Fences
    BY <2>3 DEF RecoverAttempt, HasExpiredAttempt, LeaveClaim
  <2>4. ASSUME NEW r \in Handlers, BaselineFails(r), HoldsClaim(job[r].entry, job[r].token)
        PROVE  Fences
    BY <2>4 DEF BaselineFails, HoldsClaim, LeaveClaim, Finish
  <2>5. ASSUME NEW r \in Handlers, StartAttempt(r) PROVE Fences
    BY <2>5 DEF StartAttempt
  <2>6. ASSUME NEW r \in Handlers, NEW c \in ClockifyIds, CommitCreated(r, c) PROVE Fences
    BY <2>6 DEF CommitCreated, CanCommit, HoldsClaim, LeaveClaim, Finish
  <2>7. ASSUME NEW r \in Handlers, CommitRejected(r) \/ CommitAmbiguous(r) PROVE Fences
    BY <2>7 DEF CommitRejected, CommitAmbiguous, CanCommit, HoldsClaim, LeaveClaim, Finish
  <2>8. ASSUME NEW r \in Handlers, NEW c \in ClockifyIds, Adopt(r, c) PROVE Fences
    BY <2>8 DEF Adopt, CanAdopt, CurrentAmbiguous
  <2>9. ASSUME NEW e \in Entries, RecoverExpiredClaim(e), ~HasExpiredAttempt(e) PROVE Fences
    BY <2>9 DEF RecoverExpiredClaim, LeaveClaim
  <2>10. ASSUME NEW e \in Entries, MarkNotCreated(e) \/ Dismiss(e) \/ Undismiss(e) PROVE Fences
    BY <2>10 DEF MarkNotCreated, Dismiss, Undismiss, Actionable
  <2> QED
    BY <2>1, <2>2, <2>3, <2>4, <2>5, <2>6, <2>7, <2>8, <2>9, <2>10, LoudOrQuiet DEF Loud
<1>2. Spec => [][Fences]_vars
  BY Invariance, <1>1, PTL DEF Spec
<1> QED
  BY <1>2 DEF ClaimFencing, Fences
=============================================================================
