------------------------ MODULE RecreationInvariant ------------------------
(***************************************************************************)
(* The inductive invariant of Recreation.  NoBlindRetry and                *)
(* DuplicateOnlyAfterMark are not inductive: that a retry cannot duplicate *)
(* work rests on how claims, attempts, handlers and requests on the wire   *)
(* agree with each other.  Each part below is one such agreement.          *)
(***************************************************************************)
EXTENDS Recreation

\* Stages in which a handler acts under a claim.
Claiming == {"readBaseline", "startAttempt", "creating"}

\* Stages in which a handler checks an AMBIGUOUS entry.
Checking == {"beginCheck", "listing", "deciding"}

\* What the local variables of a handler hold at each stage.
JobsTyped ==
  \A r \in Handlers :
    /\ pc[r] = "revalidating" \/ pc[r] \in Claiming =>
         job[r].entry \in Entries /\ job[r].plan \in PlanIds
    /\ pc[r] \in {"revalidating", "readBaseline"} => job[r].prior \in Actionable
    /\ pc[r] \in Claiming => job[r].token \in issued
    /\ pc[r] \in Checking =>
         /\ job[r].entry \in Entries
         /\ job[r].token \in Tokens
         /\ outcome[job[r].token] # "unstarted"

\* A plan that can be confirmed belongs to an entry; a request belongs to a started attempt.
RowsOwned ==
  /\ \A p \in PlanIds : planStatus[p] = "ACTIVE" => planEntry[p] \in Entries
  /\ \A a \in Tokens : outcome[a] # "unstarted" => a \in issued /\ attemptEntry[a] \in Entries
  /\ \A a \in Tokens : wire[a] # "none" <=> outcome[a] # "unstarted"
  /\ \A e \in Entries : latest[e] # None => outcome[latest[e]] # "unstarted"

\* TypeOK alone is not inductive: an index may be a local variable.
TypeInv == TypeOK /\ JobsTyped /\ RowsOwned

\* An entry has a claim token exactly while it is RECREATING, and a fresh one was issued.
ClaimsAgree ==
  \A e \in Entries :
    /\ claimToken[e] # None <=> life[e] = "RECREATING"
    /\ claimToken[e] # None => claimToken[e] \in issued

\* The latest attempt is one of the entry's, the one under the claim while there is a claim with
\* an attempt, and itself AMBIGUOUS while the entry is.
LatestAgrees ==
  \A e \in Entries :
    /\ latest[e] # None => latest[e] \in Attempts(e)
    /\ claimToken[e] \in Attempts(e) => latest[e] = claimToken[e]
    /\ life[e] = "AMBIGUOUS" => latest[e] # None /\ outcome[latest[e]] = "AMBIGUOUS"

\* A handler under a claim has started its attempt exactly when it passed the pre-write fence,
\* and no two handlers work under the same token.
HandlersAgree ==
  \A r \in Handlers : pc[r] \in Claiming =>
    /\ pc[r] # "creating" => outcome[job[r].token] = "unstarted"
    /\ pc[r] = "creating" => job[r].token \in Attempts(job[r].entry)
    /\ \A s \in Handlers \ {r} : pc[s] \in Claiming => job[s].token # job[r].token
    /\ \A e \in Entries : claimToken[e] = job[r].token => e = job[r].entry

\* No two entries are claimed under one token.
TokensDistinct ==
  \A e, f \in Entries : e # f /\ claimToken[e] # None => claimToken[e] # claimToken[f]

\* A SUCCESS attempt means RECREATED, or a half-committed row still to be projected.
SuccessShows ==
  \A e \in Entries : \A a \in Attempts(e) :
    outcome[a] = "SUCCESS" =>
      life[e] = "RECREATED" \/ (life[e] = "RECREATING" /\ claimToken[e] = a)

\* Of two attempts for an entry, neither declared "not created", Clockify rejected one.
OneUnrejected ==
  \A e \in Entries : \A a, b \in Attempts(e) \ marked :
    a # b => outcome[a] = "FAILED" \/ outcome[b] = "FAILED"

\* A request creates at most one time entry, and none once it was rejected.
WireAgrees ==
  /\ \A c \in ClockifyIds : origin[c] # None => wire[origin[c]] = "applied" /\ look[c] # None
  /\ \A c, d \in ClockifyIds : c # d /\ origin[c] # None => origin[c] # origin[d]
  /\ \A a \in Tokens : outcome[a] = "FAILED" => wire[a] = "rejected"

\* What claims and attempts owe each other.
CoreInv ==
  /\ ClaimsAgree
  /\ LatestAgrees
  /\ TokensDistinct
  /\ NoBlindRetry
  /\ SuccessShows
  /\ OneUnrejected

\* The inductive invariant.
Inv == TypeInv /\ CoreInv /\ HandlersAgree /\ WireAgrees

-----------------------------------------------------------------------------
(* What plans and baselines need beyond Inv: that a local variable read    *)
(* before an await still means what it meant.                              *)

\* The plan a handler confirms is one of its entry, whatever became of the plan since it was read.
HandlersPlansAgree ==
  \A r \in Handlers : pc[r] = "revalidating" \/ pc[r] \in Claiming =>
    /\ job[r].plan \notin LegacyPlans
    /\ planStatus[job[r].plan] # "unborn"
    /\ planEntry[job[r].plan] = job[r].entry

\* Exactly the attempts that were started name a plan.
AttemptsHavePlan == \A a \in Tokens : attemptPlan[a] # None <=> outcome[a] # "unstarted"

PlanInv == HandlersPlansAgree /\ AttemptsHavePlan /\ PlanUsedOnce /\ OnlyActionableHasPlan

\* Evidence is purged only once it is no longer needed: an unknown result keeps its baseline until
\* the user declares it "not created".
UnknownKeepsBaseline ==
  \A a \in Tokens \ marked : outcome[a] \in {"open", "AMBIGUOUS"} => baseline[a] = snapshot[a]

\* A baseline holds what was at Clockify before the create request left, and nothing it made.
BaselineIsOlder ==
  /\ \A a \in Tokens : snapshot[a] \subseteq Existing
  /\ \A c \in ClockifyIds : origin[c] # None => c \notin snapshot[origin[c]]
  /\ \A r \in Handlers : pc[r] = "startAttempt" => job[r].base \subseteq Existing

\* A check compares with the baseline of the attempt it is about, however old its copy is.
ChecksCompare ==
  \A r \in Handlers :
    /\ pc[r] \in Checking => job[r].base = snapshot[job[r].token]
    /\ pc[r] = "deciding" => job[r].found \cap job[r].base = {}

BaselineInv == UnknownKeepsBaseline /\ BaselineIsOlder /\ ChecksCompare /\ NothingOlderAdopted
=============================================================================
