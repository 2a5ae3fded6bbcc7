------------------------------ MODULE Reconcile ------------------------------
(***************************************************************************)
(* The clock of the checks.  Recreation leaves out when a check may start  *)
(* and when "not created" may be declared; this module is about nothing    *)
(* else.  It follows one attempt with an unknown result from the moment    *)
(* its create request left (time 0): the checks that read Clockify, the    *)
(* evidence they write to reconcile_json, the throttle, the take-over of a *)
(* check that hangs, and the ten-minute window.                            *)
(*                                                                         *)
(* Every check has a process that can crash, and a read that takes up to   *)
(* MaxRead: ten pages and the retries of the client, far longer than the   *)
(* throttle.  Copies of the deleted entry (the one the create makes, or    *)
(* one that somebody enters by hand) appear in Clockify at any time.       *)
(***************************************************************************)
EXTENDS Naturals, Sequences, FiniteSets

CONSTANTS
  Handlers,      \* request handlers that check, of any number of processes
  Copies,        \* time entries outside the baseline that match the fingerprint
  Taken,         \* the copies that are already linked to another deleted entry
  Throttle,      \* RECONCILE_THROTTLE_MS
  MinChecks,     \* MARK_NOT_CREATED_MIN_CHECKS
  Window,        \* MARK_NOT_CREATED_WINDOW_MS
  MaxRead,       \* how long a check can take, from its begin to its end
  MaxTime,       \* bound: the clock stops here
  LegacyChecks,  \* numbers of checks an older release left without firstEligibleCheckAt
  None           \* null or undefined

ASSUME ClockAssumption ==
  /\ Throttle \in Nat \ {0} /\ MinChecks \in Nat \ {0}
  /\ Window \in Nat /\ MaxRead \in Nat /\ MaxTime \in Nat
ASSUME CopiesAssumption == IsFiniteSet(Copies) /\ Taken \subseteq Copies
ASSUME LegacyChecksAssumption == LegacyChecks \subseteq Nat

VARIABLES
  now,      \* the clock of the server
  life,     \* lifecycle_state: AMBIGUOUS, RECREATED (adopted) or IDLE (marked "not created")
  summary,  \* reconcile_json without its run: what the last completed check left
  run,      \* runId and runStartedAt of the check in flight
  stage,    \* of each handler
  job,      \* local variables of each handler
  born,     \* when each copy appeared in Clockify
  gone,     \* copies that were deleted again
  reads     \* history: the reads that counted

storeVars   == <<life, summary, run>>
handlerVars == <<stage, job>>
remoteVars  == <<born, gone>>
vars == <<now, storeVars, handlerVars, remoteVars, reads>>

Summary ==
  [checkedAt : Nat, first : Nat \cup {None}, checks : Nat, matches : Nat,
   candidates : SUBSET Copies, truncated : BOOLEAN]
Run  == [owner : Handlers, startedAt : Nat]
Job  == [pick : Copies \cup {None}, begun : Nat, readAt : Nat, found : SUBSET Copies]
Read == [at : Nat, found : SUBSET Copies]

ASSUME NoneAssumption ==
  /\ None \notin Handlers /\ None \notin Copies /\ None \notin Nat
  /\ None \notin Summary /\ None \notin Run

\* A handler that checks has no pick; one that resolves has the id the user picked.
StartJob(pick) == [pick |-> pick, begun |-> now, readAt |-> now, found |-> {}]
NoJob == [pick |-> None, begun |-> 0, readAt |-> 0, found |-> {}]

-----------------------------------------------------------------------------
(* Operators on the evidence.  An operator whose comment starts with       *)
(* "Wrong:" is a plausible bug; putting it in the place of the operator    *)
(* after it must make a property fail.                                     *)

\* What a complete list read, or the read of one id, shows.
Listed == {c \in Copies : born[c] # None /\ c \notin gone}

\* Wrong: the window is measured up to now.
MarkAllowedByAge ==
  /\ summary # None
  /\ run = None
  /\ ~summary.truncated
  /\ summary.matches = 0
  /\ summary.candidates = {}
  /\ summary.checks >= MinChecks
  /\ summary.first # None
  /\ now - summary.first >= Window

\* markNotCreatedAllowed.
MarkAllowed ==
  /\ summary # None
  /\ run = None
  /\ ~summary.truncated
  /\ summary.matches = 0
  /\ summary.candidates = {}
  /\ summary.checks >= MinChecks
  /\ summary.first # None
  /\ summary.checkedAt - summary.first >= Window

\* Wrong: the time of the last completed check is not looked at.
RefusedWhileRunning(pick) == run # None /\ now - run.startedAt < Throttle

\* beginReconcile: a younger check is in flight, or completed just before.  Only the manual
\* resolution sets ignorePreviousCheck.
Throttled(pick) ==
  IF run # None
    THEN now - run.startedAt < Throttle
    ELSE pick = None /\ summary # None /\ now - summary.checkedAt < Throttle

\* Wrong: a check that was taken over still reports.
OwnsAnyRun(r) == run # None

\* The fence of completeReconcile, cancelReconcile and adopt.
OwnsRun(r) == run # None /\ run.owner = r

\* What the JSON of a check in flight holds when no check completed before.
Blank == [checkedAt |-> now, first |-> None, checks |-> 0, matches |-> 0,
          candidates |-> {}, truncated |-> FALSE]
Current == IF summary = None THEN Blank ELSE summary

\* Wrong: the candidates are those of the last read.
CountedForgetting(found) ==
  [checkedAt  |-> now,
   first      |-> IF Current.first = None THEN now ELSE Current.first,
   checks     |-> IF Current.first = None THEN 1 ELSE Current.checks + 1,
   matches    |-> Cardinality(found),
   candidates |-> found,
   truncated  |-> FALSE]

\* completeReconcile with countCheck: checks without a first eligible one start over.
Counted(found) ==
  [checkedAt  |-> now,
   first      |-> IF Current.first = None THEN now ELSE Current.first,
   checks     |-> IF Current.first = None THEN 1 ELSE Current.checks + 1,
   matches    |-> Cardinality(found),
   candidates |-> Current.candidates \cup found,
   truncated  |-> FALSE]

\* Wrong: a list that hit the page bound counts as a complete one.
NotCountedAsComplete ==
  [checkedAt  |-> now,
   first      |-> IF Current.first = None THEN now ELSE Current.first,
   checks     |-> IF Current.first = None THEN 1 ELSE Current.checks + 1,
   matches    |-> Current.matches,
   candidates |-> Current.candidates,
   truncated  |-> FALSE]

\* completeReconcile of a truncated list.
NotCounted == [Current EXCEPT !.checkedAt = now, !.truncated = TRUE]

-----------------------------------------------------------------------------
(* The checks. *)

Finish(r) ==
  /\ stage' = [stage EXCEPT ![r] = "idle"]
  /\ job'   = [job EXCEPT ![r] = NoJob]

\* beginReconcile; the read at Clockify leaves.  It keeps the evidence under the run, so the
\* summary of a check in flight, and what a cancel restores, is the one of before.
Begin(r, pick) ==
  /\ stage[r] = "idle"
  /\ life = "AMBIGUOUS"
  /\ ~Throttled(pick)
  /\ run'   = [owner |-> r, startedAt |-> now]
  /\ stage' = [stage EXCEPT ![r] = "reading"]
  /\ job'   = [job EXCEPT ![r] = StartJob(pick)]
  /\ UNCHANGED <<now, life, summary, remoteVars, reads>>

\* matchCandidates of the list, or the one entry the user picked.
Found(pick) == IF pick = None THEN Listed ELSE Listed \cap {pick}

\* Clockify answers.
Reads(r) ==
  /\ stage[r] = "reading"
  /\ stage' = [stage EXCEPT ![r] = "deciding"]
  /\ job'   = [job EXCEPT ![r] = [pick |-> job[r].pick, begun |-> job[r].begun,
                                  readAt |-> now, found |-> Found(job[r].pick)]]
  /\ UNCHANGED <<now, storeVars, remoteVars, reads>>

\* The list hit its page bound.
Truncated(r) ==
  /\ stage[r] = "reading"
  /\ job[r].pick = None
  /\ IF OwnsRun(r)
       THEN summary' = NotCounted /\ run' = None
       ELSE UNCHANGED <<summary, run>>
  /\ Finish(r)
  /\ UNCHANGED <<now, life, remoteVars, reads>>

\* The read failed: cancelReconcile.
ReadFails(r) ==
  /\ stage[r] = "reading"
  /\ run' = IF OwnsRun(r) THEN None ELSE run
  /\ Finish(r)
  /\ UNCHANGED <<now, life, summary, remoteVars, reads>>

\* What adopt accepts: exactly one match, and the run is still this handler's.
CanAdopt(r, c) ==
  /\ job[r].found = {c}
  /\ OwnsRun(r)
  /\ life = "AMBIGUOUS"
  /\ c \notin Taken

\* adopt: the evidence goes with the doubt.
Adopts(r, c) ==
  /\ stage[r] = "deciding"
  /\ CanAdopt(r, c)
  /\ life'    = "RECREATED"
  /\ summary' = None
  /\ run'     = None
  /\ Finish(r)
  /\ UNCHANGED <<now, remoteVars, reads>>

\* No match, several, or one that is linked elsewhere: completeReconcile.
Completes(r) ==
  /\ stage[r] = "deciding"
  /\ job[r].pick = None
  /\ ~\E c \in Copies : CanAdopt(r, c)
  /\ IF OwnsRun(r)
       THEN /\ summary' = Counted(job[r].found)
            /\ run'     = None
            /\ reads'   = Append(reads, [at |-> job[r].readAt, found |-> job[r].found])
       ELSE UNCHANGED <<summary, run, reads>>
  /\ Finish(r)
  /\ UNCHANGED <<now, life, remoteVars>>

\* handleResolveAmbiguous leaves without an adoption: its finally cancels.
ResolveEnds(r) ==
  /\ stage[r] = "deciding"
  /\ job[r].pick # None
  /\ ~CanAdopt(r, job[r].pick)
  /\ run' = IF OwnsRun(r) THEN None ELSE run
  /\ Finish(r)
  /\ UNCHANGED <<now, life, summary, remoteVars, reads>>

\* The process dies, and leaves its run in the row.
Crash(r) ==
  /\ stage[r] # "idle"
  /\ Finish(r)
  /\ UNCHANGED <<now, storeVars, remoteVars, reads>>

\* handleMarkNotCreated: the rule and the transition are one transaction.
MarkNotCreated ==
  /\ life = "AMBIGUOUS"
  /\ MarkAllowed
  /\ life'    = "IDLE"
  /\ summary' = None
  /\ UNCHANGED <<now, run, handlerVars, remoteVars, reads>>

-----------------------------------------------------------------------------
(* Clockify and the clock. *)

\* The create takes effect at last, or somebody enters the same work.
CopyAppears(c) ==
  /\ born[c] = None
  /\ born' = [born EXCEPT ![c] = now]
  /\ UNCHANGED <<now, storeVars, handlerVars, gone, reads>>

CopyDeleted(c) ==
  /\ c \in Listed
  /\ gone' = gone \cup {c}
  /\ UNCHANGED <<now, storeVars, handlerVars, born, reads>>

\* No check is in flight for more than MaxRead: its requests time out.
Tick ==
  /\ now < MaxTime
  /\ \A r \in Handlers : stage[r] # "idle" => now - job[r].begun < MaxRead
  /\ now' = now + 1
  /\ UNCHANGED <<storeVars, handlerVars, remoteVars, reads>>

\* Evidence an older release left: it kept no time of the first check.
LegacySummary(n, cs) ==
  [checkedAt |-> 0, first |-> None, checks |-> n, matches |-> 0, candidates |-> cs,
   truncated |-> FALSE]
LegacySummaries == {LegacySummary(n, cs) : n \in LegacyChecks, cs \in {{}, Taken}}

Init ==
  /\ now = 0
  /\ life = "AMBIGUOUS"
  /\ summary \in {None} \cup LegacySummaries
  /\ run = None
  /\ stage = [r \in Handlers |-> "idle"]
  /\ job = [r \in Handlers |-> NoJob]
  /\ born = [c \in Copies |-> None]
  /\ gone = {}
  /\ reads = <<>>

CheckStep(r) ==
  \/ \E pick \in Copies \cup {None} : Begin(r, pick)
  \/ Reads(r)
  \/ Truncated(r)
  \/ ReadFails(r)
  \/ \E c \in Copies : Adopts(r, c)
  \/ Completes(r)
  \/ ResolveEnds(r)
  \/ Crash(r)

Next ==
  \/ \E r \in Handlers : CheckStep(r)
  \/ MarkNotCreated
  \/ \E c \in Copies : CopyAppears(c) \/ CopyDeleted(c)
  \/ Tick

Spec == Init /\ [][Next]_vars

-----------------------------------------------------------------------------
(* Properties. *)

\* Every column and every local variable holds a value of its type.
TypeOK ==
  /\ now \in Nat
  /\ life \in {"AMBIGUOUS", "RECREATED", "IDLE"}
  /\ summary \in Summary \cup {None}
  /\ run \in Run \cup {None}
  /\ stage \in [Handlers -> {"idle", "reading", "deciding"}]
  /\ job \in [Handlers -> Job]
  /\ born \in [Copies -> Nat \cup {None}]
  /\ gone \subseteq Copies
  /\ reads \in Seq(Read)

\* An entry that was marked "not created" has no copy that is older than the window less one
\* check: whatever the checks crashed at, took over or saw truncated, a create that takes effect
\* within Window - MaxRead of being sent is never declared not created while its copy exists
\* (docs/07 section 8, routes.ts markNotCreatedAllowed).
MarkedOnlyIfLate ==
  life = "IDLE" => \A c \in Listed : born[c] + MaxRead >= Window

\* The last of the checks that allowed "not created" came after nothing that still exists: a copy
\* made before its read was seen, whatever the length of the window.
MarkedAfterCleanRead ==
  life = "IDLE" =>
    Len(reads) > 0 /\ \A c \in Listed : born[c] >= reads[Len(reads)].at

\* "Three checks" are three reads of the complete list, a throttle apart from each other, and no
\* copy that one of them saw is forgotten: neither by a later zero, nor by a check that was
\* truncated, cancelled, taken over or lost in a crash (tests/unit/store-safety.test.ts:224).
EvidenceAddsUp ==
  /\ summary # None =>
       /\ summary.first # None => summary.checks = Len(reads)
       /\ \A i \in DOMAIN reads : reads[i].found \subseteq summary.candidates
  /\ \A i, j \in DOMAIN reads : i < j => reads[i].at + Throttle <= reads[j].at

-----------------------------------------------------------------------------
(* The inductive invariant.  The properties are about evidence that was    *)
(* written long ago; it is enough to know how the last of it relates to    *)
(* the clock, to the run in flight and to what Clockify holds.             *)

LastRead == reads[Len(reads)]

\* A check in flight is younger than MaxRead, and its list is complete up to its read.
JobsTimed ==
  \A r \in Handlers :
    /\ stage[r] # "idle" => job[r].begun <= now /\ now <= job[r].begun + MaxRead
    /\ stage[r] = "deciding" =>
         /\ job[r].begun <= job[r].readAt /\ job[r].readAt <= now
         /\ job[r].pick = None =>
              \A c \in Listed : born[c] < job[r].readAt => c \in job[r].found

\* The run in the row is as old as its handler's check, and a check that is no manual resolution
\* began a throttle after the one before it ended.
RunTimed ==
  run # None =>
    /\ life = "AMBIGUOUS"
    /\ run.startedAt <= now
    /\ summary # None => summary.checkedAt <= run.startedAt
    /\ \A r \in Handlers :
         run.owner = r /\ stage[r] # "idle" =>
           /\ job[r].begun = run.startedAt
           /\ job[r].pick = None /\ summary # None => summary.checkedAt + Throttle <= run.startedAt

\* The evidence stands on the last read that counted.
SummaryTimed ==
  /\ life # "AMBIGUOUS" => summary = None
  /\ summary # None => summary.checkedAt <= now
  /\ life = "AMBIGUOUS" /\ (summary = None \/ summary.first = None) => reads = <<>>
  /\ summary # None /\ summary.first # None =>
       /\ Len(reads) > 0
       /\ LastRead.at <= summary.checkedAt
       /\ summary.truncated \/ summary.checkedAt <= LastRead.at + MaxRead
       /\ \A c \in Listed : born[c] < LastRead.at => c \in summary.candidates

\* Nothing appeared in the future; "not created" was declared after the window and after a read.
PastOnly ==
  /\ \A c \in Copies : born[c] # None => born[c] <= now
  /\ life = "IDLE" => LastRead.at <= now /\ Window <= now

\* Together with its own properties, what every step keeps: no check is believed that is younger,
\* older or less complete than the rule for "not created" takes it to be.
Inv ==
  /\ TypeOK
  /\ JobsTimed
  /\ RunTimed
  /\ SummaryTimed
  /\ PastOnly
  /\ EvidenceAddsUp
  /\ MarkedOnlyIfLate
  /\ MarkedAfterCleanRead
=============================================================================
