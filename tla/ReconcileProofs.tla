-------------------------- MODULE ReconcileProofs --------------------------
(***************************************************************************)
(* Proofs about Reconcile for every throttle, window, number of checks and *)
(* duration of a check: Inv is inductive, so "not created" is never        *)
(* declared of a create that took effect in time.                          *)
(***************************************************************************)
EXTENDS Reconcile, FiniteSetTheorems, TLAPS

\* A handler that ends is idle; nothing that Inv says of the others changes.
LEMMA FinishTyped ==
  ASSUME TypeOK, NEW r \in Handlers, Finish(r)
  PROVE  /\ stage' \in [Handlers -> {"idle", "reading", "deciding"}]
         /\ job' \in [Handlers -> Job]
         /\ stage'[r] = "idle"
         /\ \A h \in Handlers : stage'[h] # "idle" =>
              h # r /\ stage'[h] = stage[h] /\ job'[h] = job[h]
BY DEF TypeOK, Finish, NoJob, Job

\* What completeReconcile writes is a summary.
LEMMA SummaryTyped ==
  ASSUME TypeOK
  PROVE  /\ Current \in Summary
         /\ NotCounted \in Summary
         /\ \A found \in SUBSET Copies : Counted(found) \in Summary
<1>1. Current \in Summary
  BY DEF TypeOK, Current, Blank, Summary
<1>2. NotCounted \in Summary
  BY <1>1 DEF NotCounted, Summary, TypeOK
<1>3. ASSUME NEW found \in SUBSET Copies PROVE Counted(found) \in Summary
  <2>1. Cardinality(found) \in Nat
    BY CopiesAssumption, FS_Subset, FS_CardinalityType
  <2>2. /\ Current.first \in Nat \cup {None} /\ Current.checks \in Nat
        /\ Current.candidates \in SUBSET Copies
    BY <1>1 DEF Summary
  <2>3. (IF Current.first = None THEN now ELSE Current.first) \in Nat \cup {None}
    BY <2>2 DEF TypeOK
  <2>4. (IF Current.first = None THEN 1 ELSE Current.checks + 1) \in Nat
    BY <2>2
  <2>5. Current.candidates \cup found \in SUBSET Copies
    BY <2>2
  <2> QED
    BY <2>1, <2>3, <2>4, <2>5 DEF Counted, Summary, TypeOK
<1> QED
  BY <1>1, <1>2, <1>3

-----------------------------------------------------------------------------
(* Types. *)

\* Every step keeps the types.
LEMMA TypeStep == TypeOK /\ [Next]_vars => TypeOK'
<1> SUFFICES ASSUME TypeOK, [Next]_vars PROVE TypeOK'
  OBVIOUS
<1>1. ASSUME NEW r \in Handlers, CheckStep(r) PROVE TypeOK'
  <2>1. ASSUME NEW pick \in Copies \cup {None}, Begin(r, pick) PROVE TypeOK'
    BY <2>1 DEF Begin, StartJob, TypeOK, Job, Run, remoteVars
  <2>2. ASSUME Reads(r) PROVE TypeOK'
    <3>1. [pick |-> job[r].pick, begun |-> job[r].begun, readAt |-> now,
           found |-> Found(job[r].pick)] \in Job
      BY DEF TypeOK, Job, Found, Listed
    <3> QED
      BY <2>2, <3>1 DEF Reads, TypeOK, storeVars, remoteVars
  <2>3. ASSUME Truncated(r) PROVE TypeOK'
    BY <2>3, FinishTyped, SummaryTyped DEF Truncated, TypeOK, remoteVars
  <2>4. ASSUME ReadFails(r) PROVE TypeOK'
    BY <2>4, FinishTyped DEF ReadFails, TypeOK, remoteVars
  <2>5. ASSUME NEW c \in Copies, Adopts(r, c) PROVE TypeOK'
    BY <2>5, FinishTyped DEF Adopts, TypeOK, remoteVars
  <2>6. ASSUME Completes(r) PROVE TypeOK'
    <3>1. job[r].found \in SUBSET Copies /\ job[r].readAt \in Nat
      BY DEF TypeOK, Job
    <3>2. [at |-> job[r].readAt, found |-> job[r].found] \in Read
      BY <3>1 DEF Read
    <3>3. reads' \in Seq(Read)
      BY <2>6, <3>2 DEF Completes, TypeOK
    <3> QED
      BY <2>6, <3>1, <3>3, FinishTyped, SummaryTyped DEF Completes, TypeOK, remoteVars
  <2>7. ASSUME ResolveEnds(r) PROVE TypeOK'
    BY <2>7, FinishTyped DEF ResolveEnds, TypeOK, remoteVars
  <2>8. ASSUME Crash(r) PROVE TypeOK'
    BY <2>8, FinishTyped DEF Crash, TypeOK, storeVars, remoteVars
  <2> QED
    BY <1>1, <2>1, <2>2, <2>3, <2>4, <2>5, <2>6, <2>7, <2>8 DEF CheckStep
<1>2. ASSUME MarkNotCreated PROVE TypeOK'
  BY <1>2 DEF MarkNotCreated, TypeOK, handlerVars, remoteVars
<1>3. ASSUME NEW c \in Copies, CopyAppears(c) \/ CopyDeleted(c) PROVE TypeOK'
  BY <1>3 DEF CopyAppears, CopyDeleted, TypeOK, storeVars, handlerVars
<1>4. ASSUME Tick PROVE TypeOK'
  BY <1>4 DEF Tick, TypeOK, storeVars, handlerVars, remoteVars
<1>5. ASSUME UNCHANGED vars PROVE TypeOK'
  BY <1>5 DEF vars, TypeOK, storeVars, handlerVars, remoteVars
<1> QED
  BY <1>1, <1>2, <1>3, <1>4, <1>5 DEF Next

-----------------------------------------------------------------------------
(* The parts of the invariant. *)

\* What a step that leaves clock, store, history and Clockify alone keeps of Inv: all but what
\* it says of the handlers.
LEMMA StoreKept ==
  ASSUME Inv, UNCHANGED <<now, storeVars, remoteVars, reads>>
  PROVE  SummaryTimed' /\ PastOnly' /\ EvidenceAddsUp' /\ MarkedOnlyIfLate' /\ MarkedAfterCleanRead'
BY DEF Inv, SummaryTimed, PastOnly, EvidenceAddsUp, MarkedOnlyIfLate, MarkedAfterCleanRead,
       LastRead, Listed, storeVars, remoteVars

\* A handler that ends, while clock and Clockify stand still, leaves the jobs of the others.
LEMMA JobsFinish ==
  ASSUME Inv, NEW r \in Handlers, Finish(r), UNCHANGED <<now, remoteVars>>
  PROVE  JobsTimed'
BY FinishTyped DEF Inv, JobsTimed, Listed, remoteVars

\* A run that stays, or goes, when a handler ends.
LEMMA RunFinish ==
  ASSUME Inv, NEW r \in Handlers, Finish(r), run' = run \/ run' = None,
         UNCHANGED <<now, life, summary>>
  PROVE  RunTimed'
BY FinishTyped DEF Inv, RunTimed

\* A begin dates its run: the evidence is older than the run by a throttle, or the run is a
\* manual resolution.
LEMMA BeginTimed ==
  ASSUME Inv, Inv => TypeOK', NEW r \in Handlers, NEW pick \in Copies \cup {None}, Begin(r, pick)
  PROVE  Inv'
<1>1. TypeOK /\ TypeOK'
  BY DEF Inv
<1>2. JobsTimed'
  BY <1>1, ClockAssumption DEF Begin, StartJob, Inv, JobsTimed, TypeOK, Job, Listed, remoteVars
<1>3. RunTimed'
  <2>1. now \in Nat /\ Throttle \in Nat
    BY <1>1, ClockAssumption DEF TypeOK
  <2>2. run' # None /\ run'.owner = r /\ run'.startedAt = now /\ life' = "AMBIGUOUS"
    <3>1. run' = [owner |-> r, startedAt |-> now] /\ life' = "AMBIGUOUS"
      BY DEF Begin
    <3>2. run' \in Run
      BY <2>1, <3>1 DEF Run
    <3> QED
      BY <3>1, <3>2, NoneAssumption
  <2>3. summary # None => summary.checkedAt \in Nat /\ summary.checkedAt <= now
    BY <1>1 DEF Inv, SummaryTimed, TypeOK, Summary
  <2>4. ASSUME pick = None, summary # None
        PROVE  summary.checkedAt + Throttle <= now
    <3>1. CASE run = None
      BY <2>1, <2>3, <2>4, <3>1 DEF Begin, Throttled
    <3>2. CASE run # None
      <4>1. run.startedAt \in Nat /\ summary.checkedAt <= run.startedAt
        BY <1>1, <2>4, <3>2 DEF Inv, RunTimed, TypeOK, Run
      <4>2. ~(now - run.startedAt < Throttle)
        BY <3>2 DEF Begin, Throttled
      <4> QED
        BY <2>1, <2>3, <2>4, <4>1, <4>2
    <3> QED
      BY <3>1, <3>2
  <2>5. job'[r].begun = now /\ job'[r].pick = pick
    BY <1>1 DEF Begin, StartJob, TypeOK
  <2>6. UNCHANGED <<now, summary>>
    BY DEF Begin
  <2> QED
    BY <2>1, <2>2, <2>3, <2>4, <2>5, <2>6 DEF RunTimed
<1>4. UNCHANGED <<now, life, summary, remoteVars, reads>>
  BY DEF Begin
<1>5. SummaryTimed' /\ PastOnly' /\ EvidenceAddsUp' /\ MarkedOnlyIfLate' /\ MarkedAfterCleanRead'
  BY <1>4 DEF Inv, SummaryTimed, PastOnly, EvidenceAddsUp, MarkedOnlyIfLate,
              MarkedAfterCleanRead, LastRead, Listed, remoteVars
<1> QED
  BY <1>1, <1>2, <1>3, <1>5 DEF Inv

\* A read that is answered sees every copy that appeared before.
LEMMA ReadsTimed ==
  ASSUME Inv, TypeOK', NEW r \in Handlers, Reads(r)
  PROVE  Inv'
<1>1. TypeOK
  BY DEF Inv
<1>2. UNCHANGED <<now, storeVars, remoteVars, reads>>
  BY DEF Reads
<1>3. /\ stage'[r] = "deciding" /\ job'[r].pick = job[r].pick /\ job'[r].begun = job[r].begun
      /\ job'[r].readAt = now /\ job'[r].found = Found(job[r].pick)
      /\ \A h \in Handlers \ {r} : stage'[h] = stage[h] /\ job'[h] = job[h]
  BY <1>1 DEF Reads, TypeOK
<1>4. JobsTimed'
  <2>1. now \in Nat /\ job[r].begun \in Nat /\ job[r].begun <= now /\ now <= job[r].begun + MaxRead
    BY <1>1 DEF Inv, JobsTimed, Reads, TypeOK, Job
  <2>2. Listed' = Listed
    BY <1>2 DEF Listed, remoteVars
  <2>3. \A c \in Listed : job[r].pick = None => c \in Found(job[r].pick)
    BY DEF Found
  <2>4. UNCHANGED <<now, born>>
    BY <1>2 DEF remoteVars
  <2>5. ASSUME NEW h \in Handlers \ {r} PROVE JobsTimed!(h)'
    BY <1>3, <2>2, <2>4 DEF Inv, JobsTimed
  <2>6. JobsTimed!(r)'
    BY <1>3, <2>1, <2>2, <2>3, <2>4
  <2> QED
    BY <2>5, <2>6 DEF JobsTimed
<1>5. RunTimed'
  BY <1>2, <1>3 DEF Inv, RunTimed, storeVars, Reads
<1> QED
  BY <1>2, <1>4, <1>5, StoreKept DEF Inv

\* A handler that only gives its run back, or dies with it.
LEMMA EndsTimed ==
  ASSUME Inv, TypeOK', NEW r \in Handlers, Finish(r), run' = run \/ run' = None,
         UNCHANGED <<now, life, summary, remoteVars, reads>>
  PROVE  Inv'
<1>1. JobsTimed' /\ RunTimed'
  BY JobsFinish, RunFinish
<1>2. SummaryTimed' /\ PastOnly' /\ EvidenceAddsUp' /\ MarkedOnlyIfLate' /\ MarkedAfterCleanRead'
  BY DEF Inv, SummaryTimed, PastOnly, EvidenceAddsUp, MarkedOnlyIfLate, MarkedAfterCleanRead,
         LastRead, Listed, remoteVars
<1> QED
  BY <1>1, <1>2 DEF Inv

\* A truncated list moves the time of the last check, and bars the mark.
LEMMA TruncatedTimed ==
  ASSUME Inv, TypeOK', NEW r \in Handlers, Truncated(r), OwnsRun(r)
  PROVE  Inv'
<1>1. TypeOK
  BY DEF Inv
<1>2. /\ run # None /\ life = "AMBIGUOUS" /\ run' = None /\ Finish(r)
      /\ UNCHANGED <<now, life, remoteVars, reads>>
      /\ summary' = NotCounted
  BY DEF Inv, RunTimed, Truncated, OwnsRun
<1>3. JobsTimed' /\ RunTimed'
  <2>1. JobsTimed'
    BY <1>2, JobsFinish
  <2> QED
    BY <1>2, <2>1 DEF RunTimed
<1>4. /\ summary'.checkedAt = now /\ summary'.truncated
      /\ summary'.first = Current.first /\ summary'.checks = Current.checks
      /\ summary'.candidates = Current.candidates
      /\ summary' # None
  <2>1. NotCounted \in Summary /\ Current \in Summary
    BY <1>1, SummaryTyped
  <2> QED
    BY <1>2, <2>1, NoneAssumption DEF NotCounted, Summary
<1>5. /\ Current.first # None => summary # None
      /\ summary # None => Current = summary
      /\ now \in Nat
  BY <1>1 DEF Current, Blank, TypeOK
<1>6. reads # <<>> => summary # None /\ summary.first # None
  BY <1>2 DEF Inv, SummaryTimed
<1>7. SummaryTimed'
  <2>1. UNCHANGED <<LastRead, Listed, born>>
    BY <1>2 DEF LastRead, Listed, remoteVars
  <2>2. CASE Current.first = None
    BY <1>2, <1>4, <1>5, <1>6, <2>2 DEF SummaryTimed
  <2>3. CASE Current.first # None
    <3>1. /\ Current = summary /\ summary # None /\ summary.first # None
          /\ summary.checkedAt \in Nat /\ summary.checkedAt <= now
      BY <1>1, <1>5, <2>3 DEF Inv, SummaryTimed, TypeOK, Summary
    <3>2. Len(reads) > 0 /\ reads[Len(reads)] \in Read
      BY <1>1, <3>1 DEF Inv, SummaryTimed, TypeOK
    <3>3. LastRead.at \in Nat /\ LastRead.at <= now
      BY <1>5, <3>1, <3>2 DEF Inv, SummaryTimed, LastRead, Read
    <3>4. \A c \in Listed : born[c] < LastRead.at => c \in summary.candidates
      BY <3>1 DEF Inv, SummaryTimed
    <3> QED
      BY <1>2, <1>4, <1>5, <2>1, <3>1, <3>2, <3>3, <3>4 DEF SummaryTimed
  <2> QED
    BY <2>2, <2>3
<1>8. EvidenceAddsUp'
  <2>1. \A i \in DOMAIN reads : summary # None
    BY <1>6, <1>1 DEF TypeOK
  <2> QED
    BY <1>2, <1>4, <1>5, <2>1 DEF Inv, EvidenceAddsUp
<1>9. PastOnly' /\ MarkedOnlyIfLate' /\ MarkedAfterCleanRead'
  BY <1>2 DEF Inv, PastOnly, MarkedOnlyIfLate, MarkedAfterCleanRead, Listed, remoteVars
<1> QED
  BY <1>3, <1>7, <1>8, <1>9 DEF Inv

\* A complete list without adoption adds its read to the evidence: it ended now, so it is at most
\* MaxRead old, it saw what was there, and it began a throttle after the check before it.
LEMMA CompletesTimed ==
  ASSUME Inv, TypeOK', NEW r \in Handlers, Completes(r), OwnsRun(r)
  PROVE  Inv'
<1> DEFINE read == [at |-> job[r].readAt, found |-> job[r].found]
<1>1. TypeOK
  BY DEF Inv
<1>2. /\ run # None /\ run.owner = r /\ life = "AMBIGUOUS" /\ run' = None /\ Finish(r)
      /\ stage[r] = "deciding" /\ job[r].pick = None
      /\ UNCHANGED <<now, life, remoteVars>>
      /\ summary' = Counted(job[r].found)
      /\ reads' = Append(reads, read)
  BY DEF Inv, RunTimed, Completes, OwnsRun
<1>3. JobsTimed' /\ RunTimed'
  <2>1. JobsTimed'
    BY <1>2, JobsFinish
  <2> QED
    BY <1>2, <2>1 DEF RunTimed
<1>4. /\ job[r].begun \in Nat /\ job[r].readAt \in Nat /\ job[r].found \in SUBSET Copies
      /\ now \in Nat /\ MaxRead \in Nat /\ Throttle \in Nat
  BY <1>1, ClockAssumption DEF TypeOK, Job
<1>5. /\ job[r].begun <= job[r].readAt /\ job[r].readAt <= now
      /\ now <= job[r].begun + MaxRead
      /\ job[r].begun = run.startedAt
      /\ summary # None => summary.checkedAt + Throttle <= run.startedAt
      /\ \A c \in Listed : born[c] < job[r].readAt => c \in job[r].found
  BY <1>2 DEF Inv, JobsTimed, RunTimed
<1>6. /\ summary'.checkedAt = now /\ ~summary'.truncated
      /\ summary'.first = IF Current.first = None THEN now ELSE Current.first
      /\ summary'.checks = IF Current.first = None THEN 1 ELSE Current.checks + 1
      /\ summary'.candidates = Current.candidates \cup job[r].found
      /\ summary' # None
  <2>1. Counted(job[r].found) \in Summary
    BY <1>1, <1>4, SummaryTyped
  <2> QED
    BY <1>2, <2>1, NoneAssumption DEF Counted
<1>7. /\ Current.first # None => summary # None
      /\ summary # None => Current = summary
      /\ Current \in Summary
  BY <1>1, SummaryTyped DEF Current, Blank
<1>8. /\ reads \in Seq(Read) /\ read \in Read
      /\ Len(reads') = Len(reads) + 1 /\ reads'[Len(reads) + 1] = read
      /\ DOMAIN reads' = 1 .. Len(reads) + 1 /\ DOMAIN reads = 1 .. Len(reads)
      /\ \A i \in 1 .. Len(reads) : reads'[i] = reads[i]
      /\ Len(reads) \in Nat
  BY <1>1, <1>2, <1>4 DEF TypeOK, Read
<1>8a. \A i \in 1 .. Len(reads) : reads[i].at \in Nat
  <2>1. \A i \in 1 .. Len(reads) : reads[i] \in Read
    BY <1>8
  <2> QED
    BY <2>1 DEF Read
<1>9. SummaryTimed'
  <2>1. LastRead' = read
    BY <1>8 DEF LastRead
  <2>2. LastRead'.at <= summary'.checkedAt /\ summary'.checkedAt <= LastRead'.at + MaxRead
    BY <1>4, <1>5, <1>6, <2>1
  <2>3. \A c \in Listed' : born'[c] < LastRead'.at => c \in summary'.candidates
    BY <1>2, <1>5, <1>6, <2>1 DEF Listed, remoteVars
  <2>4. summary'.first # None
    BY <1>4, <1>6, NoneAssumption
  <2> QED
    BY <1>2, <1>4, <1>6, <1>8, <2>2, <2>3, <2>4 DEF SummaryTimed
<1>10. EvidenceAddsUp'
  <2>1. summary = None \/ summary.first = None => Len(reads) = 0
    BY <1>2 DEF Inv, SummaryTimed
  <2>2. summary'.checks = Len(reads')
    <3>1. CASE Current.first = None
      BY <1>6, <1>7, <1>8, <2>1, <3>1
    <3>2. CASE Current.first # None
      BY <1>6, <1>7, <1>8, <3>2 DEF Inv, EvidenceAddsUp
    <3> QED
      BY <3>1, <3>2
  <2>3. ASSUME NEW i \in DOMAIN reads'
        PROVE  reads'[i].found \subseteq summary'.candidates
    <3>1. CASE i = Len(reads) + 1
      BY <1>6, <1>8, <3>1
    <3>2. CASE i \in 1 .. Len(reads)
      <4>1. summary # None
        BY <2>1, <3>2
      <4>2. reads[i].found \subseteq summary.candidates
        BY <1>8, <3>2, <4>1 DEF Inv, EvidenceAddsUp
      <4> QED
        BY <1>6, <1>7, <1>8, <3>2, <4>1, <4>2
    <3> QED
      BY <1>8, <3>1, <3>2
  <2>4. ASSUME NEW i \in DOMAIN reads', NEW j \in DOMAIN reads', i < j
        PROVE  reads'[i].at + Throttle <= reads'[j].at
    <3>1. i \in 1 .. Len(reads)
      BY <1>8, <2>4
    <3>2. CASE j \in 1 .. Len(reads)
      BY <1>8, <2>4, <3>1, <3>2 DEF Inv, EvidenceAddsUp
    <3>3. CASE j = Len(reads) + 1
      <4>1. summary # None /\ summary.first # None
        BY <2>1, <3>1
      <4>2. LastRead.at <= summary.checkedAt /\ Len(reads) > 0
        BY <4>1 DEF Inv, SummaryTimed
      <4>3. reads[i].at <= LastRead.at
        <5>1. CASE i = Len(reads)
          BY <1>8, <1>8a, <3>1, <5>1 DEF LastRead
        <5>2. CASE i < Len(reads)
          <6>1. reads[i].at + Throttle <= reads[Len(reads)].at
            BY <1>8, <3>1, <5>2, <4>2 DEF Inv, EvidenceAddsUp
          <6>2. reads[i].at \in Nat /\ reads[Len(reads)].at \in Nat
            BY <1>8, <1>8a, <3>1, <4>2
          <6> QED
            BY <6>1, <6>2, <1>4 DEF LastRead
        <5> QED
          BY <1>8, <3>1, <5>1, <5>2
      <4>4. /\ reads[i].at \in Nat /\ LastRead.at \in Nat /\ summary.checkedAt \in Nat
            /\ run.startedAt \in Nat
        BY <1>1, <1>2, <1>8, <1>8a, <3>1, <4>1, <4>2 DEF LastRead, TypeOK, Summary, Run
      <4>5. reads'[j].at = job[r].readAt /\ reads'[i] = reads[i]
        BY <1>8, <3>1, <3>3
      <4>6. summary.checkedAt + Throttle <= job[r].readAt
        BY <1>4, <1>5, <4>1, <4>4
      <4>7. reads[i].at + Throttle <= job[r].readAt
        BY <1>4, <4>2, <4>3, <4>4, <4>6
      <4> QED
        BY <4>5, <4>7
    <3> QED
      BY <1>8, <2>4, <3>2, <3>3
  <2> QED
    BY <2>2, <2>3, <2>4 DEF EvidenceAddsUp
<1>11. PastOnly' /\ MarkedOnlyIfLate' /\ MarkedAfterCleanRead'
  BY <1>2 DEF Inv, PastOnly, MarkedOnlyIfLate, MarkedAfterCleanRead, Listed, remoteVars
<1> QED
  BY <1>3, <1>9, <1>10, <1>11 DEF Inv

\* A mark is declared on evidence that is clean, wide enough and counted.
LEMMA MarkTimed ==
  ASSUME Inv, TypeOK', MarkNotCreated
  PROVE  Inv'
<1>1. TypeOK
  BY DEF Inv
<1>2. /\ summary # None /\ summary.first # None /\ run = None /\ ~summary.truncated
      /\ summary.candidates = {} /\ summary.checkedAt - summary.first >= Window
      /\ life = "AMBIGUOUS" /\ life' = "IDLE" /\ summary' = None /\ run' = None
      /\ UNCHANGED <<now, stage, job, born, gone, reads>>
  BY DEF MarkNotCreated, MarkAllowed, handlerVars, remoteVars
<1>3. /\ Len(reads) > 0 /\ LastRead.at <= summary.checkedAt
      /\ summary.checkedAt <= LastRead.at + MaxRead /\ summary.checkedAt <= now
      /\ \A c \in Listed : ~(born[c] < LastRead.at)
  BY <1>2 DEF Inv, SummaryTimed
<1>4. /\ summary.first \in Nat /\ summary.checkedAt \in Nat /\ now \in Nat
      /\ Window \in Nat /\ MaxRead \in Nat
  BY <1>1, <1>2, ClockAssumption DEF TypeOK, Summary
<1>5. reads[Len(reads)] \in Read
  BY <1>1, <1>3 DEF TypeOK
<1>6. LastRead.at \in Nat
  BY <1>5 DEF LastRead, Read
<1>7. Window <= summary.checkedAt
  BY <1>2, <1>4
<1>8. \A c \in Listed : born[c] \in Nat
  BY <1>1 DEF TypeOK, Listed
<1>9. UNCHANGED <<Listed, LastRead>>
  BY <1>2 DEF Listed, LastRead
<1>10. MarkedOnlyIfLate'
  <2>1. ASSUME NEW c \in Listed PROVE born[c] + MaxRead >= Window
    <3>1. LastRead.at <= born[c]
      BY <1>3, <1>6, <1>8
    <3> QED
      BY <1>3, <1>4, <1>6, <1>7, <1>8, <3>1
  <2> QED
    BY <1>2, <1>9, <2>1 DEF MarkedOnlyIfLate
<1>11. MarkedAfterCleanRead'
  <2>1. \A c \in Listed : born[c] >= reads[Len(reads)].at
    BY <1>3, <1>6, <1>8 DEF LastRead
  <2> QED
    BY <1>2, <1>3, <1>9, <2>1 DEF MarkedAfterCleanRead
<1>12. PastOnly'
  BY <1>2, <1>3, <1>4, <1>6, <1>7, <1>9 DEF Inv, PastOnly
<1>13. JobsTimed' /\ RunTimed' /\ SummaryTimed' /\ EvidenceAddsUp'
  BY <1>2, <1>9 DEF Inv, JobsTimed, RunTimed, SummaryTimed, EvidenceAddsUp
<1> QED
  BY <1>10, <1>11, <1>12, <1>13 DEF Inv

\* An adoption takes the evidence and the run away.
LEMMA AdoptsTimed ==
  ASSUME Inv, TypeOK', NEW r \in Handlers, NEW c \in Copies, Adopts(r, c)
  PROVE  Inv'
<1>1. /\ life' = "RECREATED" /\ summary' = None /\ run' = None /\ Finish(r)
      /\ UNCHANGED <<now, born, gone, reads>>
  BY DEF Adopts, remoteVars
<1>2. JobsTimed'
  BY <1>1, JobsFinish DEF remoteVars
<1>3. RunTimed' /\ SummaryTimed' /\ MarkedOnlyIfLate' /\ MarkedAfterCleanRead'
  BY <1>1 DEF RunTimed, SummaryTimed, MarkedOnlyIfLate, MarkedAfterCleanRead
<1>4. PastOnly' /\ EvidenceAddsUp'
  BY <1>1 DEF Inv, PastOnly, EvidenceAddsUp
<1> QED
  BY <1>2, <1>3, <1>4 DEF Inv

-----------------------------------------------------------------------------
(* Clockify and the clock. *)

\* A copy that appears now is younger than every read; one that goes is missed by nobody.
LEMMA CopiesTimed ==
  ASSUME Inv, TypeOK', NEW c \in Copies, CopyAppears(c) \/ CopyDeleted(c)
  PROVE  Inv'
<1>1. TypeOK
  BY DEF Inv
<1>2. UNCHANGED <<now, life, summary, run, stage, job, reads>>
  BY DEF CopyAppears, CopyDeleted, storeVars, handlerVars
<1>3. \A d \in Listed' : (d \in Listed /\ born'[d] = born[d]) \/ born'[d] = now
  BY <1>1 DEF CopyAppears, CopyDeleted, Listed, TypeOK
<1>4. now \in Nat /\ Window \in Nat /\ MaxRead \in Nat
  BY <1>1, ClockAssumption DEF TypeOK
<1>5. UNCHANGED LastRead
  BY <1>2 DEF LastRead
<1>6. Len(reads) > 0 => LastRead.at \in Nat
  <2>1. Len(reads) > 0 => reads[Len(reads)] \in Read
    BY <1>1 DEF TypeOK
  <2> QED
    BY <2>1 DEF LastRead, Read
<1>7. JobsTimed'
  <2>1. ASSUME NEW r \in Handlers, stage[r] = "deciding", job[r].pick = None,
               NEW d \in Listed', born'[d] < job[r].readAt
        PROVE  d \in job[r].found
    <3>1. job[r].readAt \in Nat /\ job[r].readAt <= now
      BY <1>1, <2>1 DEF Inv, JobsTimed, TypeOK, Job
    <3> QED
      BY <1>3, <1>4, <2>1, <3>1 DEF Inv, JobsTimed
  <2> QED
    BY <1>2, <2>1 DEF Inv, JobsTimed
<1>8. RunTimed' /\ EvidenceAddsUp'
  BY <1>2 DEF Inv, RunTimed, EvidenceAddsUp
<1>9. SummaryTimed'
  <2>1. ASSUME summary # None, summary.first # None, NEW d \in Listed', born'[d] < LastRead.at
        PROVE  d \in summary.candidates
    <3>1. /\ LastRead.at \in Nat /\ LastRead.at <= summary.checkedAt
          /\ summary.checkedAt <= now /\ summary.checkedAt \in Nat
      BY <1>1, <1>6, <2>1 DEF Inv, SummaryTimed, TypeOK, Summary
    <3> QED
      BY <1>3, <1>4, <2>1, <3>1 DEF Inv, SummaryTimed
  <2> QED
    BY <1>2, <1>5, <2>1 DEF Inv, SummaryTimed
<1>10. PastOnly'
  <2>1. \A d \in Copies : born'[d] # None => born'[d] <= now
    BY <1>1, <1>4 DEF Inv, PastOnly, CopyAppears, CopyDeleted, TypeOK
  <2> QED
    BY <1>2, <1>5, <2>1 DEF Inv, PastOnly
<1>11. MarkedOnlyIfLate' /\ MarkedAfterCleanRead'
  <2>1. ASSUME life = "IDLE"
        PROVE  Len(reads) > 0 /\ LastRead.at <= now /\ Window <= now
    BY <2>1 DEF Inv, PastOnly, MarkedAfterCleanRead
  <2>2. ASSUME life = "IDLE", NEW d \in Listed'
        PROVE  born'[d] + MaxRead >= Window /\ born'[d] >= LastRead.at
    BY <1>3, <1>4, <1>6, <2>1, <2>2
       DEF Inv, MarkedOnlyIfLate, MarkedAfterCleanRead, LastRead
  <2> QED
    BY <1>2, <1>5, <2>1, <2>2 DEF MarkedOnlyIfLate, MarkedAfterCleanRead, LastRead
<1> QED
  BY <1>7, <1>8, <1>9, <1>10, <1>11 DEF Inv

\* The clock ticks for no check that would be older than MaxRead.
LEMMA TickTimed ==
  ASSUME Inv, TypeOK', Tick
  PROVE  Inv'
<1>1. TypeOK
  BY DEF Inv
<1>2. UNCHANGED <<life, summary, run, stage, job, born, gone, reads>> /\ now' = now + 1
  BY DEF Tick, storeVars, handlerVars, remoteVars
<1>3. now \in Nat /\ MaxRead \in Nat /\ Window \in Nat
  BY <1>1, ClockAssumption DEF TypeOK
<1>4. UNCHANGED <<LastRead, Listed>>
  BY <1>2 DEF LastRead, Listed
<1>5. Len(reads) > 0 => LastRead.at \in Nat
  <2>1. Len(reads) > 0 => reads[Len(reads)] \in Read
    BY <1>1 DEF TypeOK
  <2> QED
    BY <2>1 DEF LastRead, Read
<1>6. JobsTimed'
  <2>1. ASSUME NEW r \in Handlers, stage[r] # "idle"
        PROVE  job[r].begun <= now + 1 /\ now + 1 <= job[r].begun + MaxRead
    <3>1. job[r].begun \in Nat /\ job[r].begun <= now /\ now - job[r].begun < MaxRead
      BY <1>1, <2>1 DEF Tick, Inv, JobsTimed, TypeOK, Job
    <3> QED
      BY <1>3, <3>1
  <2>2. ASSUME NEW r \in Handlers, stage[r] = "deciding"
        PROVE  job[r].readAt <= now + 1
    <3>1. job[r].readAt \in Nat /\ job[r].readAt <= now
      BY <1>1, <2>2 DEF Inv, JobsTimed, TypeOK, Job
    <3> QED
      BY <1>3, <3>1
  <2> QED
    BY <1>2, <1>4, <2>1, <2>2 DEF Inv, JobsTimed
<1>7. RunTimed'
  <2>1. run # None => run.startedAt \in Nat /\ run.startedAt <= now
    BY <1>1 DEF Inv, RunTimed, TypeOK, Run
  <2> QED
    BY <1>2, <1>3, <2>1 DEF Inv, RunTimed
<1>8. SummaryTimed'
  <2>1. summary # None => summary.checkedAt \in Nat /\ summary.checkedAt <= now
    BY <1>1 DEF Inv, SummaryTimed, TypeOK, Summary
  <2> QED
    BY <1>2, <1>3, <1>4, <2>1 DEF Inv, SummaryTimed
<1>9. PastOnly'
  <2>1. ASSUME NEW c \in Copies, born[c] # None PROVE born[c] <= now + 1
    BY <1>1, <1>3, <2>1 DEF Inv, PastOnly, TypeOK
  <2>2. life = "IDLE" => LastRead.at <= now + 1 /\ Window <= now + 1
    BY <1>3, <1>5 DEF Inv, PastOnly, MarkedAfterCleanRead
  <2> QED
    BY <1>2, <1>4, <2>1, <2>2 DEF PastOnly
<1>10. EvidenceAddsUp' /\ MarkedOnlyIfLate' /\ MarkedAfterCleanRead'
  BY <1>2, <1>4 DEF Inv, EvidenceAddsUp, MarkedOnlyIfLate, MarkedAfterCleanRead
<1> QED
  BY <1>6, <1>7, <1>8, <1>9, <1>10 DEF Inv

-----------------------------------------------------------------------------
(* Theorems. *)

\* Before the first check there is no evidence but what an older release left.
LEMMA InvInit == Init => Inv
<1> SUFFICES ASSUME Init PROVE Inv
  OBVIOUS
<1>1. summary # None => summary \in Summary /\ summary.first = None /\ summary.checkedAt = 0
  <2>1. ASSUME summary # None
        PROVE  \E n \in Nat, cs \in SUBSET Copies : summary = LegacySummary(n, cs)
    <3>1. PICK n \in LegacyChecks, cs \in {{}, Taken} : summary = LegacySummary(n, cs)
      BY <2>1 DEF Init, LegacySummaries
    <3> QED
      BY <3>1, LegacyChecksAssumption, CopiesAssumption
  <2>2. \A n \in Nat, cs \in SUBSET Copies :
          /\ LegacySummary(n, cs) \in Summary
          /\ LegacySummary(n, cs).first = None /\ LegacySummary(n, cs).checkedAt = 0
    BY DEF LegacySummary, Summary
  <2> QED
    BY <2>1, <2>2
<1>2. TypeOK
  BY <1>1 DEF Init, TypeOK, NoJob, Job
<1>3. Listed = {} /\ reads = <<>> /\ DOMAIN reads = {}
  BY DEF Init, Listed
<1> QED
  BY <1>1, <1>2, <1>3 DEF Init, Inv, JobsTimed, RunTimed, SummaryTimed, PastOnly, EvidenceAddsUp,
                          MarkedOnlyIfLate, MarkedAfterCleanRead

\* Every step keeps the invariant.
LEMMA InvStep == Inv /\ [Next]_vars => Inv'
<1> SUFFICES ASSUME Inv, [Next]_vars PROVE Inv'
  OBVIOUS
<1>1. TypeOK'
  BY TypeStep DEF Inv
<1>2. ASSUME NEW r \in Handlers, CheckStep(r) PROVE Inv'
  <2>1. ASSUME NEW pick \in Copies \cup {None}, Begin(r, pick) PROVE Inv'
    BY <1>1, <2>1, BeginTimed
  <2>2. ASSUME Reads(r) PROVE Inv'
    BY <1>1, <2>2, ReadsTimed
  <2>3. ASSUME Truncated(r) PROVE Inv'
    <3>1. CASE OwnsRun(r)
      BY <1>1, <2>3, <3>1, TruncatedTimed
    <3>2. CASE ~OwnsRun(r)
      BY <1>1, <2>3, <3>2, EndsTimed DEF Truncated
    <3> QED
      BY <3>1, <3>2
  <2>4. ASSUME ReadFails(r) PROVE Inv'
    BY <1>1, <2>4, EndsTimed DEF ReadFails
  <2>5. ASSUME NEW c \in Copies, Adopts(r, c) PROVE Inv'
    BY <1>1, <2>5, AdoptsTimed
  <2>6. ASSUME Completes(r) PROVE Inv'
    <3>1. CASE OwnsRun(r)
      BY <1>1, <2>6, <3>1, CompletesTimed
    <3>2. CASE ~OwnsRun(r)
      BY <1>1, <2>6, <3>2, EndsTimed DEF Completes
    <3> QED
      BY <3>1, <3>2
  <2>7. ASSUME ResolveEnds(r) PROVE Inv'
    BY <1>1, <2>7, EndsTimed DEF ResolveEnds
  <2>8. ASSUME Crash(r) PROVE Inv'
    BY <1>1, <2>8, EndsTimed DEF Crash, storeVars
  <2> QED
    BY <1>2, <2>1, <2>2, <2>3, <2>4, <2>5, <2>6, <2>7, <2>8 DEF CheckStep
<1>3. ASSUME MarkNotCreated PROVE Inv'
  BY <1>1, <1>3, MarkTimed
<1>4. ASSUME NEW c \in Copies, CopyAppears(c) \/ CopyDeleted(c) PROVE Inv'
  BY <1>1, <1>4, CopiesTimed
<1>5. ASSUME Tick PROVE Inv'
  BY <1>1, <1>5, TickTimed
<1>6. ASSUME UNCHANGED vars PROVE Inv'
  <2>1. UNCHANGED <<now, life, summary, run, stage, job, born, gone, reads>>
    BY <1>6 DEF vars, storeVars, handlerVars, remoteVars
  <2> QED
    BY <2>1, <1>1 DEF Inv, JobsTimed, RunTimed, SummaryTimed, PastOnly, EvidenceAddsUp,
                      MarkedOnlyIfLate, MarkedAfterCleanRead, LastRead, Listed
<1> QED
  BY <1>2, <1>3, <1>4, <1>5, <1>6 DEF Next

\* The inductive invariant holds for every throttle, window, number of checks and handlers.
THEOREM EvidenceIsSound == Spec => []Inv
<1>1. Inv /\ [Next]_vars => Inv'
  BY InvStep
<1> QED
  BY InvInit, <1>1, PTL DEF Spec

\* A create that takes effect within Window - MaxRead is never declared "not created".
THEOREM MarkIsSafe == Spec => []MarkedOnlyIfLate
<1>1. Inv => MarkedOnlyIfLate
  BY DEF Inv
<1> QED
  BY EvidenceIsSound, <1>1, PTL

\* What exists at the last counted read is never declared "not created".
THEOREM MarkFollowsCleanRead == Spec => []MarkedAfterCleanRead
<1>1. Inv => MarkedAfterCleanRead
  BY DEF Inv
<1> QED
  BY EvidenceIsSound, <1>1, PTL

\* Counted checks are distinct complete reads a throttle apart, and none of their finds is lost.
THEOREM ChecksAreIndependent == Spec => []EvidenceAddsUp
<1>1. Inv => EvidenceAddsUp
  BY DEF Inv
<1> QED
  BY EvidenceIsSound, <1>1, PTL
=============================================================================
