------------------------- MODULE InstallationsProofs -------------------------
(***************************************************************************)
(* Proofs about Installations for any number of generations, deliveries    *)
(* and deleted entries: Inv is inductive, part by part, and what follows.  *)
(***************************************************************************)
EXTENDS InstallationsInvariant, TLAPS

\* A purge keeps the types of what it rewrites.
LEMMA PurgeTyped ==
  ASSUME TypeOK, NEW gone \in SUBSET Generations,
         NEW notice \in [Generations -> AuthTokens \cup {None}], Purge(gone, notice)
  PROVE  /\ authToken' \in [Generations -> AuthTokens \cup {None}]
         /\ installedAt' \in [Generations -> 0 .. MaxStamp]
         /\ status' \in [Generations -> Statuses]
         /\ broken' \in [Generations -> AuthTokens \cup {None}]
         /\ storedUnder' \in [SourceIds -> Generations \cup {None}]
         /\ purged' \subseteq Generations
BY MaxStampAssumption DEF TypeOK, Purge, Statuses

\* What a finished INSTALLED makes of the notices.
LEMMA NoticeTyped ==
  ASSUME TypeOK, NEW h \in Handlers
  PROVE  NoticeAfter(h) \in [Generations -> AuthTokens \cup {None}]
BY DEF TypeOK, NoticeAfter, NoticeCleared

\* A handler that ends is idle and has no job; the others are not concerned.
LEMMA FinishTyped ==
  ASSUME TypeInv, NEW h \in Handlers, Finish(h)
  PROVE  /\ pc' \in [Handlers -> Stages]
         /\ job' \in [Handlers -> Job]
         /\ JobsTyped'
<1>1. NoJob \in Job
  BY MaxStampAssumption DEF NoJob, InstalledJob, Job
<1> QED
  BY <1>1 DEF TypeInv, TypeOK, JobsTyped, Finish, Stages

-----------------------------------------------------------------------------
(* Types. *)

\* Every step keeps the types.
LEMMA TypeStep == TypeInv /\ [Next]_vars => TypeInv'
<1> SUFFICES ASSUME TypeInv, [Next]_vars PROVE TypeInv'
  OBVIOUS
<1> USE DEF TypeInv
<1>1. ASSUME NEW h \in Handlers, HandlerStep(h) PROVE TypeInv'
  <2>1. ASSUME NEW m \in Installed, InstalledLoads(h, m) PROVE TypeInv'
    <3>1. m.gen \in Generations /\ m.token \in AuthTokens
      BY DEF Installed
    <3>2. authToken[m.gen] \in AuthTokens \cup {None}
      BY <3>1 DEF TypeOK
    <3>3. InstalledJob(m.gen, m.token, authToken[m.gen], 0, m.gen \in purged) \in Job
      BY <3>1, <3>2, MaxStampAssumption DEF InstalledJob, Job
    <3>4. TypeOK'
      BY <2>1, <3>3 DEF InstalledLoads, Goto, TypeOK, Stages, storeVars, rowVars,
                        clockifyVars, historyVars
    <3>5. JobsTyped'
      BY <2>1, <3>1 DEF InstalledLoads, Goto, TypeOK, JobsTyped, InstalledJob
    <3> QED
      BY <3>4, <3>5
  <2>2. ASSUME InstalledStamps(h) PROVE TypeInv'
    <3>1. /\ job[h].gen \in Generations /\ job[h].token \in AuthTokens
          /\ job[h].previous \in AuthTokens \cup {None} /\ job[h].wasPurged \in BOOLEAN
          /\ clock + 1 \in 0 .. MaxStamp
      BY <2>2, MaxStampAssumption DEF InstalledStamps, TypeOK, JobsTyped, Job
    <3>2. InstalledJob(job[h].gen, job[h].token, job[h].previous, clock + 1,
                       job[h].wasPurged) \in Job
      BY <3>1 DEF InstalledJob, Job
    <3>3. TypeOK'
      BY <2>2, <3>1, <3>2 DEF InstalledStamps, Goto, TypeOK, Stages, storeVars, rowVars,
                        clockifyVars, historyVars
    <3>4. JobsTyped'
      BY <2>2, <3>1 DEF InstalledStamps, Goto, TypeOK, JobsTyped, InstalledJob
    <3> QED
      BY <3>3, <3>4
  <2>3. ASSUME InstalledSaves(h) PROVE TypeInv'
    <3>1. /\ job[h].gen \in Generations /\ job[h].token \in AuthTokens
          /\ job[h].stamp \in 0 .. MaxStamp
      BY <2>3 DEF InstalledSaves, TypeOK, JobsTyped, Job
    <3>2. StatusSaved(job[h].gen) \in Statuses
      BY <3>1 DEF StatusSaved, TypeOK, Statuses
    <3>3. /\ authToken' \in [Generations -> AuthTokens \cup {None}]
          /\ installedAt' \in [Generations -> 0 .. MaxStamp]
          /\ status' \in [Generations -> Statuses]
          /\ broken' = broken
      BY <2>3, <3>1, <3>2 DEF InstalledSaves, TypeOK, rowVars
    <3>4. TypeOK'
      BY <2>3, <3>3 DEF InstalledSaves, Goto, TypeOK, Stages, clockifyVars, historyVars
    <3>5. JobsTyped'
      BY <2>3, <3>1 DEF InstalledSaves, Goto, TypeOK, JobsTyped
    <3> QED
      BY <3>4, <3>5
  <2>4. ASSUME InstalledReplayed(h) PROVE TypeInv'
    <3>1. interrupted' \subseteq Generations
      BY <2>4 DEF InstalledReplayed, TypeOK
    <3> QED
      BY <2>4, <3>1, NoticeTyped, FinishTyped DEF InstalledReplayed, TypeOK, clockifyVars
  <2>5. ASSUME InstalledSupersedes(h) PROVE TypeInv'
    <3> DEFINE g == job[h].gen
    <3>1. Purge(Generations \ {g}, NoticeAfter(h)) /\ Finish(h)
          /\ retired' = retired \cup Superseded(g)
          /\ UNCHANGED <<clockifyVars, clock>> /\ interrupted' = interrupted \ {g}
      BY <2>5 DEF InstalledSupersedes
    <3>2. retired' \subseteq Generations
      BY <3>1 DEF Superseded, TypeOK
    <3> QED
      BY <3>1, <3>2, NoticeTyped, PurgeTyped, FinishTyped DEF TypeOK, clockifyVars
  <2>6. ASSUME InstalledCrashes(h) PROVE TypeInv'
    <3>1. interrupted' \subseteq Generations
      BY <2>6 DEF InstalledCrashes, TypeOK, JobsTyped
    <3> QED
      BY <2>6, <3>1, NoticeTyped, FinishTyped DEF InstalledCrashes, TypeOK, clockifyVars
  <2>7. ASSUME NEW s \in SourceIds, WebhookLoads(h, s) PROVE TypeInv'
    <3>1. deletedUnder[s] \in Generations
      BY <2>7 DEF WebhookLoads, TypeOK
    <3>2. WebhookJob(deletedUnder[s], s) \in Job
      BY <3>1, MaxStampAssumption DEF WebhookJob, Job
    <3>3. TypeOK'
      BY <2>7, <3>2 DEF WebhookLoads, Goto, TypeOK, Stages, storeVars, rowVars, clockifyVars,
                        historyVars
    <3>4. JobsTyped'
      BY <2>7, <3>1 DEF WebhookLoads, Goto, TypeOK, JobsTyped, WebhookJob
    <3> QED
      BY <3>3, <3>4
  <2>8. ASSUME WebhookIngests(h) PROVE TypeInv'
    <3>1. storedUnder' \in [SourceIds -> Generations \cup {None}]
      BY <2>8 DEF WebhookIngests, TypeOK, JobsTyped
    <3> QED
      BY <2>8, <3>1, FinishTyped DEF WebhookIngests, TypeOK, rowVars, clockifyVars, historyVars
  <2>9. ASSUME NEW g \in Generations, ApiLoads(h, g) PROVE TypeInv'
    <3>1. authToken[g] \in AuthTokens /\ installedAt[g] \in 0 .. MaxStamp
      BY <2>9 DEF ApiLoads, HasRow, TypeOK
    <3>2. ApiJob(g, authToken[g], installedAt[g]) \in Job
      BY <3>1 DEF ApiJob, InstalledJob, Job
    <3>3. TypeOK'
      BY <2>9, <3>2 DEF ApiLoads, Goto, TypeOK, Stages, storeVars, rowVars, clockifyVars,
                         historyVars
    <3>4. JobsTyped'
      BY <2>9, <3>1 DEF ApiLoads, Goto, TypeOK, JobsTyped, ApiJob, InstalledJob
    <3> QED
      BY <3>3, <3>4
  <2>10. ASSUME ApiRejected(h) PROVE TypeInv'
    <3>1. broken' \in [Generations -> AuthTokens \cup {None}]
      BY <2>10 DEF ApiRejected, TypeOK, JobsTyped
    <3> QED
      BY <2>10, <3>1, FinishTyped DEF ApiRejected, TypeOK, clockifyVars, historyVars
  <2>11. ASSUME Abandon(h) PROVE TypeInv'
    <3>1. interrupted' \subseteq Generations
      BY <2>11 DEF Abandon, TypeOK, JobsTyped
    <3> QED
      BY <2>11, <3>1, FinishTyped DEF Abandon, TypeOK, storeVars, rowVars, clockifyVars
  <2> QED
    BY <1>1, <2>1, <2>2, <2>3, <2>4, <2>5, <2>6, <2>7, <2>8, <2>9, <2>10, <2>11
       DEF HandlerStep
<1>2. ASSUME LifecycleStep PROVE TypeInv'
  <2>1. ASSUME NEW g \in Generations, Deleted(g) PROVE TypeInv'
    <3>1. Purge({g}, broken) /\ retired' \subseteq Generations
          /\ broken \in [Generations -> AuthTokens \cup {None}]
          /\ UNCHANGED <<clockifyVars, handlerVars, clock, interrupted>>
      BY <2>1 DEF Deleted, TypeOK
    <3> QED
      BY <3>1, PurgeTyped DEF TypeOK, JobsTyped, clockifyVars, handlerVars
  <2>2. ASSUME NEW g \in Generations, NEW s \in Statuses, StatusChanged(g, s) PROVE TypeInv'
    BY <2>2 DEF StatusChanged, TypeOK, JobsTyped, clockifyVars, handlerVars, historyVars
  <2> QED
    BY <1>2, <2>1, <2>2 DEF LifecycleStep
<1>3. ASSUME ClockifyStep PROVE TypeInv'
  BY <1>3 DEF ClockifyStep, ClockifyInstalls, ClockifyReconnects, ClockifyRemoves,
              ClockifyDeletesEntry, TypeOK, JobsTyped, Installed, storeVars, rowVars,
              handlerVars, historyVars
<1>4. CASE UNCHANGED vars
  BY <1>4 DEF TypeOK, JobsTyped, vars, storeVars, rowVars, clockifyVars, handlerVars, historyVars
<1> QED
  BY <1>1, <1>2, <1>3, <1>4 DEF Next

-----------------------------------------------------------------------------
(* Entries and their installation. *)

\* Only Purge takes rows away, and it takes their entries; only a fenced insert adds entries.
LEMMA EntriesStep ==
  TypeInv /\ EntriesHaveInstallation /\ [Next]_vars => EntriesHaveInstallation'
<1> SUFFICES ASSUME TypeInv, EntriesHaveInstallation, [Next]_vars
             PROVE  EntriesHaveInstallation'
  OBVIOUS
<1> USE DEF TypeInv, EntriesHaveInstallation, HasRow
<1>1. ASSUME NEW gone \in SUBSET Generations, NEW notice, Purge(gone, notice)
      PROVE  EntriesHaveInstallation'
  BY <1>1 DEF Purge, TypeOK
<1>2. ASSUME UNCHANGED <<authToken, storedUnder>> PROVE EntriesHaveInstallation'
  BY <1>2
<1>3. ASSUME NEW h \in Handlers, HandlerStep(h) PROVE EntriesHaveInstallation'
  <2>1. ASSUME InstalledSaves(h) PROVE EntriesHaveInstallation'
    <3>1. /\ storedUnder' = storedUnder
          /\ \A g \in Generations : authToken[g] # None => authToken'[g] # None
      BY <2>1, NoneAssumption DEF InstalledSaves, TypeOK, JobsTyped, rowVars
    <3> QED
      BY <3>1 DEF TypeOK
  <2>2. ASSUME InstalledSupersedes(h) PROVE EntriesHaveInstallation'
    BY <2>2, <1>1 DEF InstalledSupersedes
  <2>3. ASSUME WebhookIngests(h) PROVE EntriesHaveInstallation'
    BY <2>3 DEF WebhookIngests, MayStore, TypeOK, JobsTyped, rowVars
  <2>4. CASE \/ \E m \in Installed : InstalledLoads(h, m)
             \/ InstalledStamps(h) \/ InstalledReplayed(h) \/ InstalledCrashes(h)
             \/ \E s \in SourceIds : WebhookLoads(h, s)
             \/ \E g \in Generations : ApiLoads(h, g)
             \/ ApiRejected(h) \/ Abandon(h)
    <3>1. UNCHANGED <<authToken, storedUnder>>
      BY <2>4 DEF InstalledLoads, InstalledStamps, InstalledReplayed, InstalledCrashes,
                  WebhookLoads, ApiLoads, ApiRejected, Abandon, storeVars, rowVars
    <3> QED
      BY <3>1, <1>2
  <2> QED
    BY <1>3, <2>1, <2>2, <2>3, <2>4 DEF HandlerStep
<1>4. ASSUME LifecycleStep PROVE EntriesHaveInstallation'
  <2>1. ASSUME NEW g \in Generations, Deleted(g) PROVE EntriesHaveInstallation'
    BY <2>1, <1>1 DEF Deleted
  <2> QED
    BY <1>4, <2>1, <1>2 DEF LifecycleStep, StatusChanged
<1>5. ASSUME ClockifyStep PROVE EntriesHaveInstallation'
  BY <1>5, <1>2 DEF ClockifyStep, ClockifyInstalls, ClockifyReconnects, ClockifyRemoves,
                    ClockifyDeletesEntry, storeVars, rowVars
<1>6. CASE UNCHANGED vars
  BY <1>6, <1>2 DEF vars, storeVars, rowVars
<1> QED
  BY <1>3, <1>4, <1>5, <1>6 DEF Next

-----------------------------------------------------------------------------
(* Live generations. *)

\* Pending(g): an INSTALLED of g still has its cleanup ahead, or crashed before it.
Pending(g) == g \in interrupted \/ \E h \in Handlers : pc[h] = "cleaning" /\ job[h].gen = g

\* A step that adds no live row and ends no pending INSTALLED keeps OneLiveGeneration.
LEMMA NothingNewLive ==
  ASSUME OneLiveGeneration,
         \A g \in Generations : HasRow(g)' => HasRow(g),
         retired \subseteq retired',
         \A g \in Generations : Pending(g) => Pending(g)'
  PROVE  OneLiveGeneration'
BY DEF OneLiveGeneration, Pending

\* A generation becomes live only with an INSTALLED that has its cleanup ahead, and whoever
\* finishes its cleanup is the only one left or is retired.
LEMMA LiveStep == TypeInv /\ OneLiveGeneration /\ [Next]_vars => OneLiveGeneration'
<1> SUFFICES ASSUME TypeInv, OneLiveGeneration, [Next]_vars PROVE OneLiveGeneration'
  OBVIOUS
<1> USE DEF TypeInv
<1>1. ASSUME NEW h \in Handlers, HandlerStep(h) PROVE OneLiveGeneration'
  <2>1. ASSUME InstalledSaves(h) PROVE OneLiveGeneration'
    <3>1. job[h].gen \in Generations /\ pc[h] = "saving"
      BY <2>1 DEF InstalledSaves, JobsTyped
    <3>2. /\ \A g \in Generations \ {job[h].gen} : HasRow(g)' <=> HasRow(g)
          /\ retired' = retired /\ interrupted' = interrupted /\ job' = job
          /\ pc' = [pc EXCEPT ![h] = "cleaning"]
      BY <2>1, <3>1 DEF InstalledSaves, TypeOK, HasRow, rowVars, historyVars, Goto
    <3>3. pc'[h] = "cleaning" /\ job'[h].gen = job[h].gen
      BY <3>2 DEF TypeOK
    <3>4. \A k \in Handlers : pc[k] = "cleaning" => pc'[k] = "cleaning" /\ job'[k] = job[k]
      BY <3>2 DEF TypeOK
    <3> QED
      BY <3>2, <3>3, <3>4 DEF OneLiveGeneration
  <2>2. ASSUME InstalledSupersedes(h) PROVE OneLiveGeneration'
    <3>1. \A g \in Generations \ {job[h].gen} : ~HasRow(g)'
      BY <2>2 DEF InstalledSupersedes, Purge, HasRow
    <3> QED
      BY <3>1 DEF OneLiveGeneration
  <2>3. ASSUME InstalledReplayed(h) PROVE OneLiveGeneration'
    <3>1. /\ job[h].gen \in retired /\ UNCHANGED <<authToken, retired>>
          /\ interrupted' = interrupted \ {job[h].gen}
          /\ \A k \in Handlers \ {h} : pc'[k] = pc[k] /\ job'[k] = job[k]
      BY <2>3 DEF InstalledReplayed, IsRetired, Finish, TypeOK
    <3> QED
      BY <3>1 DEF OneLiveGeneration, HasRow
  <2>4. ASSUME Abandon(h) \/ InstalledCrashes(h) PROVE OneLiveGeneration'
    <3>1. /\ UNCHANGED <<authToken, retired>>
          /\ interrupted \subseteq interrupted'
          /\ pc[h] = "cleaning" => job[h].gen \in interrupted'
          /\ \A k \in Handlers \ {h} : pc'[k] = pc[k] /\ job'[k] = job[k]
      BY <2>4 DEF Abandon, InstalledCrashes, Finish, TypeOK, storeVars, rowVars
    <3>2. \A g \in Generations : Pending(g) => Pending(g)'
      BY <3>1 DEF Pending
    <3> QED
      BY <3>1, <3>2, NothingNewLive DEF HasRow
  <2>5. ASSUME UNCHANGED <<authToken, retired, interrupted>>,
               \A k \in Handlers : pc[k] = "cleaning" => pc'[k] = "cleaning" /\ job'[k] = job[k]
        PROVE  OneLiveGeneration'
    BY <2>5, NothingNewLive DEF HasRow, Pending
  <2>6. CASE \/ \E m \in Installed : InstalledLoads(h, m)
             \/ InstalledStamps(h)
             \/ \E s \in SourceIds : WebhookLoads(h, s)
             \/ \E g \in Generations : ApiLoads(h, g)
    <3>1. UNCHANGED <<authToken, retired, interrupted>> /\ pc[h] # "cleaning"
      BY <2>6 DEF InstalledLoads, InstalledStamps, WebhookLoads, ApiLoads, storeVars,
                  rowVars, historyVars
    <3>2. \A k \in Handlers \ {h} : pc'[k] = pc[k] /\ job'[k] = job[k]
      BY <2>6 DEF InstalledLoads, InstalledStamps, WebhookLoads, ApiLoads, Goto, TypeOK
    <3> QED
      BY <2>5, <3>1, <3>2
  <2>7. CASE WebhookIngests(h) \/ ApiRejected(h)
    <3>1. UNCHANGED <<authToken, retired, interrupted>> /\ pc[h] # "cleaning"
      BY <2>7 DEF WebhookIngests, ApiRejected, rowVars, historyVars
    <3>2. \A k \in Handlers \ {h} : pc'[k] = pc[k] /\ job'[k] = job[k]
      BY <2>7 DEF WebhookIngests, ApiRejected, Finish, TypeOK
    <3> QED
      BY <2>5, <3>1, <3>2
  <2> QED
    BY <1>1, <2>1, <2>2, <2>3, <2>4, <2>6, <2>7 DEF HandlerStep
<1>2. ASSUME LifecycleStep PROVE OneLiveGeneration'
  <2>1. /\ \A g \in Generations : HasRow(g)' => HasRow(g)
        /\ retired \subseteq retired'
        /\ UNCHANGED <<pc, job, interrupted>>
    BY <1>2 DEF LifecycleStep, Deleted, StatusChanged, Purge, HasRow, handlerVars, historyVars
  <2> QED
    BY <2>1, NothingNewLive DEF Pending
<1>3. CASE ClockifyStep \/ UNCHANGED vars
  <2>1. UNCHANGED <<authToken, retired, pc, job, interrupted>>
    BY <1>3 DEF ClockifyStep, ClockifyInstalls, ClockifyReconnects, ClockifyRemoves,
                ClockifyDeletesEntry, storeVars, rowVars, handlerVars, historyVars, vars
  <2> QED
    BY <2>1 DEF OneLiveGeneration, HasRow
<1> QED
  BY <1>1, <1>2, <1>3 DEF Next

-----------------------------------------------------------------------------
(* Purges on record. *)

\* What is purged is recorded as retired first, and retired generations stay retired, so an
\* INSTALLED of a purged generation is seen to be a replay.
LEMMA PurgesStep == TypeInv /\ PurgesRecorded /\ [Next]_vars => PurgesRecorded'
<1> SUFFICES ASSUME TypeInv, PurgesRecorded, [Next]_vars PROVE PurgesRecorded'
  OBVIOUS
<1> USE DEF TypeInv
<1>1. ASSUME NEW h \in Handlers, HandlerStep(h) PROVE PurgesRecorded'
  <2>1. ASSUME NEW m \in Installed, InstalledLoads(h, m) PROVE PurgesRecorded'
    BY <2>1 DEF InstalledLoads, InstalledJob, Goto, PurgesRecorded, TypeOK, storeVars, historyVars
  <2>2. CASE InstalledStamps(h)
    BY <2>2 DEF InstalledStamps, InstalledJob, Goto, PurgesRecorded, TypeOK, storeVars,
                historyVars
  <2>3. CASE InstalledSupersedes(h)
    <3> DEFINE g == job[h].gen
    <3>1. /\ retired' = retired \cup {f \in Generations \ {g} : HasRow(f)}
          /\ purged' = purged \cup {f \in Generations \ {g} : HasRow(f)}
      BY <2>3 DEF InstalledSupersedes, Superseded, Purge
    <3>2. purged' \subseteq retired' /\ purged \subseteq purged'
      BY <3>1 DEF PurgesRecorded
    <3>3. job' = [job EXCEPT ![h] = NoJob] /\ pc' = [pc EXCEPT ![h] = "idle"] /\ ~NoJob.wasPurged
      BY <2>3 DEF InstalledSupersedes, Finish, NoJob, InstalledJob
    <3> QED
      BY <3>2, <3>3 DEF PurgesRecorded, TypeOK
  <2>4. CASE InstalledSaves(h)
    BY <2>4 DEF InstalledSaves, PurgesRecorded, historyVars
  <2>5. CASE \/ InstalledReplayed(h) \/ InstalledCrashes(h) \/ WebhookIngests(h)
             \/ ApiRejected(h) \/ Abandon(h)
    BY <2>5 DEF InstalledReplayed, InstalledCrashes, WebhookIngests, ApiRejected, Abandon,
                Finish, NoJob, InstalledJob, PurgesRecorded, TypeOK, storeVars, historyVars
  <2>6. ASSUME NEW s \in SourceIds, WebhookLoads(h, s) PROVE PurgesRecorded'
    BY <2>6 DEF WebhookLoads, WebhookJob, Goto, PurgesRecorded, TypeOK, storeVars, historyVars
  <2>7. ASSUME NEW g \in Generations, ApiLoads(h, g) PROVE PurgesRecorded'
    BY <2>7 DEF ApiLoads, ApiJob, InstalledJob, Goto, PurgesRecorded, TypeOK, storeVars,
                historyVars
  <2> QED
    BY <1>1, <2>1, <2>2, <2>3, <2>4, <2>5, <2>6, <2>7 DEF HandlerStep
<1>2. ASSUME NEW g \in Generations, Deleted(g) PROVE PurgesRecorded'
  <2>1. /\ retired' = retired \cup {g} /\ purged' = purged \cup {f \in {g} : HasRow(f)}
        /\ UNCHANGED <<pc, job>>
    BY <1>2 DEF Deleted, Purge, handlerVars
  <2> QED
    BY <2>1 DEF PurgesRecorded
<1>3. CASE \/ \E g \in Generations, s \in Statuses : StatusChanged(g, s)
           \/ ClockifyStep \/ UNCHANGED vars
  <2>1. UNCHANGED <<retired, purged, pc, job>>
    BY <1>3 DEF StatusChanged, ClockifyStep, ClockifyInstalls, ClockifyReconnects,
                ClockifyRemoves, ClockifyDeletesEntry, storeVars, handlerVars, historyVars, vars
  <2> QED
    BY <2>1 DEF PurgesRecorded
<1> QED
  BY <1>1, <1>2, <1>3 DEF Next, LifecycleStep



-----------------------------------------------------------------------------
(* Stamps. *)

\* What StampsAgree says is kept by a step that leaves the stamps of rows and handlers alone, or
\* takes some away.
LEMMA StampsKept ==
  ASSUME TypeInv, StampsAgree, clock' = clock,
         \A g \in Generations :
           \/ authToken'[g] = authToken[g] /\ installedAt'[g] = installedAt[g]
           \/ authToken'[g] = None /\ installedAt'[g] = 0,
         \A h \in Handlers : pc'[h] \in Stamped => pc[h] \in Stamped /\ job'[h] = job[h]
  PROVE  StampsAgree'
<1>1. \A g \in Generations : installedAt'[g] <= clock'
  BY MaxStampAssumption DEF StampsAgree, TypeInv, TypeOK
<1>2. ASSUME NEW h \in Handlers, pc'[h] \in Stamped
      PROVE  /\ job'[h].stamp <= clock'
             /\ SameConnection(job[h].gen, job[h].stamp)' => authToken'[job'[h].gen] = job'[h].token
             /\ \A k \in Handlers :
                  /\ pc'[k] \in Stamped
                  /\ job'[k].gen = job'[h].gen /\ job'[k].stamp = job'[h].stamp
                  => job'[k].token = job'[h].token
  <2>1. pc[h] \in Stamped /\ job'[h] = job[h] /\ job[h].gen \in Generations
    BY <1>2 DEF TypeInv, JobsTyped, Stamped
  <2> QED
    BY <1>2, <2>1 DEF StampsAgree, SameConnection, HasRow
<1> QED
  BY <1>1, <1>2 DEF StampsAgree, SameConnection, HasRow

\* Every step keeps the agreement of stamps and tokens.
LEMMA StampsStep == TypeInv /\ StampsAgree /\ [Next]_vars => StampsAgree'
<1> SUFFICES ASSUME TypeInv, StampsAgree, [Next]_vars PROVE StampsAgree'
  OBVIOUS
<1> USE DEF TypeInv, TypeOK, rowVars, storeVars, clockifyVars, handlerVars, historyVars
<1>1. ASSUME NEW h \in Handlers, NEW m \in Installed, InstalledLoads(h, m)
      PROVE  StampsAgree'
  BY <1>1, StampsKept DEF InstalledLoads, Goto, Stamped
<1>2. ASSUME NEW h \in Handlers, InstalledStamps(h)
      PROVE  StampsAgree'
  <2>1. /\ clock \in Nat /\ clock' = clock + 1
        /\ job[h].gen \in Generations /\ installedAt[job[h].gen] \in Nat
        /\ job' = [job EXCEPT ![h] = InstalledJob(job[h].gen, job[h].token, job[h].previous,
                                                  clock + 1, job[h].wasPurged)]
        /\ pc' = [pc EXCEPT ![h] = "saving"]
        /\ UNCHANGED <<authToken, installedAt>>
    BY <1>2, MaxStampAssumption DEF InstalledStamps, JobsTyped, Goto
  <2>2. \A g \in Generations : installedAt[g] \in Nat /\ installedAt[g] <= clock
    BY MaxStampAssumption DEF StampsAgree
  <2>3. \A k \in Handlers \ {h} : pc'[k] \in Stamped =>
          /\ pc[k] \in Stamped /\ job'[k] = job[k]
          /\ job[k].stamp \in Nat /\ job[k].stamp <= clock
    BY <2>1, MaxStampAssumption DEF StampsAgree, Job
  <2>4. job'[h].stamp = clock + 1 /\ job'[h].gen = job[h].gen
    BY <2>1 DEF InstalledJob
  <2>5. \A g \in Generations : installedAt'[g] <= clock'
    BY <2>1, <2>2
  <2>6. ASSUME NEW k \in Handlers, pc'[k] \in Stamped
        PROVE  /\ job'[k].stamp <= clock'
               /\ SameConnection(job[k].gen, job[k].stamp)' =>
                    authToken'[job'[k].gen] = job'[k].token
               /\ \A l \in Handlers :
                    /\ pc'[l] \in Stamped
                    /\ job'[l].gen = job'[k].gen /\ job'[l].stamp = job'[k].stamp
                    => job'[l].token = job'[k].token
    <3>1. CASE k = h
      <4>1. ~SameConnection(job[k].gen, job[k].stamp)'
        BY <2>1, <2>2, <2>4, <3>1 DEF SameConnection
      <4>2. \A l \in Handlers \ {h} : pc'[l] \in Stamped => job'[l].stamp # job'[k].stamp
        BY <2>1, <2>3, <2>4, <3>1
      <4> QED
        BY <2>1, <2>4, <3>1, <4>1, <4>2
    <3>2. CASE k # h
      <4>1. job'[h].stamp # job'[k].stamp
        BY <2>1, <2>3, <2>4, <2>6, <3>2
      <4>2. job'[k].stamp <= clock'
        BY <2>1, <2>3, <2>6, <3>2
      <4>3. SameConnection(job[k].gen, job[k].stamp)' =>
              authToken'[job'[k].gen] = job'[k].token
        BY <2>1, <2>3, <2>6, <3>2 DEF StampsAgree, SameConnection, HasRow
      <4>4. \A l \in Handlers \ {h} :
              /\ pc'[l] \in Stamped
              /\ job'[l].gen = job'[k].gen /\ job'[l].stamp = job'[k].stamp
              => job'[l].token = job'[k].token
        BY <2>3, <2>6, <3>2 DEF StampsAgree
      <4> QED
        BY <4>1, <4>2, <4>3, <4>4
    <3> QED
      BY <3>1, <3>2
  <2> QED
    BY <2>5, <2>6 DEF StampsAgree, SameConnection, HasRow
<1>3. ASSUME NEW h \in Handlers, InstalledSaves(h)
      PROVE  StampsAgree'
  <2> DEFINE g == job[h].gen
  <2>1. /\ pc[h] \in Stamped /\ g \in Generations
        /\ pc' = [pc EXCEPT ![h] = "cleaning"] /\ UNCHANGED <<job, clock>>
    BY <1>3 DEF InstalledSaves, Goto, Stamped, JobsTyped
  <2>2. \A k \in Handlers : pc'[k] \in Stamped => pc[k] \in Stamped
    BY <2>1
  <2>3. CASE NewerRow(g, job[h].stamp)
    BY <1>3, <2>1, <2>2, <2>3, StampsKept DEF InstalledSaves
  <2>4. CASE ~NewerRow(g, job[h].stamp)
    <3>1. /\ authToken' = [authToken EXCEPT ![g] = job[h].token]
          /\ installedAt' = [installedAt EXCEPT ![g] = job[h].stamp]
      BY <1>3, <2>4 DEF InstalledSaves
    <3> QED
      BY <2>1, <2>2, <3>1 DEF StampsAgree, SameConnection, HasRow
  <2> QED
    BY <2>3, <2>4
<1>4. ASSUME NEW h \in Handlers, InstalledReplayed(h) \/ InstalledCrashes(h)
      PROVE  StampsAgree'
  BY <1>4, StampsKept DEF InstalledReplayed, InstalledCrashes, Finish, Stamped
<1>5. ASSUME NEW h \in Handlers, InstalledSupersedes(h)
      PROVE  StampsAgree'
  BY <1>5, StampsKept DEF InstalledSupersedes, Purge, Finish, Stamped
<1>6. ASSUME NEW h \in Handlers, NEW s \in SourceIds, WebhookLoads(h, s)
      PROVE  StampsAgree'
  BY <1>6, StampsKept DEF WebhookLoads, Goto, Stamped
<1>7. ASSUME NEW h \in Handlers, WebhookIngests(h) \/ ApiRejected(h) \/ Abandon(h)
      PROVE  StampsAgree'
  BY <1>7, StampsKept DEF WebhookIngests, ApiRejected, Abandon, Finish, Stamped
<1>8. ASSUME NEW h \in Handlers, NEW g \in Generations, ApiLoads(h, g)
      PROVE  StampsAgree'
  <2>1. /\ HasRow(g) /\ pc' = [pc EXCEPT ![h] = "calling"]
        /\ job' = [job EXCEPT ![h] = ApiJob(g, authToken[g], installedAt[g])]
        /\ UNCHANGED <<authToken, installedAt, clock>>
    BY <1>8 DEF ApiLoads, Goto
  <2>2. job'[h].gen = g /\ job'[h].stamp = installedAt[g] /\ job'[h].token = authToken[g]
    BY <2>1 DEF ApiJob, InstalledJob
  <2>3. \A k \in Handlers \ {h} : pc'[k] \in Stamped => pc[k] \in Stamped /\ job'[k] = job[k]
    BY <2>1
  <2>4. \A k \in Handlers \ {h} :
          pc'[k] \in Stamped /\ job'[k].gen = g /\ job'[k].stamp = installedAt[g]
            => job'[k].token = authToken[g]
    BY <2>1, <2>3 DEF StampsAgree, SameConnection
  <2> QED
    BY <2>1, <2>2, <2>3, <2>4 DEF StampsAgree, SameConnection, HasRow
<1>9. ASSUME NEW g \in Generations, Deleted(g)
      PROVE  StampsAgree'
  BY <1>9, StampsKept DEF Deleted, Purge
<1>10. ASSUME NEW g \in Generations, NEW s \in Statuses, StatusChanged(g, s)
       PROVE  StampsAgree'
  BY <1>10, StampsKept DEF StatusChanged
<1>11. ASSUME ClockifyStep
       PROVE  StampsAgree'
  BY <1>11, StampsKept DEF ClockifyStep, ClockifyInstalls, ClockifyReconnects, ClockifyRemoves,
                           ClockifyDeletesEntry
<1>12. CASE UNCHANGED vars
  BY <1>12, StampsKept DEF vars
<1> QED
  BY <1>1, <1>2, <1>3, <1>4, <1>5, <1>6, <1>7, <1>8, <1>9, <1>10, <1>11, <1>12
  DEF Next, HandlerStep, LifecycleStep

-----------------------------------------------------------------------------
(* The theorems. *)

\* Nothing is installed yet.
LEMMA InitInv == Init => Inv
<1> SUFFICES ASSUME Init PROVE Inv
  OBVIOUS
<1>1. TypeOK
  BY MaxStampAssumption DEF Init, TypeOK, Statuses, Stages, Job, NoJob, InstalledJob
<1>2. JobsTyped /\ PurgesRecorded
  BY DEF Init, JobsTyped, PurgesRecorded, NoJob, InstalledJob
<1>3. EntriesHaveInstallation /\ OneLiveGeneration
  BY DEF Init, EntriesHaveInstallation, OneLiveGeneration, HasRow
<1>4. StampsAgree
  BY DEF Init, StampsAgree, Stamped
<1> QED
  BY <1>1, <1>2, <1>3, <1>4 DEF Inv, TypeInv

\* Inv holds in every reachable state, whatever the constants are.
THEOREM Invariance == Spec => []Inv
<1>1. Inv /\ [Next]_vars => Inv'
  BY TypeStep, EntriesStep, LiveStep, PurgesStep, StampsStep DEF Inv
<1> QED
  BY InitInv, <1>1, PTL DEF Spec

\* Every column and local variable always has its type.
THEOREM TypeCorrect == Spec => []TypeOK
<1>1. Inv => TypeOK
  BY DEF Inv, TypeInv
<1> QED
  BY Invariance, <1>1, PTL

\* No deleted entry is ever kept without the installation it was captured under.
THEOREM NoOrphans == Spec => []EntriesHaveInstallation
<1>1. Inv => EntriesHaveInstallation
  BY DEF Inv
<1> QED
  BY Invariance, <1>1, PTL

\* Two generations that both look live are about to be reduced to one, or a crash prevented it.
THEOREM AtMostOneLive == Spec => []OneLiveGeneration
<1>1. Inv => OneLiveGeneration
  BY DEF Inv
<1> QED
  BY Invariance, <1>1, PTL

\* A generation is purged only by its own DELETED or by an INSTALLED that is not a replay of a
\* purged generation.
THEOREM PurgeOnlyWithCause == Spec => PurgeJustified
<1> DEFINE Cause(f) == \/ f \in removed /\ pc' = pc
                       \/ \E h \in Handlers : /\ pc[h] = "cleaning" /\ pc'[h] = "idle"
                                              /\ job[h].gen # f /\ ~job[h].wasPurged
           Justified == \A f \in Generations : HasRow(f) /\ authToken'[f] = None => Cause(f)
<1>1. Inv /\ [Next]_vars => [Justified]_vars
  <2> SUFFICES ASSUME Inv, Next, NEW f \in Generations, HasRow(f), authToken'[f] = None
               PROVE  Cause(f)
    BY Zenon
  <2> USE DEF Inv, TypeInv
  <2>1. ASSUME NEW h \in Handlers, InstalledSaves(h) PROVE FALSE
    BY <2>1, NoneAssumption DEF InstalledSaves, HasRow, TypeOK, JobsTyped, rowVars
  <2>2. ASSUME NEW h \in Handlers, InstalledSupersedes(h) PROVE Cause(f)
    <3>1. pc[h] = "cleaning" /\ pc'[h] = "idle"
      BY <2>2 DEF InstalledSupersedes, Finish, TypeOK
    <3>2. job[h].gen # f
      BY <2>2 DEF InstalledSupersedes, Purge, HasRow
    <3>3. ~job[h].wasPurged
      BY <2>2 DEF InstalledSupersedes, IsRetired, PurgesRecorded
    <3> QED
      BY <3>1, <3>2, <3>3
  <2>3. ASSUME NEW g \in Generations, Deleted(g) PROVE Cause(f)
    <3>1. f = g /\ g \in removed /\ pc' = pc
      BY <2>3 DEF Deleted, Purge, HasRow, handlerVars
    <3> QED
      BY <3>1
  <2>4. ASSUME authToken' = authToken PROVE FALSE
    BY <2>4 DEF HasRow
  <2>5. ASSUME NEW h \in Handlers, HandlerStep(h) PROVE Cause(f)
    <3>1. CASE \/ \E m \in Installed : InstalledLoads(h, m)
               \/ InstalledStamps(h) \/ InstalledReplayed(h) \/ InstalledCrashes(h)
               \/ \E s \in SourceIds : WebhookLoads(h, s)
               \/ WebhookIngests(h)
               \/ \E g \in Generations : ApiLoads(h, g)
               \/ ApiRejected(h) \/ Abandon(h)
      <4>1. authToken' = authToken
        BY <3>1 DEF InstalledLoads, InstalledStamps, InstalledReplayed, InstalledCrashes,
                    WebhookLoads, WebhookIngests, ApiLoads, ApiRejected, Abandon,
                    storeVars, rowVars
      <4> QED
        BY <4>1, <2>4
    <3> QED
      BY <2>5, <3>1, <2>1, <2>2 DEF HandlerStep
  <2>6. ASSUME ClockifyStep \/ \E g \in Generations, s \in Statuses : StatusChanged(g, s)
        PROVE  Cause(f)
    <3>1. authToken' = authToken
      BY <2>6 DEF StatusChanged, ClockifyStep, ClockifyInstalls, ClockifyReconnects,
                  ClockifyRemoves, ClockifyDeletesEntry, storeVars, rowVars
    <3> QED
      BY <3>1, <2>4
  <2> QED
    BY <2>3, <2>5, <2>6 DEF Next, LifecycleStep
<1>2. Spec => [][Justified]_vars
  BY Invariance, <1>1, PTL DEF Spec
<1> QED
  BY <1>2 DEF PurgeJustified

\* A delivery never overwrites the row of one that was stamped later, however the two interleave.
THEOREM NewerWins == Spec => NewerConnectionKept
<1> DEFINE Kept == \A g \in Generations :
                     HasRow(g) /\ authToken'[g] # None => installedAt'[g] >= installedAt[g]
<1>1. Inv /\ [Next]_vars => [Kept]_vars
  <2> SUFFICES ASSUME Inv, Next, NEW g \in Generations, HasRow(g), authToken'[g] # None
               PROVE  installedAt'[g] >= installedAt[g]
    BY Zenon
  <2> USE DEF Inv, TypeInv
  <2>1. installedAt[g] \in Nat
    BY MaxStampAssumption DEF TypeOK
  <2>2. ASSUME NEW h \in Handlers, InstalledSaves(h) PROVE installedAt'[g] >= installedAt[g]
    <3>1. job[h].stamp \in Nat /\ job[h].gen \in Generations
      BY <2>2, MaxStampAssumption DEF InstalledSaves, JobsTyped, TypeOK, Job
    <3> QED
      BY <2>1, <2>2, <3>1 DEF InstalledSaves, NewerRow, HasRow, TypeOK, rowVars
  <2>3. ASSUME NEW gone, NEW notice, Purge(gone, notice) PROVE installedAt'[g] = installedAt[g]
    BY <2>3 DEF Purge
  <2>4. ASSUME NEW h \in Handlers, HandlerStep(h) PROVE installedAt'[g] >= installedAt[g]
    <3>1. CASE InstalledSupersedes(h)
      BY <3>1, <2>1, <2>3 DEF InstalledSupersedes
    <3>2. CASE \/ \E m \in Installed : InstalledLoads(h, m)
               \/ InstalledStamps(h) \/ InstalledReplayed(h) \/ InstalledCrashes(h)
               \/ \E s \in SourceIds : WebhookLoads(h, s)
               \/ WebhookIngests(h)
               \/ \E f \in Generations : ApiLoads(h, f)
               \/ ApiRejected(h) \/ Abandon(h)
      <4>1. installedAt' = installedAt
        BY <3>2 DEF InstalledLoads, InstalledStamps, InstalledReplayed, InstalledCrashes,
                    WebhookLoads, WebhookIngests, ApiLoads, ApiRejected, Abandon, storeVars, rowVars
      <4> QED
        BY <4>1, <2>1
    <3> QED
      BY <2>4, <3>1, <3>2, <2>2 DEF HandlerStep
  <2>5. ASSUME LifecycleStep PROVE installedAt'[g] >= installedAt[g]
    <3>1. installedAt'[g] = installedAt[g]
      BY <2>5, <2>3 DEF LifecycleStep, Deleted, StatusChanged
    <3> QED
      BY <3>1, <2>1
  <2>6. ASSUME ClockifyStep PROVE installedAt'[g] >= installedAt[g]
    <3>1. installedAt' = installedAt
      BY <2>6 DEF ClockifyStep, ClockifyInstalls, ClockifyReconnects, ClockifyRemoves,
                  ClockifyDeletesEntry, storeVars, rowVars
    <3> QED
      BY <3>1, <2>1
  <2> QED
    BY <2>4, <2>5, <2>6 DEF Next
<1>2. Spec => [][Kept]_vars
  BY Invariance, <1>1, PTL DEF Spec
<1> QED
  BY <1>2 DEF NewerConnectionKept

\* A notice appears and goes only by a handler that holds the very token of the row it is about.
THEOREM NoticesFollow == Spec => NoticeFollowsToken
<1> DEFINE Holder(g) == \E h \in Handlers :
                          pc'[h] # pc[h] /\ job[h].gen = g /\ job[h].token = authToken[g]
           Follows == \A g \in Generations :
                        broken'[g] # broken[g] /\ authToken'[g] # None => Holder(g)
<1>1. Inv /\ [Next]_vars => [Follows]_vars
  <2> SUFFICES ASSUME Inv, Next, NEW g \in Generations, broken'[g] # broken[g], authToken'[g] # None
               PROVE  Holder(g)
    BY Zenon
  <2> USE DEF Inv, TypeInv
  <2>1. ASSUME NEW h \in Handlers, pc[h] \in Stamped, pc'[h] # pc[h], job[h].gen = g,
               SameConnection(g, job[h].stamp)
        PROVE  Holder(g)
    BY <2>1 DEF StampsAgree
  <2>2. ASSUME NEW h \in Handlers, pc[h] = "cleaning", Finish(h), NoticeAfter(h)[g] # broken[g]
        PROVE  Holder(g)
    <3>1. job[h].gen = g /\ SameConnection(g, job[h].stamp)
      BY <2>2 DEF NoticeAfter, NoticeCleared, TypeOK
    <3> QED
      BY <2>1, <2>2, <3>1 DEF Finish, TypeOK, Stamped
  <2>3. ASSUME NEW h \in Handlers, InstalledReplayed(h) \/ InstalledCrashes(h) PROVE Holder(g)
    <3>1. pc[h] = "cleaning" /\ Finish(h) /\ broken' = NoticeAfter(h)
      BY <2>3 DEF InstalledReplayed, InstalledCrashes
    <3> QED
      BY <2>2, <3>1
  <2>4. ASSUME NEW h \in Handlers, InstalledSupersedes(h) PROVE Holder(g)
    <3>1. pc[h] = "cleaning" /\ Finish(h)
      BY <2>4 DEF InstalledSupersedes
    <3>2. broken'[g] = NoticeAfter(h)[g]
      BY <2>4 DEF InstalledSupersedes, Purge
    <3> QED
      BY <2>2, <3>1, <3>2
  <2>5. ASSUME NEW h \in Handlers, ApiRejected(h) PROVE Holder(g)
    <3>1. pc[h] = "calling" /\ pc'[h] # pc[h] /\ job[h].gen = g /\ SameConnection(g, job[h].stamp)
      BY <2>5 DEF ApiRejected, Finish, TypeOK
    <3> QED
      BY <2>1, <3>1 DEF Stamped
  <2>6. ASSUME NEW f \in Generations, Deleted(f) PROVE FALSE
    BY <2>6 DEF Deleted, Purge
  <2>7. ASSUME \/ \E h \in Handlers :
                    \/ \E m \in Installed : InstalledLoads(h, m)
                    \/ InstalledStamps(h) \/ InstalledSaves(h)
                    \/ \E s \in SourceIds : WebhookLoads(h, s)
                    \/ WebhookIngests(h)
                    \/ \E f \in Generations : ApiLoads(h, f)
                    \/ Abandon(h)
               \/ \E f \in Generations, s \in Statuses : StatusChanged(f, s)
               \/ ClockifyStep
        PROVE  FALSE
    BY <2>7 DEF InstalledLoads, InstalledStamps, InstalledSaves, WebhookLoads, WebhookIngests,
                ApiLoads, Abandon, StatusChanged, ClockifyStep, ClockifyInstalls,
                ClockifyReconnects, ClockifyRemoves, ClockifyDeletesEntry, storeVars, rowVars
  <2> QED
    BY <2>3, <2>4, <2>5, <2>6, <2>7 DEF Next, HandlerStep, LifecycleStep
<1>2. Spec => [][Follows]_vars
  BY Invariance, <1>1, PTL DEF Spec
<1> QED
  BY <1>2 DEF NoticeFollowsToken

\* Only Clockify's own event changes the status of a row that stays.
THEOREM StatusIsKept == Spec => RedeliveryKeepsStatus
<1> DEFINE Kept == \A g \in Generations, h \in Handlers :
                     pc'[h] # pc[h] /\ HasRow(g) /\ authToken'[g] # None => status'[g] = status[g]
<1>1. Inv /\ [Next]_vars => [Kept]_vars
  <2> SUFFICES ASSUME Inv, Next, NEW g \in Generations, NEW h \in Handlers,
                      pc'[h] # pc[h], HasRow(g), authToken'[g] # None
               PROVE  status'[g] = status[g]
    BY Zenon
  <2> USE DEF Inv, TypeInv
  <2>1. ASSUME NEW k \in Handlers, InstalledSaves(k) PROVE status'[g] = status[g]
    BY <2>1 DEF InstalledSaves, StatusSaved, TypeOK, rowVars
  <2>2. ASSUME NEW k \in Handlers, InstalledSupersedes(k) PROVE status'[g] = status[g]
    BY <2>2 DEF InstalledSupersedes, Purge
  <2>3. ASSUME NEW k \in Handlers, HandlerStep(k) PROVE status'[g] = status[g]
    BY <2>1, <2>2, <2>3
    DEF HandlerStep, InstalledLoads, InstalledStamps, InstalledReplayed, InstalledCrashes,
        WebhookLoads, WebhookIngests, ApiLoads, ApiRejected, Abandon, storeVars, rowVars
  <2>4. ASSUME LifecycleStep \/ ClockifyStep PROVE FALSE
    BY <2>4 DEF LifecycleStep, Deleted, StatusChanged, ClockifyStep, ClockifyInstalls,
                ClockifyReconnects, ClockifyRemoves, ClockifyDeletesEntry, handlerVars
  <2> QED
    BY <2>3, <2>4 DEF Next
<1>2. Spec => [][Kept]_vars
  BY Invariance, <1>1, PTL DEF Spec
<1> QED
  BY <1>2 DEF RedeliveryKeepsStatus
=============================================================================
