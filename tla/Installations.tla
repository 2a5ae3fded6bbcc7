---------------------------- MODULE Installations ----------------------------
(***************************************************************************)
(* Installation generations of one workspace, the lifecycle events that    *)
(* create and remove them, and the webhook deliveries that are stored      *)
(* under them.                                                             *)
(*                                                                         *)
(* Clockify gives every installation a fresh add-on id, the generation.    *)
(* Its events carry no time and do not expire: each may arrive late, again *)
(* and again, in any order, or never.  Every delivery is a handler that    *)
(* awaits the decryption or encryption of tokens; one process serves them  *)
(* all, so an action is what a handler does from one await to the next.    *)
(***************************************************************************)
EXTENDS Naturals, FiniteSets

CONSTANTS
  Generations,  \* addonId values
  Handlers,     \* deliveries and API requests in flight
  AuthTokens,   \* installation tokens Clockify issues
  SourceIds,    \* time entries that get deleted at Clockify
  MaxStamp,     \* how often Date.now() is read for an installation
  None          \* no row, no value

ASSUME MaxStampAssumption == MaxStamp \in Nat
ASSUME NoneAssumption ==
  /\ None \notin Generations /\ None \notin AuthTokens /\ None \notin SourceIds

VARIABLES
  (* installations *)
  authToken,    \* auth_token; None: the generation has no row
  installedAt,  \* installed_at
  status,       \* status
  broken,       \* broken_at; as a value, the token whose rejection set it
  (* retired_installations, recoverable_entries *)
  retired,      \* generations with a row
  storedUnder,  \* addon_id of each source entry's row; None: no row
  (* Clockify *)
  current,      \* the generation Clockify has installed
  removed,      \* generations it has removed: their DELETED was sent
  announced,    \* INSTALLED payloads sent so far
  deletedUnder, \* the generation whose webhook announced each deleted entry
  (* request handlers *)
  pc, job,
  clock,        \* the last value of Date.now()
  (* history *)
  purged,       \* generations that have had their row deleted
  interrupted   \* generations whose INSTALLED crashed after its save

rowVars      == <<authToken, installedAt, status, broken>>
storeVars    == <<rowVars, retired, storedUnder>>
clockifyVars == <<current, removed, announced, deletedUnder>>
handlerVars  == <<pc, job>>
historyVars  == <<purged, interrupted>>
vars == <<storeVars, clockifyVars, handlerVars, clock, historyVars>>

Statuses == {"ACTIVE", "INACTIVE"}
Stages   == {"idle", "stamping", "saving", "cleaning", "verifying", "calling"}
Installed == [gen : Generations, token : AuthTokens]
Job == [gen : Generations \cup {None}, token : AuthTokens \cup {None},
        previous : AuthTokens \cup {None}, stamp : 0 .. MaxStamp,
        source : SourceIds \cup {None}, wasPurged : BOOLEAN]

\* The local variables of an INSTALLED, a webhook delivery, an API request, and of none.
InstalledJob(g, t, previous, stamp, wasPurged) ==
  [gen |-> g, token |-> t, previous |-> previous, stamp |-> stamp, source |-> None,
   wasPurged |-> wasPurged]
WebhookJob(g, s) ==
  [gen |-> g, token |-> None, previous |-> None, stamp |-> 0, source |-> s, wasPurged |-> FALSE]
ApiJob(g, t, stamp) == InstalledJob(g, t, None, stamp, FALSE)
NoJob == InstalledJob(None, None, None, 0, FALSE)

HasRow(g) == authToken[g] # None

-----------------------------------------------------------------------------
(* Store calls.  An operator whose comment starts with "Wrong:" is a       *)
(* plausible bug; putting it in the place of the operator after it must    *)
(* make a property fail.                                                   *)

\* Wrong: the generation guard is missing.
NewerRowNever(g, stamp) == FALSE

\* The generation guard of save: only a strictly newer row is kept.
NewerRow(g, stamp) == HasRow(g) /\ installedAt[g] > stamp

\* Wrong: the notice is cleared whoever connected last.
SameConnectionAlways(g, stamp) == HasRow(g)

\* The fence of markInstallationBroken and clearInstallationBroken.
SameConnection(g, stamp) == HasRow(g) /\ installedAt[g] = stamp

\* Wrong: whoever comes second leaves the first alone.
IsRetiredOrSecond(g) == g \in retired \/ \E f \in Generations \ {g} : HasRow(f)

\* isRetiredInstallation
IsRetired(g) == g \in retired

\* The WHERE EXISTS of ingestDeletedEntry.
MayStore(g) == HasRow(g)

\* clearInstallationBroken, for a token that changed.
NoticeCleared(g, previous, token, stamp) ==
  IF previous # None /\ previous # token /\ SameConnection(g, stamp)
    THEN [broken EXCEPT ![g] = None] ELSE broken

\* The DELETE statements of uninstallInstallation and supersedeOtherInstallations; notice is what
\* the same step makes of broken_at elsewhere.
Purge(gone, notice) ==
  /\ authToken'   = [f \in Generations |-> IF f \in gone THEN None ELSE authToken[f]]
  /\ installedAt' = [f \in Generations |-> IF f \in gone THEN 0 ELSE installedAt[f]]
  /\ status'      = [f \in Generations |-> IF f \in gone THEN "ACTIVE" ELSE status[f]]
  /\ broken'      = [f \in Generations |-> IF f \in gone THEN None ELSE notice[f]]
  /\ storedUnder' = [s \in SourceIds |-> IF storedUnder[s] \in gone THEN None
                                          ELSE storedUnder[s]]
  /\ purged'      = purged \cup {f \in gone : HasRow(f)}

\* Wrong: what is superseded is not recorded.
SupersededNobody(g) == {}

\* The generations supersedeOtherInstallations records as retired.
Superseded(g) == {f \in Generations \ {g} : HasRow(f)}

\* Wrong: a connection that is saved again is active again.
StatusActive(g) == "ACTIVE"

\* The upsert leaves status alone; an inserted row starts ACTIVE.
StatusSaved(g) == IF HasRow(g) THEN status[g] ELSE "ACTIVE"

Finish(h) ==
  /\ pc'  = [pc EXCEPT ![h] = "idle"]
  /\ job' = [job EXCEPT ![h] = NoJob]

Goto(h, stage) == pc' = [pc EXCEPT ![h] = stage]

-----------------------------------------------------------------------------
(* INSTALLED *)

\* The previous row is loaded; its token is still to be decrypted.
InstalledLoads(h, m) ==
  /\ pc[h] = "idle"
  /\ m \in announced
  /\ job' = [job EXCEPT ![h] = InstalledJob(m.gen, m.token, authToken[m.gen], 0,
                                            m.gen \in purged)]
  /\ Goto(h, "stamping")
  /\ UNCHANGED <<storeVars, clockifyVars, clock, historyVars>>

\* Date.now(), taken to differ from one delivery to the next; the token is still to be encrypted.
InstalledStamps(h) ==
  /\ pc[h] = "stamping"
  /\ clock < MaxStamp
  /\ clock' = clock + 1
  /\ job' = [job EXCEPT ![h] = InstalledJob(job[h].gen, job[h].token, job[h].previous,
                                            clock + 1, job[h].wasPurged)]
  /\ Goto(h, "saving")
  /\ UNCHANGED <<storeVars, clockifyVars, historyVars>>

InstalledSaves(h) ==
  LET g == job[h].gen IN
  /\ pc[h] = "saving"
  /\ IF NewerRow(g, job[h].stamp)
       THEN UNCHANGED rowVars
       ELSE /\ authToken'   = [authToken EXCEPT ![g] = job[h].token]
            /\ installedAt' = [installedAt EXCEPT ![g] = job[h].stamp]
            /\ status'      = [status EXCEPT ![g] = StatusSaved(g)]
            /\ UNCHANGED broken
  /\ Goto(h, "cleaning")
  /\ UNCHANGED <<retired, storedUnder, clockifyVars, job, clock, historyVars>>

\* What broken_at becomes when the row is saved.
NoticeAfter(h) == NoticeCleared(job[h].gen, job[h].previous, job[h].token, job[h].stamp)

\* A replay of a retired generation cleans nothing up; its row stays.
InstalledReplayed(h) ==
  /\ pc[h] = "cleaning"
  /\ IsRetired(job[h].gen)
  /\ broken' = NoticeAfter(h)
  /\ interrupted' = interrupted \ {job[h].gen}
  /\ Finish(h)
  /\ UNCHANGED <<authToken, installedAt, status, retired, storedUnder, clockifyVars, clock, purged>>

\* supersedeOtherInstallations
InstalledSupersedes(h) ==
  LET g == job[h].gen IN
  /\ pc[h] = "cleaning"
  /\ ~IsRetired(g)
  /\ retired' = retired \cup Superseded(g)
  /\ Purge(Generations \ {g}, NoticeAfter(h))
  /\ interrupted' = interrupted \ {g}
  /\ Finish(h)
  /\ UNCHANGED <<clockifyVars, clock>>

-----------------------------------------------------------------------------
(* The other lifecycle events, each one store call. *)

\* Wrong: the workspace is uninstalled, not the generation.
DeletedWorkspace(g) ==
  /\ g \in removed
  /\ retired' = retired \cup {g}
  /\ Purge(Generations, broken)
  /\ UNCHANGED <<clockifyVars, handlerVars, clock, interrupted>>

\* uninstallInstallation
Deleted(g) ==
  /\ g \in removed
  /\ retired' = retired \cup {g}
  /\ Purge({g}, broken)
  /\ UNCHANGED <<clockifyVars, handlerVars, clock, interrupted>>

\* updateInstallationStatus
StatusChanged(g, s) ==
  /\ HasRow(g)
  /\ status' = [status EXCEPT ![g] = s]
  /\ UNCHANGED <<authToken, installedAt, broken, retired, storedUnder, clockifyVars,
                 handlerVars, clock, historyVars>>

-----------------------------------------------------------------------------
(* Webhook deliveries *)

\* The stored token is loaded for the verification of the delivery.
WebhookLoads(h, s) ==
  LET g == deletedUnder[s] IN
  /\ pc[h] = "idle"
  /\ g # None
  /\ HasRow(g)
  /\ job' = [job EXCEPT ![h] = WebhookJob(g, s)]
  /\ Goto(h, "verifying")
  /\ UNCHANGED <<storeVars, clockifyVars, clock, historyVars>>

\* ingestDeletedEntry: inserted, duplicate or installation-gone.
WebhookIngests(h) ==
  LET g == job[h].gen
      s == job[h].source
  IN
  /\ pc[h] = "verifying"
  /\ storedUnder' = [storedUnder EXCEPT ![s] =
                       IF storedUnder[s] = None /\ MayStore(g) THEN g ELSE storedUnder[s]]
  /\ Finish(h)
  /\ UNCHANGED <<rowVars, retired, clockifyVars, clock, historyVars>>

-----------------------------------------------------------------------------
(* API requests, as far as they touch the installation. *)

\* loadClient
ApiLoads(h, g) ==
  /\ pc[h] = "idle"
  /\ HasRow(g)
  /\ job' = [job EXCEPT ![h] = ApiJob(g, authToken[g], installedAt[g])]
  /\ Goto(h, "calling")
  /\ UNCHANGED <<storeVars, clockifyVars, clock, historyVars>>

\* Clockify rejects the token: markInstallationBroken
ApiRejected(h) ==
  LET g == job[h].gen IN
  /\ pc[h] = "calling"
  /\ IF SameConnection(g, job[h].stamp) /\ broken[g] = None
       THEN broken' = [broken EXCEPT ![g] = job[h].token]
       ELSE UNCHANGED broken
  /\ Finish(h)
  /\ UNCHANGED <<authToken, installedAt, status, retired, storedUnder, clockifyVars, clock,
                 historyVars>>

\* A refused delivery, a request that needs nothing more, and a crash at any await.
Abandon(h) ==
  /\ pc[h] # "idle"
  /\ interrupted' = IF pc[h] = "cleaning" THEN interrupted \cup {job[h].gen} ELSE interrupted
  /\ Finish(h)
  /\ UNCHANGED <<storeVars, clockifyVars, clock, purged>>

\* A crash between clearInstallationBroken and the purge, two transactions.
InstalledCrashes(h) ==
  /\ pc[h] = "cleaning"
  /\ broken' = NoticeAfter(h)
  /\ interrupted' = interrupted \cup {job[h].gen}
  /\ Finish(h)
  /\ UNCHANGED <<authToken, installedAt, status, retired, storedUnder, clockifyVars, clock, purged>>

-----------------------------------------------------------------------------
(* Clockify: one installation of the add-on in a workspace at a time. *)

ClockifyInstalls(g, t) ==
  /\ current = None
  /\ g \notin removed
  /\ current'   = g
  /\ announced' = announced \cup {[gen |-> g, token |-> t]}
  /\ UNCHANGED <<removed, deletedUnder, storeVars, handlerVars, clock, historyVars>>

\* INSTALLED is sent again, with a new token.
ClockifyReconnects(t) ==
  /\ current # None
  /\ announced' = announced \cup {[gen |-> current, token |-> t]}
  /\ UNCHANGED <<current, removed, deletedUnder, storeVars, handlerVars, clock, historyVars>>

ClockifyRemoves ==
  /\ current # None
  /\ removed' = removed \cup {current}
  /\ current' = None
  /\ UNCHANGED <<announced, deletedUnder, storeVars, handlerVars, clock, historyVars>>

ClockifyDeletesEntry(s) ==
  /\ current # None
  /\ deletedUnder[s] = None
  /\ deletedUnder' = [deletedUnder EXCEPT ![s] = current]
  /\ UNCHANGED <<current, removed, announced, storeVars, handlerVars, clock, historyVars>>

-----------------------------------------------------------------------------
(* Specification. *)

Init ==
  /\ authToken    = [g \in Generations |-> None]
  /\ installedAt  = [g \in Generations |-> 0]
  /\ status       = [g \in Generations |-> "ACTIVE"]
  /\ broken       = [g \in Generations |-> None]
  /\ retired      = {}
  /\ storedUnder  = [s \in SourceIds |-> None]
  /\ current      = None
  /\ removed      = {}
  /\ announced    = {}
  /\ deletedUnder = [s \in SourceIds |-> None]
  /\ pc           = [h \in Handlers |-> "idle"]
  /\ job          = [h \in Handlers |-> NoJob]
  /\ clock        = 0
  /\ purged       = {}
  /\ interrupted  = {}

HandlerStep(h) ==
  \/ \E m \in Installed : InstalledLoads(h, m)
  \/ InstalledStamps(h)
  \/ InstalledSaves(h)
  \/ InstalledReplayed(h)
  \/ InstalledSupersedes(h)
  \/ InstalledCrashes(h)
  \/ \E s \in SourceIds : WebhookLoads(h, s)
  \/ WebhookIngests(h)
  \/ \E g \in Generations : ApiLoads(h, g)
  \/ ApiRejected(h)
  \/ Abandon(h)

LifecycleStep ==
  \/ \E g \in Generations : Deleted(g)
  \/ \E g \in Generations, s \in Statuses : StatusChanged(g, s)

ClockifyStep ==
  \/ \E g \in Generations, t \in AuthTokens : ClockifyInstalls(g, t)
  \/ \E t \in AuthTokens : ClockifyReconnects(t)
  \/ ClockifyRemoves
  \/ \E s \in SourceIds : ClockifyDeletesEntry(s)

Next == (\E h \in Handlers : HandlerStep(h)) \/ LifecycleStep \/ ClockifyStep

Spec == Init /\ [][Next]_vars

-----------------------------------------------------------------------------
(* Properties. *)

\* Every column and every local variable holds a value of its type.
TypeOK ==
  /\ authToken \in [Generations -> AuthTokens \cup {None}]
  /\ installedAt \in [Generations -> 0 .. MaxStamp]
  /\ status \in [Generations -> Statuses]
  /\ broken \in [Generations -> AuthTokens \cup {None}]
  /\ retired \subseteq Generations
  /\ storedUnder \in [SourceIds -> Generations \cup {None}]
  /\ current \in Generations \cup {None}
  /\ removed \subseteq Generations
  /\ announced \subseteq Installed
  /\ deletedUnder \in [SourceIds -> Generations \cup {None}]
  /\ pc \in [Handlers -> Stages]
  /\ job \in [Handlers -> Job]
  /\ clock \in 0 .. MaxStamp
  /\ purged \subseteq Generations
  /\ interrupted \subseteq Generations

\* No deleted entry is kept without the installation it was captured under, whatever arrives
\* while a delivery is being verified: an uninstall is a deletion, not a moment in time
\* (store/entries.ts:81-91).
EntriesHaveInstallation ==
  \A s \in SourceIds : storedUnder[s] # None => HasRow(storedUnder[s])

\* Two generations that are both considered live are about to be reduced to one: an INSTALLED of
\* one of them still has its cleanup ahead, or crashed before it.
OneLiveGeneration ==
  \A f, g \in Generations :
    /\ f # g /\ HasRow(f) /\ HasRow(g)
    /\ f \notin retired /\ g \notin retired
    => \/ {f, g} \cap interrupted # {}
       \/ \E h \in Handlers : pc[h] = "cleaning" /\ job[h].gen \in {f, g}

\* A generation loses its rows only by its own DELETED or to an INSTALLED of a generation that
\* had never been purged here when it arrived: replays and late uninstalls of an old generation
\* do not touch another one's data (store/cascade.ts).
PurgeJustified ==
  [][\A f \in Generations :
       HasRow(f) /\ authToken'[f] = None =>
         \/ f \in removed /\ pc' = pc
         \/ \E h \in Handlers : /\ pc[h] = "cleaning" /\ pc'[h] = "idle"
                                /\ job[h].gen # f /\ ~job[h].wasPurged]_vars

\* A delivery that was stamped earlier never overwrites the row of one stamped later.
NewerConnectionKept ==
  [][\A g \in Generations :
       HasRow(g) /\ authToken'[g] # None => installedAt'[g] >= installedAt[g]]_vars

\* The "reinstall" notice follows the token: it is set only while the row still holds the token
\* Clockify rejected, and cleared only by the delivery whose token the row holds (docs/08:26).
NoticeFollowsToken ==
  [][\A g \in Generations :
       broken'[g] # broken[g] /\ authToken'[g] # None =>
         \E h \in Handlers : pc'[h] # pc[h] /\ job[h].gen = g /\ job[h].token = authToken[g]]_vars

\* A disabled installation is not enabled by an INSTALLED that is delivered again
\* (platform/installations.ts:83-85).
RedeliveryKeepsStatus ==
  [][\A g \in Generations, h \in Handlers :
       pc'[h] # pc[h] /\ HasRow(g) /\ authToken'[g] # None => status'[g] = status[g]]_vars

-----------------------------------------------------------------------------
(* What documents and comments say and the code does not do. *)

\* 0005_retired_installations.sql: an INSTALLED of a generation that is already gone does not
\* destroy the data of the generation Clockify has installed.
CurrentGenerationKept ==
  [][\A g \in Generations : current = g /\ HasRow(g) => authToken'[g] # None]_vars

\* 0002_recovery.sql: broken_at is "cleared by the next INSTALLED payload": a delivery that
\* completes and whose row is still the saved one leaves no notice about another token behind.
NoticeClearedByInstall ==
  [][\A h \in Handlers :
       /\ pc[h] = "cleaning" /\ pc'[h] = "idle" /\ job[h].gen \notin interrupted'
       /\ SameConnection(job[h].gen, job[h].stamp)
       => broken'[job[h].gen] \in {None, job[h].token}]_vars
=============================================================================
