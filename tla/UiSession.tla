------------------------------ MODULE UiSession ------------------------------
(***************************************************************************)
(* One component session in the browser: the screens between the list and  *)
(* the result of a recreation, and the answers that reach them late.       *)
(*                                                                         *)
(* Every answer is fenced by two counters, the navigation version and the  *)
(* request generation.  Both only grow, so what matters of them is which   *)
(* requests in flight still carry the newest pair: the set `current`.      *)
(* Beginning a request empties it but for the new one; navigating empties  *)
(* it.                                                                     *)
(*                                                                         *)
(* A browser runs one callback at a time, so a click, or the arrival of an *)
(* answer with everything its callback does, is one action.  Other         *)
(* sessions change the same entries at any time, so a request finds its    *)
(* entry in any state and the server gives any of its answers.  Wording,   *)
(* layout, focus and the choice widgets themselves are left out; choices   *)
(* are compared only for equality.                                         *)
(***************************************************************************)
EXTENDS Naturals, Sequences, FiniteSets

CONSTANTS
  Entries,    \* deleted time entries
  Choices,    \* what the user can choose for the open items of a plan
  Requests,   \* slots for requests in flight: at most this many at a time
  MaxQueue,   \* bound on the plan checks waiting in one preflightQueue
  None        \* undefined

ASSUME MaxQueueAssumption == MaxQueue \in Nat
ASSUME NoneAssumption == None \notin Entries /\ None \notin Choices /\ None \notin Requests

VARIABLES
  view,      \* what is mounted: screen, the entry it is about, what it loads
  choice,    \* the choices the mounted shell or the draft of the confirm view holds
  plan,      \* the plan on screen: the choices it was computed for, and whether it is complete
  checking,  \* "Checking choices..." is shown (aria-busy on the plan region)
  queue,     \* preflightQueue: the choices of the checks that wait
  running,   \* the check of the mounted shell that is in flight
  busy,      \* the buttons of the mounted screen that show a progress label
  alert,     \* the action the shown error offers
  net,       \* the requests in flight
  current,   \* those that carry the newest navigation version and request generation
  asked,     \* history: the newest argument of navigate
  doubt      \* history: entries with a recreation whose answer was lost, or that was left, but
             \* for "again", which keeps the plan it used

viewVars  == <<view, choice, plan, checking, queue, running, busy, alert>>
netVars   == <<net, current>>
vars      == <<viewVars, netVars, asked, doubt>>

Actionable == {"IDLE", "FAILED"}
States     == Actionable \cup {"RECREATING", "RECREATED", "AMBIGUOUS", "DISMISSED"}
Reads      == {"list", "detail", "recheck"}
Buttons    == {"recreate", "dismiss", "undismiss", "reconcile", "resolve", "mark"}
Ops        == Reads \cup Buttons \cup {"preflight"}
Stages     == {"sent", "refreshing", "resent", "working", "answered"}
Answers    == States \cup {"ok", "error", "lost", "expired", "readonly", "ready", "open",
                           "stale", "unknown", "adopted"}
Alerts     == {"none", "load", "choices", "recheck", "entry", "review", "again"}
Screens    == {"loading", "loadError", "list", "initial", "resolve", "readonly", "recreating",
               "dismissed", "confirm", "success", "failed", "ambiguous", "bounded", "uncertain",
               "expired"}

View    == [screen : Screens, load : Reads \cup {None}, entry : Entries \cup {None}, force : BOOLEAN]
Plan    == [choice : Choices, ready : BOOLEAN]
Request == [op : Ops, entry : Entries \cup {None}, choice : Choices \cup {None}, force : BOOLEAN,
            stage : Stages, answer : Answers \cup {None}, handled : BOOLEAN]

ASSUME NoRecordAssumption == None \notin Plan \cup Request

\* Screens from which the chain's other entries can be opened.
WithLineage == {"initial", "resolve", "readonly", "recreating", "dismissed", "success", "failed",
                "ambiguous", "bounded"}

\* Screens whose Back button goes to the list.
WithBack == WithLineage \cup {"uncertain"}

Free == {r \in Requests : net[r] = None}

-----------------------------------------------------------------------------
(* The request fence.  An operator whose comment starts with "Wrong:" is a *)
(* plausible bug; put in the place of the operator after it, it must make  *)
(* a property fail.                                                        *)

\* Wrong: a late answer is used whatever is on the screen.
IsCurrentViewAlways(r) == TRUE

\* isCurrentView
IsCurrentView(r) == r \in current

\* A request that leaves the browser.
Sent(op, e, c, force) ==
  [op |-> op, entry |-> e, choice |-> c, force |-> force, stage |-> "sent", answer |-> None,
   handled |-> FALSE]

\* beginRequest, and the call it fences.
BeginRequest(r, op, e, c, force) ==
  /\ net' = [net EXCEPT ![r] = Sent(op, e, c, force)]
  /\ current' = {r}

\* The answer of r is used up.
Settle(r) ==
  /\ net' = [net EXCEPT ![r] = None]
  /\ current' = current \ {r}

\* Wrong: the checks that wait in the old shell still run (no isConnected).
MountKeepsRuns(screen, load, e, force) ==
  /\ view' = [screen |-> screen, load |-> load, entry |-> e, force |-> force]
  /\ checking' = FALSE
  /\ queue' = queue
  /\ running' = IF view.screen = "resolve" THEN running ELSE None
  /\ busy' = {}
  /\ alert' = IF screen = "loadError" THEN "load" ELSE "none"

\* mountView: the controls of the new screen are idle, and the old shell is disconnected.
Mount(screen, load, e, force) ==
  /\ view' = [screen |-> screen, load |-> load, entry |-> e, force |-> force]
  /\ checking' = FALSE
  /\ queue' = <<>>
  /\ running' = None
  /\ busy' = {}
  /\ alert' = IF screen = "loadError" THEN "load" ELSE "none"

\* A screen without choices or a plan to act on.
MountPlain(screen, e) ==
  /\ Mount(screen, None, e, FALSE)
  /\ choice' = None
  /\ plan' = None

\* withLoading, up to its await.
WithLoading(r, op, e, c, force) ==
  /\ Mount("loading", op, e, force)
  /\ choice' = c
  /\ plan' = None
  /\ BeginRequest(r, op, e, c, force)

\* ctx.navigate to a screen that loads.
NavigateList(r) ==
  /\ asked' = [where |-> "list", entry |-> None]
  /\ WithLoading(r, "list", None, None, FALSE)

NavigateDetail(r, e, force, draft) ==
  /\ asked' = [where |-> "detail", entry |-> e]
  /\ WithLoading(r, "detail", e, draft, force)

\* ctx.navigate to a screen that loads nothing: no request in flight is current any more.
NavigateExpired(r) ==
  /\ asked' = [where |-> "expired", entry |-> None]
  /\ MountPlain("expired", None)
  /\ net' = [net EXCEPT ![r] = None]
  /\ current' = {}

\* Wrong: the check starts at once, beside the one in flight.
QueuedNever == FALSE

\* A check of the mounted shell is in flight, so the next one waits for it.
Queued == view.screen = "resolve" /\ running # None

\* Wrong: the answer of any check of the shell is rendered.
IsLatestAlways == TRUE

\* preflightNumber = latestPreflight: a check that waits has a greater number.
IsLatest == queue = <<>>

-----------------------------------------------------------------------------
(* The server and the network.                                             *)

Stage(r, stage) == net' = [net EXCEPT ![r].stage = stage]

Answer(r, a) == net' = [net EXCEPT ![r].stage = "answered", ![r].answer = a, ![r].handled = TRUE]

Reached(r) == net[r] # None /\ net[r].stage \in {"sent", "resent"}

\* The verified token is refused before any handler runs.
Unauthorized(r) ==
  /\ Reached(r)
  /\ net' = [net EXCEPT ![r].stage = IF @ = "sent" THEN "refreshing" ELSE "answered",
                        ![r].answer = IF net[r].stage = "sent" THEN None ELSE "expired"]
  /\ UNCHANGED <<viewVars, current, asked, doubt>>

\* auth.refresh: the parent frame answers within five seconds, or not.
Refresh(r) ==
  /\ net[r] # None
  /\ net[r].stage = "refreshing"
  /\ \/ Stage(r, "resent")
     \/ net' = [net EXCEPT ![r].stage = "answered", ![r].answer = "expired"]
  /\ UNCHANGED <<viewVars, current, asked, doubt>>

\* What the server can answer, in whatever state it finds the entry.
Reply ==
  [list |-> {"ok"}, detail |-> States \cup {"readonly"}, recheck |-> States \cup {"readonly"},
   preflight |-> {"ready", "open"}, reconcile |-> {"ok", "adopted"}, recreate |-> {"stale"},
   dismiss |-> {"ok"}, undismiss |-> {"ok"}, resolve |-> {"ok"}, mark |-> {"ok"}]

\* A handler runs to its end; 4xx, 5xx and an answer that is no JSON are "error".
Handle(r) ==
  /\ Reached(r)
  /\ \E a \in Reply[net[r].op] \cup {"error"} : Answer(r, a)
  /\ UNCHANGED <<viewVars, current, asked, doubt>>

\* confirmPlan claims the entry.
HandleClaims(r) ==
  /\ Reached(r)
  /\ net[r].op = "recreate"
  /\ net' = [net EXCEPT ![r].stage = "working", ![r].handled = TRUE]
  /\ UNCHANGED <<viewVars, current, asked, doubt>>

\* confirmPlan answers; after a failure behind the durable attempt the result is unknown.
HandleFinishes(r) ==
  /\ net[r] # None
  /\ net[r].stage = "working"
  /\ \E a \in {"RECREATED", "FAILED", "AMBIGUOUS", "unknown"} : Answer(r, a)
  /\ UNCHANGED <<viewVars, current, asked, doubt>>

\* Wrong: a lost answer is tried again with the same token.
AfterLossRetry(q) == [q EXCEPT !.stage = "resent"]

\* call: a transport failure ends the call.
AfterLoss(q) == [q EXCEPT !.stage = "answered", !.answer = "lost"]

\* The connection drops, before or after the server has handled the request.
Lose(r) ==
  /\ net[r] # None
  /\ net[r].stage \in {"sent", "resent", "working", "answered"}
  /\ net[r].answer # "lost"
  /\ net' = [net EXCEPT ![r] = AfterLoss(@)]
  /\ UNCHANGED <<viewVars, current, asked, doubt>>

-----------------------------------------------------------------------------
(* The user.                                                               *)

Idle(button) == button \notin busy

\* Back is a conflicting control of Dismiss and Undismiss, and disabled while they run.
BackEnabled == busy \cap {"dismiss", "undismiss"} = {}

\* A row, or an entry of a bulk review.
OpenEntry(e, r) ==
  /\ view.screen = "list"
  /\ NavigateDetail(r, e, FALSE, None)
  /\ UNCHANGED doubt

\* renderLineage
OpenRelated(e, r) ==
  /\ view.screen \in WithLineage
  /\ e # view.entry
  /\ NavigateDetail(r, e, FALSE, None)
  /\ UNCHANGED doubt

Back(r) ==
  /\ view.screen \in WithBack
  /\ BackEnabled
  /\ NavigateList(r)
  /\ UNCHANGED doubt

\* The confirm view goes back to the choices it was reached with.
BackToEntry(r) ==
  /\ view.screen = "confirm"
  /\ NavigateDetail(r, view.entry, TRUE, choice)
  /\ doubt' = IF Idle("recreate") THEN doubt ELSE doubt \cup {view.entry}

\* "Open entry" of the uncertain view; "Back to entry" and "Review a new plan" of the failed one.
Reopen(force, r) ==
  /\ \/ view.screen = "uncertain" /\ ~force
     \/ view.screen = "failed"
  /\ NavigateDetail(r, view.entry, force, None)
  /\ UNCHANGED doubt

\* "Check status" calls renderDetail without a navigation.
CheckStatus(r) ==
  /\ view.screen = "recreating"
  /\ WithLoading(r, "detail", view.entry, None, FALSE)
  /\ UNCHANGED <<asked, doubt>>

\* reflow and runPreflightAndRender, up to the await: the next check runs, or waits.
RunPreflight(c, r) ==
  /\ choice' = c
  /\ checking' = TRUE
  /\ IF Queued
     THEN /\ Len(queue) < MaxQueue
          /\ queue' = Append(queue, c)
          /\ UNCHANGED <<running, netVars>>
     ELSE /\ running' = r
          /\ BeginRequest(r, "preflight", view.entry, c, FALSE)
          /\ UNCHANGED queue
  /\ UNCHANGED <<view, plan, busy, alert, asked, doubt>>

ChangeChoice(c, r) ==
  /\ view.screen = "resolve"
  /\ c # choice
  /\ RunPreflight(c, r)

\* "Check choices again" of the error region.
CheckAgain(r) ==
  /\ alert = "choices"
  /\ RunPreflight(choice, r)

\* "Continue to confirm": the plan and the draft as they stand.
Continue ==
  /\ view.screen = "resolve"
  /\ plan.ready
  /\ asked' = [where |-> "confirm", entry |-> view.entry]
  /\ Mount("confirm", None, view.entry, FALSE)
  /\ current' = {}
  /\ UNCHANGED <<choice, plan, net, doubt>>

\* bindBusyAction: the button is busy, and its request begins a generation.
BusyAction(button, r) ==
  /\ Idle(button)
  /\ busy' = busy \cup {button}
  /\ BeginRequest(r, button, view.entry, IF button = "recreate" THEN plan.choice ELSE None, FALSE)
  /\ UNCHANGED <<view, choice, plan, checking, queue, running, alert, asked>>

Recreate(r) ==
  /\ view.screen = "confirm"
  /\ BusyAction("recreate", r)
  /\ UNCHANGED doubt

\* The other buttons, and what disables them: the two ways out of a bounded check exclude
\* each other, a check in flight excludes nothing.
Press(button, r) ==
  /\ \/ button = "dismiss" /\ view.screen = "resolve"
     \/ button = "undismiss" /\ view.screen = "dismissed"
     \/ button \in {"reconcile", "resolve"} /\ view.screen = "ambiguous"
     \/ button \in {"resolve", "mark"} /\ view.screen = "bounded" /\ busy = {}
  /\ BusyAction(button, r)
  /\ UNCHANGED doubt

\* The action of an error, but for "Check choices again".  An error stays while its button is
\* pressed once more.
FollowAlert(r) ==
  \/ /\ alert = "load"      \* withLoading with the same arguments
     /\ WithLoading(r, view.load, view.entry, choice, view.force)
     /\ UNCHANGED <<asked, doubt>>
  \/ /\ alert = "recheck"   \* renderAmbiguous or renderDetail, without a navigation
     /\ WithLoading(r, IF view.screen \in {"ambiguous", "bounded"} THEN "recheck" ELSE "detail",
                    view.entry, None, FALSE)
     /\ UNCHANGED <<asked, doubt>>
  \/ /\ alert \in {"entry", "review"}
     /\ NavigateDetail(r, view.entry, alert = "review", None)
     /\ doubt' = IF Idle("recreate") THEN doubt ELSE doubt \cup {view.entry}
  \/ /\ alert = "again"     \* navigate to the same confirm view, and the same plan
     /\ Mount("confirm", None, view.entry, FALSE)
     /\ current' = {}
     /\ UNCHANGED <<asked, choice, plan, net, doubt>>

-----------------------------------------------------------------------------
(* The arrival of an answer.                                               *)

Arrived(r) == net[r] # None /\ net[r].stage = "answered"

Failed(q) == q.answer \in {"error", "lost"}

\* The run of a check ends: the next one that waits begins, in the slot that became free.
EndRun(r) ==
  IF queue # <<>>
  THEN /\ queue' = Tail(queue)
       /\ running' = r
       /\ BeginRequest(r, "preflight", view.entry, Head(queue), FALSE)
  ELSE /\ running' = None
       /\ Settle(r)
       /\ UNCHANGED queue

\* An answer that comes too late for its screen is dropped.
DropLate(r) ==
  /\ Arrived(r)
  /\ ~IsCurrentView(r)
  /\ IF r = running THEN EndRun(r) ELSE Settle(r) /\ UNCHANGED <<queue, running>>
  /\ UNCHANGED <<view, choice, plan, checking, busy, alert, asked, doubt>>

\* SessionExpiredError, in withLoading and runAction.
ShowExpired(r) ==
  /\ Arrived(r)
  /\ IsCurrentView(r)
  /\ net[r].answer = "expired"
  /\ NavigateExpired(r)
  /\ UNCHANGED doubt

\* renderInitialLoadError
ShowLoadError(r) ==
  /\ Arrived(r)
  /\ IsCurrentView(r)
  /\ net[r].op \in Reads
  /\ Failed(net[r])
  /\ Mount("loadError", net[r].op, net[r].entry, net[r].force)
  /\ Settle(r)
  /\ UNCHANGED <<choice, plan, asked, doubt>>

ShowList(r) ==
  /\ Arrived(r)
  /\ IsCurrentView(r)
  /\ net[r].op = "list"
  /\ net[r].answer = "ok"
  /\ MountPlain("list", None)
  /\ Settle(r)
  /\ UNCHANGED <<asked, doubt>>

\* renderInitialDetailShell and its first check, with the draft or the choices of the stored plan.
OpenShell(r) ==
  LET q == net[r] IN
  \E c \in IF q.choice = None THEN Choices ELSE {q.choice} :
    /\ view' = [screen |-> "initial", load |-> None, entry |-> q.entry, force |-> FALSE]
    /\ choice' = c
    /\ plan' = None
    /\ checking' = TRUE
    /\ queue' = <<>>
    /\ running' = r
    /\ busy' = {}
    /\ alert' = "none"
    /\ BeginRequest(r, "preflight", q.entry, c, FALSE)

\* routeDetail.  A finished state is shown as such unless the caller asks for the choices or the
\* entry has no plan.
RouteDetail(r) ==
  /\ Arrived(r)
  /\ IsCurrentView(r)
  /\ LET q == net[r] IN
     /\ q.op = "detail"
     /\ q.answer \in States \cup {"readonly"}
     /\ \/ /\ q.answer = "readonly"
           /\ MountPlain("readonly", q.entry)
           /\ Settle(r)
        \/ /\ q.answer # "readonly"
           /\ q.force \/ q.answer \in {"IDLE", "RECREATED", "FAILED", "AMBIGUOUS"}
           /\ OpenShell(r)
        \/ /\ ~q.force
           /\ \E shown \in {<<"RECREATED", "success">>, <<"FAILED", "failed">>,
                            <<"RECREATING", "recreating">>, <<"DISMISSED", "dismissed">>} :
                q.answer = shown[1] /\ MountPlain(shown[2], q.entry)
           /\ Settle(r)
        \/ /\ ~q.force
           /\ q.answer = "AMBIGUOUS"
           /\ WithLoading(r, "recheck", q.entry, None, FALSE)
  /\ UNCHANGED <<asked, doubt>>

\* renderAmbiguous, after its await.
ShowAmbiguous(r) ==
  /\ Arrived(r)
  /\ IsCurrentView(r)
  /\ LET q == net[r] IN
     /\ q.op = "recheck"
     /\ q.answer \in States \cup {"readonly"}
     /\ \/ /\ q.answer \notin {"AMBIGUOUS", "readonly"}
           /\ NavigateDetail(r, q.entry, FALSE, None)
        \/ /\ q.answer \in {"AMBIGUOUS", "readonly"}
           /\ \E screen \in IF q.answer = "readonly" THEN {"readonly"} ELSE {"ambiguous", "bounded"} :
                MountPlain(screen, q.entry)
           /\ Settle(r)
           /\ UNCHANGED asked
  /\ UNCHANGED doubt

\* The first check of an entry ends: the resolve view, or an error beside the stored facts.
FirstCheckEnds(r) ==
  /\ Arrived(r)
  /\ IsCurrentView(r)
  /\ r = running
  /\ view.screen = "initial"
  /\ LET q == net[r] IN
     \/ /\ q.answer \in {"ready", "open"}
        /\ Mount("resolve", None, q.entry, FALSE)
        /\ plan' = [choice |-> q.choice, ready |-> q.answer = "ready"]
        /\ doubt' = doubt \ {q.entry}
     \/ /\ Failed(q)
        /\ checking' = FALSE
        /\ alert' = "choices"
        /\ running' = None
        /\ UNCHANGED <<view, plan, queue, busy, doubt>>
  /\ Settle(r)
  /\ UNCHANGED <<choice, asked>>

\* A check of the resolve view ends.  Only the newest one changes the screen, and none of them
\* touches an error that is shown.
CheckEnds(r) ==
  /\ Arrived(r)
  /\ IsCurrentView(r)
  /\ r = running
  /\ view.screen = "resolve"
  /\ LET q == net[r] IN
     /\ q.answer # "expired"
     /\ IF ~IsLatest
        THEN UNCHANGED <<plan, checking, alert, doubt>>
        ELSE /\ checking' = FALSE
             /\ IF Failed(q)
                THEN alert' = "choices" /\ UNCHANGED <<plan, doubt>>
                ELSE /\ plan' = [choice |-> q.choice, ready |-> q.answer = "ready"]
                     /\ doubt' = doubt \ {q.entry}
                     /\ UNCHANGED alert
  /\ EndRun(r)
  /\ UNCHANGED <<view, choice, busy, asked>>

\* The error path of bindBusyAction: the button and what it disabled come back.
Restore(r, button, offer) ==
  /\ busy' = busy \ {button}
  /\ alert' = offer
  /\ Settle(r)
  /\ UNCHANGED <<view, choice, plan, checking, queue, running>>

\* Wrong: the way on from a lost answer is a retry.
RecreateLostRetry(r) == Restore(r, "recreate", "again")

\* renderUnknownMutation
RecreateLost(r) == MountPlain("uncertain", net[r].entry) /\ Settle(r)

\* Wrong: a stale plan leaves the button busy.
RecreateRefusedBusy(r) ==
  /\ alert' = "review"
  /\ Settle(r)
  /\ UNCHANGED <<view, choice, plan, checking, queue, running, busy>>

\* handleConfirmError, 409 and 422
RecreateRefused(r) == Restore(r, "recreate", "review")

\* The answer of the confirm view's button.
RecreateEnds(r) ==
  /\ Arrived(r)
  /\ IsCurrentView(r)
  /\ LET q == net[r] IN
     /\ q.op = "recreate"
     /\ q.answer # "expired"
     /\ \/ q.answer = "RECREATED" /\ MountPlain("success", q.entry) /\ Settle(r)
        \/ q.answer = "FAILED" /\ MountPlain("failed", q.entry) /\ Settle(r)
        \/ q.answer = "AMBIGUOUS" /\ WithLoading(r, "recheck", q.entry, None, FALSE)
        \/ q.answer = "lost" /\ RecreateLost(r)
        \/ q.answer = "stale" /\ RecreateRefused(r)
        \/ q.answer = "unknown" /\ Restore(r, "recreate", "entry")
        \/ q.answer = "error" /\ Restore(r, "recreate", "again")
     /\ doubt' = IF q.answer = "lost" THEN doubt \cup {q.entry} ELSE doubt \ {q.entry}
  /\ UNCHANGED asked

\* The answer of one of the other buttons.
ButtonEnds(r) ==
  /\ Arrived(r)
  /\ IsCurrentView(r)
  /\ LET q == net[r] IN
     /\ q.op \in Buttons \ {"recreate"}
     /\ q.answer # "expired"
     /\ \/ Failed(q) /\ Restore(r, q.op, "recheck") /\ UNCHANGED asked
        \/ ~Failed(q) /\ q.op \in {"dismiss", "mark"} /\ NavigateList(r)
        \/ /\ ~Failed(q) /\ q.op = "undismiss"
           /\ WithLoading(r, "detail", q.entry, None, FALSE)
           /\ UNCHANGED asked
        \/ /\ ~Failed(q) /\ (q.op = "resolve" \/ q.answer = "adopted")
           /\ NavigateDetail(r, q.entry, FALSE, None)
        \/ /\ q.op = "reconcile" /\ q.answer = "ok"
           /\ WithLoading(r, "recheck", q.entry, None, FALSE)
           /\ UNCHANGED asked
  /\ UNCHANGED doubt

Deliver(r) ==
  \/ DropLate(r) \/ ShowExpired(r) \/ ShowLoadError(r) \/ ShowList(r) \/ RouteDetail(r)
  \/ ShowAmbiguous(r) \/ FirstCheckEnds(r) \/ CheckEnds(r) \/ RecreateEnds(r) \/ ButtonEnds(r)

User(r) ==
  \/ \E e \in Entries : OpenEntry(e, r) \/ OpenRelated(e, r)
  \/ Back(r) \/ BackToEntry(r) \/ CheckStatus(r)
  \/ \E force \in BOOLEAN : Reopen(force, r)
  \/ \E c \in Choices : ChangeChoice(c, r)
  \/ CheckAgain(r) \/ Recreate(r) \/ FollowAlert(r)
  \/ \E button \in Buttons : Press(button, r)

\* boot: the list is loaded first.
Init ==
  /\ view = [screen |-> "loading", load |-> "list", entry |-> None, force |-> FALSE]
  /\ choice = None /\ plan = None /\ checking = FALSE /\ queue = <<>> /\ running = None
  /\ busy = {} /\ alert = "none"
  /\ \E r \in Requests :
       /\ net = [s \in Requests |-> IF s = r THEN Sent("list", None, None, FALSE) ELSE None]
       /\ current = {r}
  /\ asked = [where |-> "list", entry |-> None]
  /\ doubt = {}

Next ==
  \/ \E r \in Requests : Unauthorized(r) \/ Refresh(r) \/ Handle(r) \/ HandleClaims(r)
                         \/ HandleFinishes(r) \/ Lose(r) \/ Deliver(r)
  \/ \E r \in Free : User(r)
  \/ Continue

Spec == Init /\ [][Next]_vars

\* Every request is answered or lost in the end, and its callback runs.  The user need not act.
Progress(r) ==
  \/ Handle(r) \/ HandleClaims(r) \/ Unauthorized(r) \/ Refresh(r) \/ HandleFinishes(r)
  \/ Lose(r) \/ Deliver(r)

Fairness == \A r \in Requests : WF_vars(Progress(r))
FairSpec == Spec /\ Fairness

-----------------------------------------------------------------------------
(* What the session promises.                                              *)

\* Types; at most one slot per request, and only requests in flight are current.
TypeOK ==
  /\ view \in View
  /\ choice \in Choices \cup {None}
  /\ plan \in Plan \cup {None}
  /\ checking \in BOOLEAN
  /\ queue \in Seq(Choices) /\ Len(queue) <= MaxQueue
  /\ running \in Requests \cup {None}
  /\ busy \subseteq Buttons
  /\ alert \in Alerts
  /\ net \in [Requests -> Request \cup {None}]
  /\ current \subseteq Requests \ Free
  /\ asked \in [where : {"list", "detail", "confirm", "expired"}, entry : Entries \cup {None}]
  /\ doubt \subseteq Entries

\* The screen is one that belongs to the newest navigation, and about its entry: no answer to an
\* earlier request takes the user somewhere else (requestGenerations, isCurrentView).
ScreenFollowsNavigation ==
  /\ asked.where = "list" =>
       view.screen \in {"loading", "loadError", "list"} /\ view.entry = None
  /\ asked.where = "detail" =>
       view.screen \notin {"list", "confirm", "expired"} /\ view.entry = asked.entry
  /\ asked.where = "confirm" =>
       /\ view.screen \in {"confirm", "success", "failed", "uncertain", "loading", "loadError",
                           "ambiguous", "bounded", "readonly"}
       /\ view.entry = asked.entry
  /\ asked.where = "expired" => view.screen = "expired"

\* A loading placeholder has nothing to click, so the request it waits for must be one whose
\* answer will be accepted (withLoading).
LoadingIsAwaited ==
  view.screen = "loading" =>
    \E r \in current : net[r].op = view.load /\ net[r].entry = view.entry

\* While the confirm view says "Recreating...", or the first check of an entry runs, the answer
\* to that request will be shown (bindBusyAction, renderConfirm, runPreflightAndRender).
WorkIsAwaited ==
  /\ "recreate" \in busy => \E r \in current : net[r].op = "recreate" /\ net[r].entry = view.entry
  /\ view.screen = "initial" /\ checking => running \in current

\* With neither the busy marker nor an error, the plan beside the choices is the plan of these
\* choices, however the checks overtook each other (latestPreflight).
PlanMatchesChoices ==
  view.screen = "resolve" /\ ~checking /\ alert = "none" => plan.choice = choice

\* A request the server may have acted on does not leave the browser again (call).
ActedOnOnce ==
  \A r \in Requests \ Free : net[r].handled => net[r].stage \in {"working", "answered"}

\* A check of the mounted resolve view is followed by another one only when its answer has
\* arrived, so that the server sees the choices in the order they were made (preflightQueue).
ChecksInOrder ==
  [][ view.screen = "resolve" /\ view' = view /\ running # None /\ running' # running
        => Arrived(running) ]_vars

\* After a recreation whose answer was lost, or that the user left for the choices or the entry, the
\* next one of the entry goes out only with a plan the server made since then
\* (renderUnknownMutation, handleConfirmError, the draft of the confirm view).
NoBlindRecreate ==
  [][ \A e \in doubt : \A r \in Requests :
        net[r] = None => ~(net'[r] # None /\ net'[r].op = "recreate" /\ net'[r].entry = e) ]_vars

\* The waits the user can do nothing about end: "Loading entry..." and "Recreating...".
WaitsEnd ==
  /\ view.screen = "loading" /\ view.load = "detail" ~> ~(view.screen = "loading" /\ view.load = "detail")
  /\ "recreate" \in busy ~> "recreate" \notin busy

\* docs/10, section 8: the error of a button action stays in the current screen, with a next
\* action.  Here for Dismiss, whose button still shows its progress label.
DismissErrorShown ==
  [][ \A r \in Requests :
        /\ Arrived(r) /\ (net'[r] = None \/ net'[r].stage = "sent")
        /\ net[r].op = "dismiss" /\ net[r].answer = "error"
        /\ "dismiss" \in busy
        /\ \A s \in Requests \ ({r} \cup Free) : net[s].op # "dismiss"
        => alert' # "none" ]_vars

\* handleConfirmError: an unknown write result never offers a retry.
UnknownOffersNoRetry ==
  view.screen = "confirm" /\ alert = "entry" => ~Idle("recreate")
=============================================================================
