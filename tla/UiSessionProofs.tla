--------------------------- MODULE UiSessionProofs ---------------------------
(***************************************************************************)
(* Proofs about UiSession.  Mounting a screen sets everything the          *)
(* invariant speaks of, so the actions that mount one are proved by what   *)
(* they mount (LoadingStep, PlainStep, ConfirmStep, ShellStep), whatever   *)
(* was there before; the others by what they leave on the screen.          *)
(***************************************************************************)
EXTENDS UiSessionInvariant, TLAPS

-----------------------------------------------------------------------------
(* Mounting a screen. *)

\* A request that leaves the browser is a request.
LEMMA SentTyped ==
  ASSUME NEW op \in Ops, NEW e \in Entries \cup {None}, NEW c \in Choices \cup {None},
         NEW force \in BOOLEAN
  PROVE  /\ Sent(op, e, c, force) \in Request
         /\ Sent(op, e, c, force) # None
<1>1. Sent(op, e, c, force) \in Request
  BY DEF Sent, Request, Stages
<1> QED
  BY <1>1, NoRecordAssumption

\* A screen that loads is whole, whatever was on the screen before.
LEMMA LoadingStep ==
  ASSUME SessionInv, NEW r \in Requests, NEW op \in Reads,
         NEW e \in Entries \cup {None}, NEW c \in Choices \cup {None}, NEW force \in BOOLEAN,
         WithLoading(r, op, e, c, force),
         op = "list" <=> e = None,
         asked' \in [where : {"list", "detail", "confirm"}, entry : Entries \cup {None}],
         asked'.where = "list" <=> op = "list",
         asked'.where # "list" => asked'.entry = e,
         asked'.where = "confirm" => op = "recheck",
         doubt' \subseteq Entries
  PROVE  SessionInv'
<1> USE NoneAssumption
<1> DEFINE q == Sent(op, e, c, force)
<1>1. q \in Request /\ q # None
  BY SentTyped DEF Ops
<1>2. /\ view' = [screen |-> "loading", load |-> op, entry |-> e, force |-> force]
      /\ checking' = FALSE /\ queue' = <<>> /\ running' = None /\ busy' = {} /\ alert' = "none"
      /\ choice' = c /\ plan' = None
      /\ net' = [net EXCEPT ![r] = q] /\ current' = {r}
  BY DEF WithLoading, Mount, BeginRequest
<1>3. /\ net' \in [Requests -> Request \cup {None}]
      /\ net'[r] = q
      /\ \A s \in Requests \ {r} : net'[s] = net[s]
  BY <1>1, <1>2 DEF SessionInv, TypeInv, TypeOK
<1>4. q.op = op /\ q.entry = e /\ q.choice = c /\ ~q.handled
  BY DEF Sent
<1> HIDE DEF q
<1>5. TypeOK'
  <2>1. view' \in View
    BY <1>2 DEF View, Screens
  <2>2. current' \subseteq Requests \ Free'
    BY <1>1, <1>2, <1>3 DEF Free
  <2>3. queue' \in Seq(Choices) /\ Len(queue') <= MaxQueue
    BY <1>2, MaxQueueAssumption
  <2>4. asked' \in [where : {"list", "detail", "confirm", "expired"}, entry : Entries \cup {None}]
    OBVIOUS
  <2> QED
    BY <1>2, <1>3, <2>1, <2>2, <2>3, <2>4 DEF TypeOK, Alerts
<1>6. ScreenHasItsData' /\ ControlsOnScreen'
  BY <1>2 DEF ScreenHasItsData, ControlsOnScreen, Reads
<1>7. RequestsFit'
  BY <1>2, <1>3, <1>4 DEF SessionInv, TypeInv, RequestsFit, Free, Reads
<1>8. NavigationFits'
  BY <1>2 DEF NavigationFits
<1>9. CurrentServesScreen'
  BY <1>2, <1>3, <1>4 DEF CurrentServesScreen, Reads, Buttons
<1>10. NewestCheckIsForChoice' /\ PlanSettlesDoubt' /\ PlanMatchesChoices'
  BY <1>2 DEF NewestCheckIsForChoice, PlanSettlesDoubt, PlanMatchesChoices
<1>11. ScreenFollowsNavigation'
  BY <1>2 DEF ScreenFollowsNavigation
<1>12. LoadingIsAwaited' /\ WorkIsAwaited'
  BY <1>2, <1>3, <1>4 DEF LoadingIsAwaited, WorkIsAwaited
<1>13. ActedOnOnce'
  BY <1>3, <1>4 DEF SessionInv, ActedOnOnce, Free
<1> QED
  BY <1>5, <1>6, <1>7, <1>8, <1>9, <1>10, <1>11, <1>12, <1>13 DEF SessionInv, TypeInv

\* Screens without choices, a plan or a request.
Plain == {"list", "readonly", "recreating", "dismissed", "success", "failed", "ambiguous",
          "bounded", "uncertain", "expired"}

\* A screen that was answered and waits for nothing is whole.
LEMMA PlainStep ==
  ASSUME SessionInv, NEW r \in Requests, NEW screen \in Plain, NEW e \in Entries \cup {None},
         MountPlain(screen, e),
         net' = [net EXCEPT ![r] = None],
         current' = {},
         e = None <=> screen \in {"list", "expired"},
         asked' \in [where : {"list", "detail", "confirm", "expired"}, entry : Entries \cup {None}],
         asked'.where = "list" <=> screen = "list",
         asked'.where = "expired" <=> screen = "expired",
         asked'.where \in {"detail", "confirm"} => asked'.entry = e,
         asked'.where = "confirm" => screen \notin {"recreating", "dismissed"},
         doubt' \subseteq Entries
  PROVE  SessionInv'
<1> USE NoneAssumption
<1>1. /\ view' = [screen |-> screen, load |-> None, entry |-> e, force |-> FALSE]
      /\ checking' = FALSE /\ queue' = <<>> /\ running' = None /\ busy' = {} /\ alert' = "none"
      /\ choice' = None /\ plan' = None
  BY DEF MountPlain, Mount, Plain
<1>2. /\ net' \in [Requests -> Request \cup {None}]
      /\ net'[r] = None
      /\ \A s \in Requests \ {r} : net'[s] = net[s]
  BY DEF SessionInv, TypeInv, TypeOK
<1>3. TypeOK'
  <2>1. view' \in View
    BY <1>1 DEF View, Screens, Plain
  <2>2. queue' \in Seq(Choices) /\ Len(queue') <= MaxQueue
    BY <1>1, MaxQueueAssumption
  <2> QED
    BY <1>1, <1>2, <2>1, <2>2 DEF TypeOK, Alerts
<1>4. ScreenHasItsData' /\ ControlsOnScreen' /\ NavigationFits'
  BY <1>1 DEF ScreenHasItsData, ControlsOnScreen, NavigationFits, Plain
<1>5. RequestsFit' /\ ActedOnOnce'
  BY <1>2 DEF SessionInv, TypeInv, RequestsFit, ActedOnOnce, Free
<1>6. CurrentServesScreen' /\ NewestCheckIsForChoice' /\ PlanSettlesDoubt' /\ PlanMatchesChoices'
  BY <1>1 DEF CurrentServesScreen, NewestCheckIsForChoice, PlanSettlesDoubt, PlanMatchesChoices,
              Plain
<1>7. ScreenFollowsNavigation' /\ LoadingIsAwaited' /\ WorkIsAwaited'
  BY <1>1 DEF ScreenFollowsNavigation, LoadingIsAwaited, WorkIsAwaited, Plain
<1> QED
  BY <1>3, <1>4, <1>5, <1>6, <1>7 DEF SessionInv, TypeInv

\* A confirm view with the plan of the screen before it is whole.
LEMMA ConfirmStep ==
  ASSUME SessionInv,
         view.screen \in {"resolve", "confirm"},
         Mount("confirm", None, view.entry, FALSE),
         current' = {},
         UNCHANGED <<choice, plan, net, doubt>>,
         asked' = [where |-> "confirm", entry |-> view.entry]
  PROVE  SessionInv'
<1> USE NoneAssumption DEF SessionInv, TypeInv
<1>1. /\ view' = [screen |-> "confirm", load |-> None, entry |-> view.entry, force |-> FALSE]
      /\ checking' = FALSE /\ queue' = <<>> /\ running' = None /\ busy' = {} /\ alert' = "none"
  BY DEF Mount
<1>2. view.entry \in Entries /\ choice \in Choices /\ plan \in Plan
  BY DEF ScreenHasItsData
<1>3. TypeOK'
  <2>1. view' \in View
    BY <1>1, <1>2 DEF View, Screens
  <2>2. queue' \in Seq(Choices) /\ Len(queue') <= MaxQueue
    BY <1>1, MaxQueueAssumption
  <2> QED
    BY <1>1, <1>2, <2>1, <2>2 DEF TypeOK, Alerts
<1>4. ScreenHasItsData' /\ ControlsOnScreen' /\ NavigationFits'
  BY <1>1, <1>2 DEF ScreenHasItsData, ControlsOnScreen, NavigationFits
<1>5. RequestsFit' /\ ActedOnOnce'
  BY DEF RequestsFit, ActedOnOnce, Free
<1>6. CurrentServesScreen' /\ NewestCheckIsForChoice' /\ PlanSettlesDoubt' /\ PlanMatchesChoices'
  BY <1>1 DEF CurrentServesScreen, NewestCheckIsForChoice, PlanSettlesDoubt, PlanMatchesChoices
<1>7. ScreenFollowsNavigation' /\ LoadingIsAwaited' /\ WorkIsAwaited'
  BY <1>1 DEF ScreenFollowsNavigation, LoadingIsAwaited, WorkIsAwaited
<1> QED
  BY <1>3, <1>4, <1>5, <1>6, <1>7

-----------------------------------------------------------------------------
(* The server and the network. *)

\* A request in flight goes on: nothing the screens look at has changed.
LEMMA StageStep ==
  ASSUME SessionInv, NEW r \in Requests, net[r] # None, NEW q \in Request,
         net' = [net EXCEPT ![r] = q],
         q.op = net[r].op, q.entry = net[r].entry, q.choice = net[r].choice,
         q.handled => q.stage \in {"working", "answered"},
         UNCHANGED <<viewVars, current, asked, doubt>>
  PROVE  SessionInv'
<1> USE DEF viewVars, SessionInv, TypeInv
<1>1. /\ net' \in [Requests -> Request \cup {None}]
      /\ net'[r] = q /\ q # None
      /\ \A s \in Requests \ {r} : net'[s] = net[s]
      /\ current \subseteq Requests /\ running \in Requests \cup {None}
  BY NoRecordAssumption DEF TypeOK
<1>2. /\ Free' = Free
      /\ \A s \in Requests \ Free :
           net'[s].op = net[s].op /\ net'[s].entry = net[s].entry /\ net'[s].choice = net[s].choice
  BY <1>1 DEF Free
<1>3. TypeOK'
  BY <1>1, <1>2 DEF TypeOK
<1>4. RequestsFit' /\ ScreenHasItsData' /\ ControlsOnScreen' /\ NavigationFits'
  BY <1>2 DEF RequestsFit, ScreenHasItsData, ControlsOnScreen, NavigationFits
<1>5. CurrentServesScreen'
  BY <1>2 DEF CurrentServesScreen, TypeOK
<1>6. NewestCheckIsForChoice'
  BY <1>1, <1>2 DEF NewestCheckIsForChoice
<1>7. PlanSettlesDoubt' /\ PlanMatchesChoices' /\ ScreenFollowsNavigation'
  BY DEF PlanSettlesDoubt, PlanMatchesChoices, ScreenFollowsNavigation
<1>8. LoadingIsAwaited' /\ WorkIsAwaited'
  BY <1>2 DEF LoadingIsAwaited, WorkIsAwaited, TypeOK
<1>9. ActedOnOnce'
  BY <1>1, <1>2 DEF ActedOnOnce
<1> QED
  BY <1>3, <1>4, <1>5, <1>6, <1>7, <1>8, <1>9

\* The server handles a request, or refuses it, or the connection drops.
LEMMA NetworkStep ==
  ASSUME SessionInv, NEW r \in Requests,
         \/ Unauthorized(r) \/ Refresh(r) \/ Handle(r) \/ HandleClaims(r) \/ HandleFinishes(r)
         \/ Lose(r)
  PROVE  SessionInv'
<1> USE DEF Stages, Answers
<1>1. net \in [Requests -> Request \cup {None}]
  BY DEF SessionInv, TypeInv, TypeOK
<1>2. ASSUME net[r] # None
      PROVE  net[r].handled => net[r].stage \in {"working", "answered"}
  BY <1>2 DEF SessionInv, ActedOnOnce, Free
<1>3. CASE Unauthorized(r)
  <2> DEFINE q == [net[r] EXCEPT !.stage = IF @ = "sent" THEN "refreshing" ELSE "answered",
                                 !.answer = IF net[r].stage = "sent" THEN None ELSE "expired"]
  <2>1. net' = [net EXCEPT ![r] = q]
    BY <1>1, <1>3 DEF Unauthorized
  <2>2. q \in Request /\ q.op = net[r].op /\ q.entry = net[r].entry /\ q.choice = net[r].choice
    BY <1>1, <1>3 DEF Unauthorized, Reached, Request
  <2>3. ~q.handled
    BY <1>1, <1>2, <1>3 DEF Unauthorized, Reached, Request
  <2>4. net[r] # None /\ UNCHANGED <<viewVars, current, asked, doubt>>
    BY <1>3 DEF Unauthorized, Reached
  <2> HIDE DEF q
  <2> QED
    BY <2>1, <2>2, <2>3, <2>4, StageStep
<1>4. CASE Refresh(r)
  <2> DEFINE q1 == [net[r] EXCEPT !.stage = "resent"]
             q2 == [net[r] EXCEPT !.stage = "answered", !.answer = "expired"]
  <2>1. net' = [net EXCEPT ![r] = q1] \/ net' = [net EXCEPT ![r] = q2]
    BY <1>1, <1>4 DEF Refresh, Stage
  <2>2. /\ q1 \in Request /\ q1.op = net[r].op /\ q1.entry = net[r].entry
        /\ q1.choice = net[r].choice /\ ~q1.handled
    BY <1>1, <1>2, <1>4 DEF Refresh, Request
  <2>3. /\ q2 \in Request /\ q2.op = net[r].op /\ q2.entry = net[r].entry
        /\ q2.choice = net[r].choice /\ ~q2.handled
    BY <1>1, <1>2, <1>4 DEF Refresh, Request
  <2>4. net[r] # None /\ UNCHANGED <<viewVars, current, asked, doubt>>
    BY <1>4 DEF Refresh
  <2> HIDE DEF q1, q2
  <2> QED
    BY <2>1, <2>2, <2>3, <2>4, StageStep
<1>5. ASSUME NEW a \in Answers, net[r] # None, Answer(r, a),
             UNCHANGED <<viewVars, current, asked, doubt>>
      PROVE  SessionInv'
  <2> DEFINE q == [net[r] EXCEPT !.stage = "answered", !.answer = a, !.handled = TRUE]
  <2>1. net' = [net EXCEPT ![r] = q]
    BY <1>1, <1>5 DEF Answer
  <2>2. /\ q \in Request /\ q.op = net[r].op /\ q.entry = net[r].entry /\ q.choice = net[r].choice
        /\ q.stage = "answered"
    BY <1>1, <1>5 DEF Request
  <2> HIDE DEF q
  <2> QED
    BY <1>5, <2>1, <2>2, StageStep
<1>6. CASE Handle(r)
  <2>1. net[r] # None /\ net[r].op \in Ops
    BY <1>1, <1>6 DEF Handle, Reached, Request
  <2>2. Reply[net[r].op] \subseteq Answers
    BY <2>1 DEF Reply, Ops, Reads, Buttons, States, Actionable
  <2> QED
    BY <1>5, <1>6, <2>1, <2>2 DEF Handle
<1>7. CASE HandleClaims(r)
  <2> DEFINE q == [net[r] EXCEPT !.stage = "working", !.handled = TRUE]
  <2>1. net' = [net EXCEPT ![r] = q]
    BY <1>1, <1>7 DEF HandleClaims
  <2>2. /\ q \in Request /\ q.op = net[r].op /\ q.entry = net[r].entry /\ q.choice = net[r].choice
        /\ q.stage = "working"
    BY <1>1, <1>7 DEF HandleClaims, Reached, Request
  <2>3. net[r] # None /\ UNCHANGED <<viewVars, current, asked, doubt>>
    BY <1>7 DEF HandleClaims, Reached
  <2> HIDE DEF q
  <2> QED
    BY <2>1, <2>2, <2>3, StageStep
<1>8. CASE HandleFinishes(r)
  BY <1>5, <1>8 DEF HandleFinishes, States, Actionable
<1>9. CASE Lose(r)
  <2> DEFINE q == AfterLoss(net[r])
  <2>1. net' = [net EXCEPT ![r] = q]
    BY <1>1, <1>9 DEF Lose
  <2>2. /\ q \in Request /\ q.op = net[r].op /\ q.entry = net[r].entry /\ q.choice = net[r].choice
        /\ q.stage = "answered"
    BY <1>1, <1>9 DEF Lose, AfterLoss, Request
  <2>3. net[r] # None /\ UNCHANGED <<viewVars, current, asked, doubt>>
    BY <1>9 DEF Lose
  <2> HIDE DEF q
  <2> QED
    BY <2>1, <2>2, <2>3, StageStep
<1> QED
  BY <1>3, <1>4, <1>6, <1>7, <1>8, <1>9

-----------------------------------------------------------------------------
(* What happens within a screen. *)

\* Changing a choice starts a check, or lets it wait behind the one in flight.
LEMMA CheckStep ==
  ASSUME SessionInv, NEW r \in Free, NEW c \in Choices, view.screen \in {"initial", "resolve"},
         RunPreflight(c, r)
  PROVE  SessionInv'
<1> USE NoneAssumption DEF SessionInv, TypeInv
<1>1. /\ choice' = c /\ checking' = TRUE
      /\ UNCHANGED <<view, plan, busy, alert, asked, doubt>>
      /\ view.entry \in Entries /\ r \in Requests /\ net[r] = None
  BY DEF RunPreflight, Free, ScreenHasItsData
<1>2. PlanSettlesDoubt' /\ PlanMatchesChoices' /\ ScreenFollowsNavigation' /\ LoadingIsAwaited'
      /\ ScreenHasItsData' /\ ControlsOnScreen' /\ NavigationFits'
  BY <1>1 DEF PlanSettlesDoubt, PlanMatchesChoices, ScreenFollowsNavigation, LoadingIsAwaited,
              ScreenHasItsData, ControlsOnScreen, NavigationFits
<1>3. CASE Queued
  <2>1. /\ queue' = Append(queue, c) /\ Len(queue) < MaxQueue
        /\ UNCHANGED <<running, net, current>>
        /\ view.screen = "resolve" /\ running # None
    BY <1>3 DEF RunPreflight, netVars, Queued
  <2>2. queue \in Seq(Choices)
    BY DEF TypeOK
  <2>3. /\ queue' \in Seq(Choices) /\ Len(queue') <= MaxQueue
        /\ queue' # <<>> /\ queue'[Len(queue')] = c
    BY <2>1, <2>2, MaxQueueAssumption
  <2>4. TypeOK'
    BY <1>1, <2>1, <2>3 DEF TypeOK, Free
  <2>5. RequestsFit' /\ CurrentServesScreen' /\ ActedOnOnce'
    BY <1>1, <2>1 DEF RequestsFit, CurrentServesScreen, ActedOnOnce, Free
  <2>6. NewestCheckIsForChoice'
    BY <1>1, <2>1, <2>3 DEF NewestCheckIsForChoice, Free
  <2>7. WorkIsAwaited'
    BY <1>1, <2>1 DEF WorkIsAwaited
  <2> QED
    BY <1>2, <2>4, <2>5, <2>6, <2>7
<1>4. CASE ~Queued
  <2> DEFINE q == Sent("preflight", view.entry, c, FALSE)
  <2>1. q \in Request /\ q # None
    BY <1>1, SentTyped DEF Ops
  <2>2. running' = r /\ net' = [net EXCEPT ![r] = q] /\ current' = {r} /\ queue' = queue
    BY <1>4 DEF RunPreflight, BeginRequest
  <2>3. queue = <<>>
    BY <1>4 DEF Queued, NewestCheckIsForChoice
  <2>4. /\ net' \in [Requests -> Request \cup {None}]
        /\ net'[r] = q /\ \A s \in Requests \ {r} : net'[s] = net[s]
    BY <1>1, <2>1, <2>2 DEF TypeOK
  <2>5. q.op = "preflight" /\ q.entry = view.entry /\ q.choice = c /\ ~q.handled
    BY DEF Sent
  <2> HIDE DEF q
  <2>6. TypeOK'
    BY <1>1, <2>1, <2>2, <2>4 DEF TypeOK, Free
  <2>7. RequestsFit' /\ ActedOnOnce'
    BY <1>1, <2>4, <2>5 DEF RequestsFit, ActedOnOnce, Free
  <2>8. CurrentServesScreen'
    BY <1>1, <2>2, <2>4, <2>5 DEF CurrentServesScreen, Reads, Buttons
  <2>9. NewestCheckIsForChoice'
    BY <1>1, <2>1, <2>2, <2>3, <2>4, <2>5 DEF NewestCheckIsForChoice, Free
  <2>10. WorkIsAwaited'
    BY <1>1, <2>2 DEF WorkIsAwaited, ControlsOnScreen
  <2> QED
    BY <1>2, <2>6, <2>7, <2>8, <2>9, <2>10
<1> QED
  BY <1>3, <1>4

\* A button is pressed: its request is the current one.
LEMMA PressStep ==
  ASSUME SessionInv, NEW r \in Free, NEW button \in Buttons, BusyAction(button, r),
         button = "recreate" => view.screen = "confirm",
         button = "dismiss" => view.screen = "resolve",
         button = "undismiss" => view.screen = "dismissed",
         button = "reconcile" => view.screen = "ambiguous",
         button = "mark" => view.screen = "bounded",
         button = "resolve" => view.screen \in {"ambiguous", "bounded"},
         UNCHANGED doubt
  PROVE  SessionInv'
<1> USE NoneAssumption DEF SessionInv, TypeInv
<1> DEFINE q == Sent(button, view.entry, IF button = "recreate" THEN plan.choice ELSE None, FALSE)
<1>1. view.screen \in {"confirm", "resolve", "dismissed", "ambiguous", "bounded"}
  BY DEF Buttons
<1>2. /\ view.entry \in Entries /\ (button = "recreate" => plan \in Plan)
      /\ r \in Requests /\ net[r] = None
  BY <1>1 DEF ScreenHasItsData, Free
<1>3. q \in Request /\ q # None
  BY <1>2, SentTyped DEF Ops, Plan
<1>4. /\ busy' = busy \cup {button} /\ net' = [net EXCEPT ![r] = q] /\ current' = {r}
      /\ UNCHANGED <<view, choice, plan, checking, queue, running, alert, asked, doubt>>
  BY DEF BusyAction, BeginRequest
<1>5. /\ net' \in [Requests -> Request \cup {None}]
      /\ net'[r] = q /\ \A s \in Requests \ {r} : net'[s] = net[s]
  BY <1>2, <1>3, <1>4 DEF TypeOK
<1>6. q.op = button /\ q.entry = view.entry /\ ~q.handled
  BY DEF Sent
<1> HIDE DEF q
<1>7. TypeOK'
  BY <1>2, <1>3, <1>4, <1>5 DEF TypeOK, Free
<1>8. ScreenHasItsData' /\ NavigationFits' /\ PlanSettlesDoubt' /\ PlanMatchesChoices'
      /\ ScreenFollowsNavigation'
  BY <1>4 DEF ScreenHasItsData, NavigationFits, PlanSettlesDoubt, PlanMatchesChoices,
              ScreenFollowsNavigation
<1>9. ControlsOnScreen'
  BY <1>4 DEF ControlsOnScreen
<1>10. RequestsFit' /\ ActedOnOnce'
  BY <1>2, <1>5, <1>6 DEF RequestsFit, ActedOnOnce, Free, Buttons
<1>11. CurrentServesScreen'
  BY <1>4, <1>5, <1>6 DEF CurrentServesScreen, Reads, Buttons
<1>12. NewestCheckIsForChoice'
  BY <1>2, <1>4, <1>5 DEF NewestCheckIsForChoice, Free, TypeOK
<1>13. LoadingIsAwaited' /\ WorkIsAwaited'
  BY <1>1, <1>4, <1>5, <1>6 DEF LoadingIsAwaited, WorkIsAwaited, ControlsOnScreen, Buttons
<1> QED
  BY <1>7, <1>8, <1>9, <1>10, <1>11, <1>12, <1>13

\* A button comes back with an error beside it.
LEMMA RestoreStep ==
  ASSUME SessionInv, NEW r \in current, net[r].op \in Buttons,
         NEW offer \in {"recheck", "entry", "review", "again"},
         offer = "recheck" <=> net[r].op # "recreate",
         Restore(r, net[r].op, offer),
         doubt' \subseteq doubt, UNCHANGED asked
  PROVE  SessionInv'
<1> USE NoneAssumption DEF SessionInv, TypeInv
<1>1. /\ r \in Requests /\ r \notin Free /\ net[r].op \in busy /\ current = {r}
  BY DEF TypeOK, CurrentServesScreen
<1>2. /\ busy' = busy \ {net[r].op} /\ alert' = offer
      /\ net' = [net EXCEPT ![r] = None] /\ current' = {}
      /\ UNCHANGED <<view, choice, plan, checking, queue, running, asked>>
  BY <1>1 DEF Restore, Settle
<1>3. /\ net' \in [Requests -> Request \cup {None}]
      /\ net'[r] = None /\ \A s \in Requests \ {r} : net'[s] = net[s]
  BY <1>1, <1>2 DEF TypeOK
<1>4. r # running
  BY <1>1 DEF NewestCheckIsForChoice, Buttons
<1>5. TypeOK'
  BY <1>2, <1>3 DEF TypeOK, Alerts
<1>6. ScreenHasItsData' /\ NavigationFits' /\ PlanSettlesDoubt' /\ PlanMatchesChoices'
      /\ ScreenFollowsNavigation'
  BY <1>2 DEF ScreenHasItsData, NavigationFits, PlanSettlesDoubt, PlanMatchesChoices,
              ScreenFollowsNavigation
<1>7. ControlsOnScreen'
  BY <1>1, <1>2 DEF ControlsOnScreen, Buttons
<1>8. RequestsFit' /\ ActedOnOnce'
  BY <1>3 DEF RequestsFit, ActedOnOnce, Free
<1>9. CurrentServesScreen'
  BY <1>2 DEF CurrentServesScreen
<1>10. NewestCheckIsForChoice'
  BY <1>2, <1>3, <1>4 DEF NewestCheckIsForChoice, Free, TypeOK
<1>11. LoadingIsAwaited' /\ WorkIsAwaited'
  BY <1>1, <1>2 DEF LoadingIsAwaited, WorkIsAwaited, ControlsOnScreen, Buttons
<1> QED
  BY <1>5, <1>6, <1>7, <1>8, <1>9, <1>10, <1>11

\* A check of the resolve view ends, whether its answer is used or not.
LEMMA EndRunStep ==
  ASSUME SessionInv, NEW r \in Requests, r = running, view.screen = "resolve",
         EndRun(r),
         UNCHANGED <<view, choice, busy, asked>>,
         plan' \in Plan, checking' \in BOOLEAN, alert' \in {alert, "choices"},
         doubt' \subseteq doubt,
         queue # <<>> => checking',
         ~checking' /\ alert' = "none" => plan'.choice = choice
  PROVE  SessionInv'
<1> USE NoneAssumption DEF SessionInv, TypeInv
<1>1. /\ view.entry \in Entries /\ queue \in Seq(Choices) /\ Len(queue) <= MaxQueue
      /\ r \notin Free /\ \A s \in current : s \in Requests
  BY DEF ScreenHasItsData, TypeOK, NewestCheckIsForChoice
<1>2. /\ ScreenHasItsData' /\ NavigationFits' /\ PlanSettlesDoubt' /\ PlanMatchesChoices'
      /\ ScreenFollowsNavigation' /\ LoadingIsAwaited'
  BY DEF ScreenHasItsData, NavigationFits, PlanSettlesDoubt, PlanMatchesChoices,
         ScreenFollowsNavigation, LoadingIsAwaited
<1>3. ControlsOnScreen' /\ WorkIsAwaited'
  BY DEF ControlsOnScreen, WorkIsAwaited
<1>4. CASE queue # <<>>
  <2> DEFINE q == Sent("preflight", view.entry, Head(queue), FALSE)
  <2>1. /\ Head(queue) \in Choices /\ Tail(queue) \in Seq(Choices) /\ Len(Tail(queue)) <= MaxQueue
        /\ Tail(queue) = <<>> => Head(queue) = queue[Len(queue)]
        /\ Tail(queue) # <<>> => Tail(queue)[Len(Tail(queue))] = queue[Len(queue)]
    BY <1>1, <1>4, MaxQueueAssumption
  <2>2. q \in Request /\ q # None
    BY <1>1, <2>1, SentTyped DEF Ops
  <2>3. queue' = Tail(queue) /\ running' = r /\ net' = [net EXCEPT ![r] = q] /\ current' = {r}
    BY <1>4 DEF EndRun, BeginRequest
  <2>4. /\ net' \in [Requests -> Request \cup {None}]
        /\ net'[r] = q /\ \A s \in Requests \ {r} : net'[s] = net[s]
    BY <2>2, <2>3 DEF TypeOK
  <2>5. q.op = "preflight" /\ q.entry = view.entry /\ q.choice = Head(queue) /\ ~q.handled
    BY DEF Sent
  <2> HIDE DEF q
  <2>6. TypeOK'
    <3>1. current' \subseteq Requests \ Free'
      BY <2>2, <2>3, <2>4 DEF Free
    <3> QED
      BY <2>1, <2>3, <2>4, <3>1 DEF TypeOK, Alerts
  <2>7. RequestsFit' /\ ActedOnOnce'
    BY <1>1, <2>1, <2>4, <2>5 DEF RequestsFit, ActedOnOnce, Free
  <2>8. CurrentServesScreen'
    BY <2>3, <2>4, <2>5 DEF CurrentServesScreen, Reads, Buttons
  <2>9. NewestCheckIsForChoice'
    BY <1>4, <2>1, <2>2, <2>3, <2>4, <2>5 DEF NewestCheckIsForChoice, Free
  <2> QED
    BY <1>2, <1>3, <2>6, <2>7, <2>8, <2>9
<1>5. CASE queue = <<>>
  <2>1. /\ running' = None /\ net' = [net EXCEPT ![r] = None] /\ current' = current \ {r}
        /\ queue' = queue
    BY <1>5 DEF EndRun, Settle
  <2>2. /\ net' \in [Requests -> Request \cup {None}]
        /\ net'[r] = None /\ \A s \in Requests \ {r} : net'[s] = net[s]
    BY <2>1 DEF TypeOK
  <2>3. TypeOK'
    BY <2>1, <2>2 DEF TypeOK, Free, Alerts
  <2>4. RequestsFit' /\ ActedOnOnce'
    BY <2>2 DEF RequestsFit, ActedOnOnce, Free
  <2>5. CurrentServesScreen'
    BY <1>1, <2>1, <2>2 DEF CurrentServesScreen
  <2>6. NewestCheckIsForChoice'
    BY <1>5, <2>1 DEF NewestCheckIsForChoice
  <2> QED
    BY <1>2, <1>3, <2>3, <2>4, <2>5, <2>6
<1> QED
  BY <1>4, <1>5

-----------------------------------------------------------------------------
(* The arrival of an answer. *)

\* What is current says what is on the screen.
LEMMA CurrentRead ==
  ASSUME SessionInv, NEW r \in current, net[r].op \in Reads
  PROVE  /\ current = {r} /\ r \in Requests /\ net[r] \in Request
         /\ view.screen = "loading" /\ view.load = net[r].op /\ view.entry = net[r].entry
         /\ net[r].op = "list" <=> net[r].entry = None
  BY DEF SessionInv, TypeInv, TypeOK, CurrentServesScreen, RequestsFit, Free

\* The same for the request of a button.
LEMMA CurrentButton ==
  ASSUME SessionInv, NEW r \in current, net[r].op \in Buttons
  PROVE  /\ current = {r} /\ r \in Requests /\ net[r] \in Request
         /\ net[r].op \in busy /\ net[r].entry = view.entry /\ net[r].entry \in Entries
<1>1. /\ current = {r} /\ r \in Requests \ Free /\ net[r] \in Request
      /\ net[r].op \in busy /\ net[r].entry = view.entry
  BY DEF SessionInv, TypeInv, TypeOK, CurrentServesScreen, Free
<1>2. net[r].entry # None
  BY <1>1 DEF SessionInv, TypeInv, RequestsFit, Buttons
<1> QED
  BY <1>1, <1>2 DEF Request

\* An answer that comes too late.
LEMMA DropStep ==
  ASSUME SessionInv, NEW r \in Requests, DropLate(r)
  PROVE  SessionInv'
<1> USE NoneAssumption
<1>1. /\ r \notin current /\ r \notin Free
      /\ UNCHANGED <<view, choice, plan, checking, busy, alert, asked, doubt>>
  BY DEF DropLate, Arrived, IsCurrentView, Free
<1>2. CASE r = running
  <2>1. view.screen = "resolve" /\ checking
    BY <1>1, <1>2 DEF SessionInv, NewestCheckIsForChoice, WorkIsAwaited
  <2>2. plan \in Plan /\ checking \in BOOLEAN /\ EndRun(r)
    BY <1>2, <2>1 DEF SessionInv, TypeInv, TypeOK, ScreenHasItsData, DropLate
  <2> QED
    BY <1>1, <1>2, <2>1, <2>2, EndRunStep
<1>3. CASE r # running
  <2> USE DEF SessionInv, TypeInv
  <2>1. /\ UNCHANGED <<queue, running>> /\ net' = [net EXCEPT ![r] = None]
        /\ current' = current
    BY <1>1, <1>3 DEF DropLate, Settle
  <2>2. /\ net' \in [Requests -> Request \cup {None}]
        /\ net'[r] = None /\ \A s \in Requests \ {r} : net'[s] = net[s]
    BY <2>1 DEF TypeOK
  <2>3. current \subseteq Requests \ Free' /\ \A s \in current : net'[s] = net[s]
    BY <1>1, <2>2 DEF TypeOK, Free
  <2>4. TypeOK'
    BY <1>1, <2>1, <2>2, <2>3 DEF TypeOK
  <2>5. ScreenHasItsData' /\ ControlsOnScreen' /\ NavigationFits' /\ PlanSettlesDoubt'
        /\ PlanMatchesChoices' /\ ScreenFollowsNavigation'
    BY <1>1 DEF ScreenHasItsData, ControlsOnScreen, NavigationFits, PlanSettlesDoubt,
                PlanMatchesChoices, ScreenFollowsNavigation
  <2>6. RequestsFit' /\ ActedOnOnce'
    BY <2>2 DEF RequestsFit, ActedOnOnce, Free
  <2>7. CurrentServesScreen' /\ LoadingIsAwaited' /\ WorkIsAwaited'
    BY <1>1, <2>1, <2>3 DEF CurrentServesScreen, LoadingIsAwaited, WorkIsAwaited
  <2>8. NewestCheckIsForChoice'
    BY <1>1, <1>3, <2>1, <2>2 DEF NewestCheckIsForChoice, Free, TypeOK
  <2> QED
    BY <2>4, <2>5, <2>6, <2>7, <2>8
<1> QED
  BY <1>2, <1>3

\* A screen that could not be loaded offers to load it again.
LEMMA LoadErrorStep ==
  ASSUME SessionInv, NEW r \in Requests, ShowLoadError(r)
  PROVE  SessionInv'
<1> USE NoneAssumption
<1>1. r \in current /\ net[r].op \in Reads
  BY DEF ShowLoadError, IsCurrentView
<1>2. /\ current = {r} /\ net[r] \in Request
      /\ view.screen = "loading" /\ view.load = net[r].op /\ view.entry = net[r].entry
  BY <1>1, CurrentRead
<1>3. /\ view' = [screen |-> "loadError", load |-> view.load, entry |-> view.entry,
                  force |-> net[r].force]
      /\ checking' = FALSE /\ queue' = <<>> /\ running' = None /\ busy' = {} /\ alert' = "load"
      /\ net' = [net EXCEPT ![r] = None] /\ current' = {}
      /\ UNCHANGED <<choice, plan, asked, doubt>>
  BY <1>1, <1>2 DEF ShowLoadError, Mount, Settle
<1> USE DEF SessionInv, TypeInv
<1>4. /\ net' \in [Requests -> Request \cup {None}]
      /\ net'[r] = None
      /\ \A s \in Requests \ {r} : net'[s] = net[s]
  BY <1>3 DEF TypeOK
<1>5. TypeOK'
  <2>1. view' \in View
    BY <1>1, <1>2, <1>3 DEF View, Screens, Request
  <2>2. queue' \in Seq(Choices) /\ Len(queue') <= MaxQueue
    BY <1>3, MaxQueueAssumption
  <2> QED
    BY <1>3, <1>4, <2>1, <2>2 DEF TypeOK, Alerts
<1>6. ScreenHasItsData' /\ ControlsOnScreen' /\ NavigationFits' /\ ScreenFollowsNavigation'
  BY <1>2, <1>3 DEF ScreenHasItsData, ControlsOnScreen, NavigationFits, ScreenFollowsNavigation
<1>7. RequestsFit' /\ ActedOnOnce'
  BY <1>4 DEF RequestsFit, ActedOnOnce, Free
<1>8. /\ CurrentServesScreen' /\ NewestCheckIsForChoice' /\ PlanSettlesDoubt'
      /\ PlanMatchesChoices' /\ LoadingIsAwaited' /\ WorkIsAwaited'
  BY <1>3 DEF CurrentServesScreen, NewestCheckIsForChoice, PlanSettlesDoubt, PlanMatchesChoices,
              LoadingIsAwaited, WorkIsAwaited
<1> QED
  BY <1>5, <1>6, <1>7, <1>8

\* The shell of an entry opens with its first check.
LEMMA ShellStep ==
  ASSUME SessionInv, NEW r \in current, net[r].op = "detail", OpenShell(r),
         UNCHANGED <<asked, doubt>>
  PROVE  SessionInv'
<1> USE NoneAssumption
<1>1. /\ current = {r} /\ r \in Requests /\ net[r] \in Request
      /\ view.screen = "loading" /\ view.load = "detail" /\ view.entry = net[r].entry
      /\ net[r].entry # None
  BY CurrentRead DEF Reads
<1>2. view.entry \in Entries
  BY <1>1 DEF Request
<1>3. PICK c \in Choices :
        /\ view' = [screen |-> "initial", load |-> None, entry |-> view.entry, force |-> FALSE]
        /\ choice' = c /\ plan' = None /\ checking' = TRUE /\ queue' = <<>> /\ running' = r
        /\ busy' = {} /\ alert' = "none"
        /\ net' = [net EXCEPT ![r] = Sent("preflight", view.entry, c, FALSE)] /\ current' = {r}
  BY <1>1 DEF OpenShell, BeginRequest, Request
<1> DEFINE q == Sent("preflight", view.entry, c, FALSE)
<1>4. q \in Request /\ q # None
  BY <1>2, SentTyped DEF Ops
<1>5. q.op = "preflight" /\ q.entry = view.entry /\ q.choice = c /\ ~q.handled
  BY DEF Sent
<1> USE DEF SessionInv, TypeInv
<1>6. /\ net' \in [Requests -> Request \cup {None}]
      /\ net'[r] = q
      /\ \A s \in Requests \ {r} : net'[s] = net[s]
  BY <1>1, <1>3, <1>4 DEF TypeOK
<1> HIDE DEF q
<1>7. TypeOK'
  <2>1. view' \in View
    BY <1>2, <1>3 DEF View, Screens
  <2>2. queue' \in Seq(Choices) /\ Len(queue') <= MaxQueue
    BY <1>3, MaxQueueAssumption
  <2>3. current' \subseteq Requests \ Free'
    BY <1>1, <1>3, <1>4, <1>6 DEF Free
  <2> QED
    BY <1>1, <1>3, <1>6, <2>1, <2>2, <2>3 DEF TypeOK, Alerts
<1>8. ScreenHasItsData' /\ ControlsOnScreen' /\ NavigationFits' /\ ScreenFollowsNavigation'
  BY <1>1, <1>2, <1>3 DEF ScreenHasItsData, ControlsOnScreen, NavigationFits,
                          ScreenFollowsNavigation
<1>9. RequestsFit' /\ ActedOnOnce'
  BY <1>1, <1>2, <1>5, <1>6 DEF RequestsFit, ActedOnOnce, Free
<1>10. CurrentServesScreen'
  BY <1>3, <1>5, <1>6 DEF CurrentServesScreen, Reads, Buttons
<1>11. NewestCheckIsForChoice'
  BY <1>1, <1>3, <1>4, <1>5, <1>6 DEF NewestCheckIsForChoice, Free
<1>12. PlanSettlesDoubt' /\ PlanMatchesChoices' /\ LoadingIsAwaited' /\ WorkIsAwaited'
  BY <1>3 DEF PlanSettlesDoubt, PlanMatchesChoices, LoadingIsAwaited, WorkIsAwaited
<1> QED
  BY <1>7, <1>8, <1>9, <1>10, <1>11, <1>12

\* The first check of an entry ends.
LEMMA FirstCheckStep ==
  ASSUME SessionInv, NEW r \in Requests, FirstCheckEnds(r)
  PROVE  SessionInv'
<1> USE NoneAssumption DEF SessionInv, TypeInv
<1>1. /\ r \in current /\ r = running /\ view.screen = "initial" /\ current = {r}
      /\ UNCHANGED <<choice, asked>>
      /\ net' = [net EXCEPT ![r] = None] /\ current' = {}
  BY DEF FirstCheckEnds, IsCurrentView, Settle, CurrentServesScreen
<1>2. /\ queue = <<>> /\ r \notin Free /\ net[r].op = "preflight" /\ net[r].entry = view.entry
      /\ net[r].choice = choice /\ choice \in Choices /\ view.entry \in Entries
  BY <1>1 DEF NewestCheckIsForChoice, ScreenHasItsData
<1>3. /\ net' \in [Requests -> Request \cup {None}]
      /\ net'[r] = None
      /\ \A s \in Requests \ {r} : net'[s] = net[s]
  BY <1>1 DEF TypeOK
<1>4. RequestsFit' /\ ActedOnOnce'
  BY <1>3 DEF RequestsFit, ActedOnOnce, Free
<1>5. queue' \in Seq(Choices) /\ Len(queue') <= MaxQueue /\ queue' = <<>> /\ running' = None
  <2>1. queue' = <<>> /\ running' = None
    BY <1>2 DEF FirstCheckEnds, Mount
  <2> QED
    BY <2>1, MaxQueueAssumption
<1>6. CASE net[r].answer \in {"ready", "open"}
  <2>1. /\ view' = [screen |-> "resolve", load |-> None, entry |-> view.entry, force |-> FALSE]
        /\ checking' = FALSE /\ busy' = {} /\ alert' = "none"
        /\ plan' = [choice |-> choice, ready |-> net[r].answer = "ready"]
        /\ doubt' = doubt \ {view.entry}
    BY <1>2, <1>6 DEF FirstCheckEnds, Mount, Failed
  <2>2. view' \in View
    BY <1>2, <2>1 DEF View, Screens
  <2>3. plan' \in Plan
    BY <1>2, <2>1 DEF Plan
  <2>4. TypeOK'
    BY <1>1, <1>3, <1>5, <2>1, <2>2, <2>3 DEF TypeOK, Alerts
  <2>5. ScreenHasItsData' /\ ControlsOnScreen' /\ NavigationFits' /\ ScreenFollowsNavigation'
    BY <1>1, <1>2, <2>1, <2>3 DEF ScreenHasItsData, ControlsOnScreen, NavigationFits,
                                  ScreenFollowsNavigation
  <2>6. CurrentServesScreen' /\ NewestCheckIsForChoice'
    BY <1>1, <1>5 DEF CurrentServesScreen, NewestCheckIsForChoice
  <2>7. PlanSettlesDoubt' /\ PlanMatchesChoices' /\ LoadingIsAwaited' /\ WorkIsAwaited'
    BY <1>1, <2>1 DEF PlanSettlesDoubt, PlanMatchesChoices, LoadingIsAwaited, WorkIsAwaited
  <2> QED
    BY <1>4, <2>4, <2>5, <2>6, <2>7
<1>7. CASE Failed(net[r])
  <2>1. checking' = FALSE /\ alert' = "choices" /\ UNCHANGED <<view, plan, busy, doubt>>
    BY <1>7 DEF FirstCheckEnds, Failed
  <2>2. TypeOK'
    BY <1>1, <1>3, <1>5, <2>1 DEF TypeOK, Alerts
  <2>3. ScreenHasItsData' /\ ControlsOnScreen' /\ NavigationFits' /\ ScreenFollowsNavigation'
    BY <1>1, <2>1 DEF ScreenHasItsData, ControlsOnScreen, NavigationFits, ScreenFollowsNavigation
  <2>4. CurrentServesScreen' /\ NewestCheckIsForChoice'
    BY <1>1, <1>5 DEF CurrentServesScreen, NewestCheckIsForChoice
  <2>5. PlanSettlesDoubt' /\ PlanMatchesChoices' /\ LoadingIsAwaited' /\ WorkIsAwaited'
    BY <1>1, <2>1 DEF PlanSettlesDoubt, PlanMatchesChoices, LoadingIsAwaited, WorkIsAwaited,
                      ControlsOnScreen
  <2> QED
    BY <1>4, <2>2, <2>3, <2>4, <2>5
<1> QED
  BY <1>6, <1>7 DEF FirstCheckEnds

\* A check of the resolve view is answered.
LEMMA CheckEndsStep ==
  ASSUME SessionInv, NEW r \in Requests, CheckEnds(r)
  PROVE  SessionInv'
<1> USE NoneAssumption
<1>1. /\ r = running /\ view.screen = "resolve" /\ EndRun(r)
      /\ UNCHANGED <<view, choice, busy, asked>>
  BY DEF CheckEnds
<1>2. /\ checking /\ checking \in BOOLEAN /\ plan \in Plan /\ choice \in Choices
      /\ queue = <<>> => net[r].choice = choice
  BY <1>1 DEF SessionInv, TypeInv, TypeOK, ScreenHasItsData, NewestCheckIsForChoice
<1>3. CASE queue # <<>>
  <2>1. UNCHANGED <<plan, checking, alert, doubt>>
    BY <1>3 DEF CheckEnds, IsLatest
  <2> QED
    BY <1>1, <1>2, <2>1, EndRunStep
<1>4. CASE queue = <<>>
  <2>1. checking' = FALSE
    BY <1>4 DEF CheckEnds, IsLatest
  <2>2. CASE Failed(net[r])
    <3>1. alert' = "choices" /\ UNCHANGED <<plan, doubt>>
      BY <1>4, <2>2 DEF CheckEnds, IsLatest
    <3> QED
      BY <1>1, <1>2, <1>4, <2>1, <3>1, EndRunStep
  <2>3. CASE ~Failed(net[r])
    <3>1. /\ plan' = [choice |-> choice, ready |-> net[r].answer = "ready"]
          /\ doubt' \subseteq doubt /\ UNCHANGED alert
      BY <1>2, <1>4, <2>3 DEF CheckEnds, IsLatest
    <3>2. plan' \in Plan /\ plan'.choice = choice
      BY <1>2, <3>1 DEF Plan
    <3> QED
      BY <1>1, <1>2, <1>4, <2>1, <3>1, <3>2, EndRunStep
  <2> QED
    BY <2>2, <2>3
<1> QED
  BY <1>3, <1>4

\* The answer to a recreation is shown.
LEMMA RecreateEndsStep ==
  ASSUME SessionInv, NEW r \in Requests, RecreateEnds(r)
  PROVE  SessionInv'
<1> USE NoneAssumption
<1> DEFINE e == net[r].entry
<1>1. r \in current /\ net[r].op = "recreate" /\ asked' = asked
  BY DEF RecreateEnds, IsCurrentView
<1>2. /\ current = {r} /\ e = view.entry /\ e \in Entries /\ "recreate" \in busy
  BY <1>1, CurrentButton DEF Buttons
<1>3. view.screen = "confirm"
  BY <1>2 DEF SessionInv, TypeInv, ControlsOnScreen
<1>4. /\ asked \in [where : {"detail", "confirm"}, entry : Entries \cup {None}]
      /\ asked.where = "confirm" /\ asked.entry = e
  BY <1>2, <1>3 DEF SessionInv, TypeInv, TypeOK, ScreenFollowsNavigation
<1>5. doubt' = (IF net[r].answer = "lost" THEN doubt \cup {e} ELSE doubt \ {e})
  BY DEF RecreateEnds
<1>6. doubt' \subseteq Entries
  BY <1>2, <1>5 DEF SessionInv, TypeInv, TypeOK
<1>7. ASSUME NEW screen \in {"success", "failed", "uncertain"}, MountPlain(screen, e), Settle(r)
      PROVE  SessionInv'
  BY <1>1, <1>2, <1>4, <1>6, <1>7, PlainStep DEF Plain, Settle
<1>8. ASSUME NEW offer \in {"entry", "review", "again"}, Restore(r, "recreate", offer),
             net[r].answer # "lost"
      PROVE  SessionInv'
  BY <1>1, <1>5, <1>8, RestoreStep DEF Buttons
<1>9. ASSUME WithLoading(r, "recheck", e, None, FALSE)
      PROVE  SessionInv'
  BY <1>1, <1>2, <1>4, <1>6, <1>9, LoadingStep DEF Reads
<1> QED
  BY <1>7, <1>8, <1>9 DEF RecreateEnds, RecreateLost, RecreateRefused

\* The answer of another button is shown.
LEMMA ButtonEndsStep ==
  ASSUME SessionInv, NEW r \in Requests, ButtonEnds(r)
  PROVE  SessionInv'
<1> USE NoneAssumption
<1> DEFINE e == net[r].entry
<1>1. r \in current /\ net[r].op \in Buttons \ {"recreate"} /\ doubt' = doubt
  BY DEF ButtonEnds, IsCurrentView
<1>2. /\ current = {r} /\ e = view.entry /\ e \in Entries /\ net[r].op \in busy
      /\ doubt \subseteq Entries
      /\ asked \in [where : {"list", "detail", "confirm", "expired"}, entry : Entries \cup {None}]
  BY <1>1, CurrentButton DEF SessionInv, TypeInv, TypeOK
<1>3. /\ view.screen \in {"resolve", "dismissed", "ambiguous", "bounded"}
      /\ net[r].op = "undismiss" => view.screen = "dismissed"
  BY <1>1, <1>2 DEF SessionInv, TypeInv, ControlsOnScreen, Buttons
<1>4. /\ asked \in [where : {"list", "detail", "confirm"}, entry : Entries \cup {None}]
      /\ asked.where \in {"detail", "confirm"} /\ asked.entry = e
      /\ net[r].op = "undismiss" => asked.where = "detail"
  BY <1>2, <1>3 DEF SessionInv, ScreenFollowsNavigation
<1>5. CASE Restore(r, net[r].op, "recheck") /\ UNCHANGED asked
  BY <1>1, <1>5, RestoreStep
<1>6. CASE NavigateList(r)
  BY <1>1, <1>2, <1>6, LoadingStep DEF NavigateList, Reads
<1>7. CASE NavigateDetail(r, e, FALSE, None)
  BY <1>1, <1>2, <1>7, LoadingStep DEF NavigateDetail, Reads
<1>8. ASSUME NEW op \in {"detail", "recheck"}, op = "detail" => net[r].op = "undismiss",
             WithLoading(r, op, e, None, FALSE), UNCHANGED asked
      PROVE  SessionInv'
  <2>1. /\ asked' \in [where : {"list", "detail", "confirm"}, entry : Entries \cup {None}]
        /\ asked'.where # "list" /\ asked'.entry = e
        /\ asked'.where = "confirm" => op = "recheck"
    BY <1>4, <1>8
  <2>2. op \in Reads /\ op # "list" /\ e # None /\ doubt' \subseteq Entries
    BY <1>1, <1>2, <1>8 DEF Reads
  <2> QED
    BY <1>1, <1>2, <1>8, <2>1, <2>2, LoadingStep
<1> QED
  BY <1>5, <1>6, <1>7, <1>8 DEF ButtonEnds

\* The answer to a read mounts a screen, or goes on to another read.
LEMMA ReadEndsStep ==
  ASSUME SessionInv, NEW r \in Requests, ShowList(r) \/ RouteDetail(r) \/ ShowAmbiguous(r)
  PROVE  SessionInv'
<1> USE NoneAssumption
<1> DEFINE e == net[r].entry
<1>1. r \in current /\ net[r].op \in Reads /\ doubt' = doubt
  BY DEF ShowList, RouteDetail, ShowAmbiguous, IsCurrentView, Reads
<1>2. /\ current = {r} /\ net[r] \in Request
      /\ view.screen = "loading" /\ view.load = net[r].op /\ view.entry = e
      /\ net[r].op = "list" <=> e = None
  BY <1>1, CurrentRead
<1>3. /\ e \in Entries \cup {None} /\ doubt' \subseteq Entries
      /\ asked \in [where : {"list", "detail", "confirm", "expired"}, entry : Entries \cup {None}]
  BY <1>1, <1>2 DEF SessionInv, TypeInv, TypeOK, Request
<1>4. /\ asked.where = "list" <=> e = None
      /\ asked.where # "expired"
      /\ asked.where \in {"detail", "confirm"} => asked.entry = e
      /\ asked.where = "confirm" => net[r].op = "recheck"
  BY <1>2, <1>3 DEF SessionInv, ScreenFollowsNavigation, NavigationFits
<1>5. asked \in [where : {"list", "detail", "confirm"}, entry : Entries \cup {None}]
  BY <1>3, <1>4
<1>6. CASE ShowList(r)
  BY <1>1, <1>2, <1>3, <1>4, <1>6, PlainStep DEF ShowList, Settle, Plain
<1>7. CASE RouteDetail(r)
  <2>1. net[r].op = "detail" /\ e # None /\ asked' = asked /\ asked.where = "detail"
    BY <1>2, <1>3, <1>4, <1>7 DEF RouteDetail
  <2>2. ASSUME NEW screen \in {"readonly", "success", "failed", "recreating", "dismissed"},
               MountPlain(screen, e), Settle(r)
        PROVE  SessionInv'
    BY <1>1, <1>2, <1>3, <1>4, <2>1, <2>2, PlainStep DEF Settle, Plain
  <2>3. ASSUME OpenShell(r) PROVE SessionInv'
    BY <1>1, <2>1, <2>3, ShellStep
  <2>4. ASSUME WithLoading(r, "recheck", e, None, FALSE) PROVE SessionInv'
    BY <1>1, <1>2, <1>3, <1>4, <1>5, <2>1, <2>4, LoadingStep DEF Reads
  <2>5. ASSUME NEW shown \in {<<"RECREATED", "success">>, <<"FAILED", "failed">>,
                              <<"RECREATING", "recreating">>, <<"DISMISSED", "dismissed">>},
               MountPlain(shown[2], e), Settle(r)
        PROVE  SessionInv'
    <3>1. shown[2] \in {"success", "failed", "recreating", "dismissed"}
      OBVIOUS
    <3> QED
      BY <2>2, <2>5, <3>1
  <2> QED
    BY <1>7, <2>2, <2>3, <2>4, <2>5 DEF RouteDetail
<1>8. CASE ShowAmbiguous(r)
  <2>1. net[r].op = "recheck" /\ e # None
    BY <1>2, <1>8 DEF ShowAmbiguous
  <2>2. ASSUME NEW screen \in {"readonly", "ambiguous", "bounded"}, MountPlain(screen, e),
               Settle(r), UNCHANGED asked
        PROVE  SessionInv'
    BY <1>1, <1>2, <1>3, <1>4, <2>1, <2>2, PlainStep DEF Settle, Plain
  <2>3. ASSUME NavigateDetail(r, e, FALSE, None) PROVE SessionInv'
    BY <1>1, <1>3, <2>1, <2>3, LoadingStep DEF NavigateDetail, Reads
  <2> QED
    BY <1>8, <2>2, <2>3 DEF ShowAmbiguous
<1> QED
  BY <1>6, <1>7, <1>8

\* The session has expired: nothing on the screen can be used any more.
LEMMA ExpiredStep ==
  ASSUME SessionInv, NEW r \in Requests, ShowExpired(r)
  PROVE  SessionInv'
<1>1. doubt' \subseteq Entries
  BY DEF ShowExpired, SessionInv, TypeInv, TypeOK
<1> QED
  BY <1>1, PlainStep DEF ShowExpired, NavigateExpired, Plain

\* Every arrival keeps the invariant.
LEMMA DeliverStep ==
  ASSUME SessionInv, NEW r \in Requests, Deliver(r)
  PROVE  SessionInv'
  BY DropStep, ExpiredStep, LoadErrorStep, ReadEndsStep, FirstCheckStep, CheckEndsStep,
     RecreateEndsStep, ButtonEndsStep DEF Deliver

-----------------------------------------------------------------------------
(* The user. *)

\* A click that opens an entry, whatever is on the screen.
LEMMA DetailStep ==
  ASSUME SessionInv, NEW r \in Requests, NEW e \in Entries, NEW force \in BOOLEAN,
         NEW draft \in Choices \cup {None}, NavigateDetail(r, e, force, draft),
         doubt' \subseteq Entries
  PROVE  SessionInv'
  BY LoadingStep, NoneAssumption DEF NavigateDetail, Reads

\* The other actions that load.
LEMMA NavigationStep ==
  ASSUME SessionInv, NEW r \in Free,
         \/ \E e \in Entries : OpenEntry(e, r) \/ OpenRelated(e, r)
         \/ Back(r) \/ BackToEntry(r) \/ CheckStatus(r)
         \/ \E force \in BOOLEAN : Reopen(force, r)
  PROVE  SessionInv'
<1> USE NoneAssumption
<1>1. r \in Requests /\ doubt \subseteq Entries
  BY DEF Free, SessionInv, TypeInv, TypeOK
<1>2. ASSUME NEW e \in Entries, OpenEntry(e, r) \/ OpenRelated(e, r) PROVE SessionInv'
  BY <1>1, <1>2, DetailStep DEF OpenEntry, OpenRelated
<1>3. CASE Back(r)
  BY <1>1, <1>3, LoadingStep DEF Back, NavigateList, Reads
<1>4. CASE BackToEntry(r)
  <2>1. view.entry \in Entries /\ choice \in Choices
    BY <1>4 DEF BackToEntry, SessionInv, TypeInv, ScreenHasItsData
  <2>2. doubt' \subseteq Entries
    BY <1>1, <1>4, <2>1 DEF BackToEntry
  <2> QED
    BY <1>1, <1>4, <2>1, <2>2, DetailStep DEF BackToEntry
<1>5. CASE CheckStatus(r)
  <2>1. /\ view.entry \in Entries /\ asked' = asked /\ doubt' = doubt
        /\ asked \in [where : {"list", "detail", "confirm"}, entry : Entries \cup {None}]
        /\ asked.where = "detail" /\ asked.entry = view.entry
    BY <1>5 DEF CheckStatus, SessionInv, TypeInv, TypeOK, ScreenHasItsData, ScreenFollowsNavigation
  <2> QED
    BY <1>1, <1>5, <2>1, LoadingStep DEF CheckStatus, Reads
<1>6. ASSUME NEW force \in BOOLEAN, Reopen(force, r) PROVE SessionInv'
  <2>1. view.entry \in Entries
    BY <1>6 DEF Reopen, SessionInv, TypeInv, ScreenHasItsData
  <2> QED
    BY <1>1, <1>6, <2>1, DetailStep DEF Reopen
<1> QED
  BY <1>2, <1>3, <1>4, <1>5, <1>6

\* The action of an error.
LEMMA AlertStep ==
  ASSUME SessionInv, NEW r \in Free, FollowAlert(r)
  PROVE  SessionInv'
<1> USE NoneAssumption
<1>1. /\ r \in Requests /\ doubt \subseteq Entries /\ choice \in Choices \cup {None}
      /\ view \in View
      /\ asked \in [where : {"list", "detail", "confirm", "expired"}, entry : Entries \cup {None}]
  BY DEF Free, SessionInv, TypeInv, TypeOK
<1>2. CASE alert = "load" /\ FollowAlert(r)
  <2>1. view.screen = "loadError" /\ view.load \in Reads
    BY <1>2 DEF SessionInv, TypeInv, ControlsOnScreen, ScreenHasItsData
  <2>2. view.load = "list" <=> view.entry = None
    BY <2>1 DEF SessionInv, TypeInv, ScreenHasItsData
  <2>3. /\ asked.where = "list" <=> view.load = "list"
        /\ asked.where \in {"detail", "confirm"} => asked.entry = view.entry
        /\ asked.where = "confirm" => view.load = "recheck"
        /\ asked.where # "expired"
    BY <1>1, <2>1, <2>2 DEF SessionInv, ScreenFollowsNavigation, NavigationFits
  <2>4. view.entry \in Entries \cup {None} /\ view.force \in BOOLEAN
    BY <1>1 DEF View
  <2>5. /\ WithLoading(r, view.load, view.entry, choice, view.force)
        /\ asked' = asked /\ doubt' = doubt
    BY <1>2 DEF FollowAlert
  <2>6. asked' \in [where : {"list", "detail", "confirm"}, entry : Entries \cup {None}]
    BY <1>1, <2>3, <2>5
  <2> QED
    BY <1>1, <2>1, <2>2, <2>3, <2>4, <2>5, <2>6, LoadingStep
<1>3. CASE alert = "recheck" /\ FollowAlert(r)
  <2> DEFINE op == IF view.screen \in {"ambiguous", "bounded"} THEN "recheck" ELSE "detail"
  <2>1. /\ view.screen \in {"resolve", "dismissed", "ambiguous", "bounded"}
        /\ view.entry \in Entries
    BY <1>3 DEF SessionInv, TypeInv, ControlsOnScreen, ScreenHasItsData
  <2>2. /\ asked.where \in {"detail", "confirm"} /\ asked.entry = view.entry
        /\ asked.where = "confirm" => op = "recheck"
    BY <1>1, <2>1 DEF SessionInv, ScreenFollowsNavigation
  <2>3. WithLoading(r, op, view.entry, None, FALSE) /\ asked' = asked /\ doubt' = doubt
    BY <1>3 DEF FollowAlert
  <2>4. asked' \in [where : {"list", "detail", "confirm"}, entry : Entries \cup {None}]
    BY <1>1, <2>2, <2>3
  <2>5. op \in Reads /\ op # "list"
    BY DEF Reads
  <2> HIDE DEF op
  <2> QED
    BY <1>1, <2>1, <2>2, <2>3, <2>4, <2>5, LoadingStep
<1>4. ASSUME alert \in {"entry", "review", "again"}
      PROVE  view.screen = "confirm" /\ view.entry \in Entries
  BY <1>4 DEF SessionInv, TypeInv, ControlsOnScreen, ScreenHasItsData
<1>5. CASE alert \in {"entry", "review"} /\ FollowAlert(r)
  <2>1. NavigateDetail(r, view.entry, alert = "review", None) /\ doubt' \subseteq Entries
    BY <1>1, <1>4, <1>5 DEF FollowAlert
  <2>2. (alert = "review") \in BOOLEAN
    OBVIOUS
  <2> QED
    BY <1>1, <1>4, <1>5, <2>1, <2>2, DetailStep
<1>6. CASE alert = "again" /\ FollowAlert(r)
  <2>1. /\ Mount("confirm", None, view.entry, FALSE) /\ current' = {}
        /\ UNCHANGED <<asked, choice, plan, net, doubt>>
    BY <1>6 DEF FollowAlert
  <2>2. asked.where = "confirm" /\ asked.entry = view.entry
    BY <1>1, <1>4, <1>6 DEF SessionInv, ScreenFollowsNavigation
  <2>3. asked = [where |-> "confirm", entry |-> view.entry]
    BY <1>1, <2>2
  <2> QED
    BY <1>4, <1>6, <2>1, <2>3, ConfirmStep
<1> QED
  BY <1>2, <1>3, <1>5, <1>6 DEF FollowAlert

\* So does every click.
LEMMA UserStep ==
  ASSUME SessionInv, NEW r \in Free, User(r)
  PROVE  SessionInv'
<1> USE NoneAssumption
<1>1. ASSUME NEW c \in Choices, ChangeChoice(c, r) PROVE SessionInv'
  BY <1>1, CheckStep DEF ChangeChoice
<1>2. CASE CheckAgain(r)
  <2>1. view.screen \in {"initial", "resolve"} /\ choice \in Choices
    BY <1>2 DEF CheckAgain, SessionInv, TypeInv, ControlsOnScreen, ScreenHasItsData
  <2> QED
    BY <1>2, <2>1, CheckStep DEF CheckAgain
<1>3. CASE Recreate(r)
  BY <1>3, PressStep DEF Recreate, Buttons
<1>4. ASSUME NEW button \in Buttons, Press(button, r) PROVE SessionInv'
  BY <1>4, PressStep DEF Press, Buttons
<1> QED
  BY <1>1, <1>2, <1>3, <1>4, NavigationStep, AlertStep DEF User

\* "Continue to confirm" takes the plan and the choices along.
LEMMA ContinueStep ==
  ASSUME SessionInv, Continue
  PROVE  SessionInv'
  BY ConfirmStep DEF Continue

-----------------------------------------------------------------------------
(* The theorems. *)

\* boot establishes the invariant.
LEMMA InitInv == Init => SessionInv
<1> SUFFICES ASSUME Init PROVE SessionInv
  OBVIOUS
<1> USE NoneAssumption
<1>1. PICK r \in Requests :
        /\ net = [s \in Requests |-> IF s = r THEN Sent("list", None, None, FALSE) ELSE None]
        /\ current = {r}
  BY DEF Init
<1> DEFINE q == Sent("list", None, None, FALSE)
<1>2. q \in Request /\ q # None
  BY SentTyped DEF Ops, Reads
<1>3. q.op = "list" /\ q.entry = None /\ ~q.handled
  BY DEF Sent
<1>4. net[r] = q /\ \A s \in Requests : net[s] = q \/ net[s] = None
  BY <1>1
<1> HIDE DEF q
<1>5. TypeOK
  <2>1. net \in [Requests -> Request \cup {None}]
    BY <1>1, <1>2 DEF q
  <2>2. current \subseteq Requests \ Free
    BY <1>1, <1>2, <1>4 DEF Free
  <2>3. queue \in Seq(Choices) /\ Len(queue) <= MaxQueue
    BY MaxQueueAssumption DEF Init
  <2>4. view \in View
    BY DEF Init, View, Screens, Reads
  <2>5. asked \in [where : {"list", "detail", "confirm", "expired"}, entry : Entries \cup {None}]
    BY DEF Init
  <2> QED
    BY <2>1, <2>2, <2>3, <2>4, <2>5 DEF Init, TypeOK, Alerts
<1>6. ScreenHasItsData /\ ControlsOnScreen /\ NavigationFits /\ ScreenFollowsNavigation
  BY DEF Init, ScreenHasItsData, ControlsOnScreen, NavigationFits, ScreenFollowsNavigation, Reads
<1>7. RequestsFit /\ ActedOnOnce
  BY <1>3, <1>4 DEF RequestsFit, ActedOnOnce, Free
<1>8. CurrentServesScreen /\ LoadingIsAwaited
  BY <1>1, <1>3, <1>4 DEF Init, CurrentServesScreen, LoadingIsAwaited, Buttons
<1>9. NewestCheckIsForChoice /\ PlanSettlesDoubt /\ PlanMatchesChoices /\ WorkIsAwaited
  BY DEF Init, NewestCheckIsForChoice, PlanSettlesDoubt, PlanMatchesChoices, WorkIsAwaited
<1> QED
  BY <1>5, <1>6, <1>7, <1>8, <1>9 DEF SessionInv, TypeInv

\* The invariant speaks of the variables only.
LEMMA StutterStep ==
  ASSUME SessionInv, UNCHANGED vars
  PROVE  SessionInv'
  BY DEF vars, viewVars, netVars, SessionInv, TypeInv, TypeOK, ScreenHasItsData, ControlsOnScreen,
         NavigationFits, RequestsFit, CurrentServesScreen, NewestCheckIsForChoice,
         PlanSettlesDoubt, ScreenFollowsNavigation, LoadingIsAwaited, WorkIsAwaited,
         PlanMatchesChoices, ActedOnOnce, Free

\* The inductive invariant holds in every state.
THEOREM Invariance == Spec => []SessionInv
<1>1. SessionInv /\ [Next]_vars => SessionInv'
  <2> SUFFICES ASSUME SessionInv, [Next]_vars PROVE SessionInv'
    OBVIOUS
  <2>1. \A r \in Free : r \in Requests
    BY DEF Free
  <2> QED
    BY <2>1, NetworkStep, DeliverStep, UserStep, ContinueStep, StutterStep DEF Next
<1> QED
  BY InitInv, <1>1, PTL DEF Spec

\* Every variable of the component always has its type, and only requests in flight are current.
THEOREM TypeCorrect == Spec => []TypeOK
<1>1. SessionInv => TypeOK
  BY DEF SessionInv, TypeInv
<1> QED
  BY Invariance, <1>1, PTL

\* No answer to an earlier request takes the user away from where the newest navigation led.
THEOREM NavigationWins == Spec => []ScreenFollowsNavigation
<1>1. SessionInv => ScreenFollowsNavigation
  BY DEF SessionInv
<1> QED
  BY Invariance, <1>1, PTL

\* A loading placeholder waits for a request whose answer will be accepted.
THEOREM LoadingWaits == Spec => []LoadingIsAwaited
<1>1. SessionInv => LoadingIsAwaited
  BY DEF SessionInv
<1> QED
  BY Invariance, <1>1, PTL

\* So does "Recreating...", and the first check of an entry.
THEOREM WorkWaits == Spec => []WorkIsAwaited
<1>1. SessionInv => WorkIsAwaited
  BY DEF SessionInv
<1> QED
  BY Invariance, <1>1, PTL

\* A plan shown as up to date is the plan of the choices beside it, however long the queue of
\* checks that preflightQueue holds.
THEOREM PlanIsForChoices == Spec => []PlanMatchesChoices
<1>1. SessionInv => PlanMatchesChoices
  BY DEF SessionInv
<1> QED
  BY Invariance, <1>1, PTL

\* A request the server may have acted on leaves the browser once.
THEOREM SentOnce == Spec => []ActedOnOnce
<1>1. SessionInv => ActedOnOnce
  BY DEF SessionInv
<1> QED
  BY Invariance, <1>1, PTL

\* The checks of a mounted resolve view reach the server one after the other.
THEOREM ChecksAreOrdered == Spec => ChecksInOrder
<1> DEFINE Ordered ==
             view.screen = "resolve" /\ view' = view /\ running # None /\ running' # running
               => Arrived(running)
<1>1. SessionInv /\ [Next]_vars => [Ordered]_vars
  <2> SUFFICES ASSUME SessionInv, Next, view.screen = "resolve", view' = view, running # None,
                      running' # running
               PROVE  Arrived(running)
    BY Zenon
  <2>1. /\ \A s, l, e, f : Mount(s, l, e, f) => s = "resolve"
        /\ \A s, e : MountPlain(s, e) => s = "resolve"
        /\ \A r, op, e, c, f : ~WithLoading(r, op, e, c, f)
    BY DEF Mount, MountPlain, WithLoading
  <2>2. /\ \A r, e, f, d : ~NavigateDetail(r, e, f, d)
        /\ \A r : ~NavigateList(r) /\ ~NavigateExpired(r)
    BY <2>1 DEF NavigateDetail, NavigateList, NavigateExpired
  <2>3. ASSUME NEW r \in Requests,
               \/ Unauthorized(r) \/ Refresh(r) \/ Handle(r) \/ HandleClaims(r)
               \/ HandleFinishes(r) \/ Lose(r)
        PROVE  FALSE
    BY <2>3 DEF Unauthorized, Refresh, Handle, HandleClaims, HandleFinishes, Lose, viewVars
  <2>4. ASSUME NEW r \in Requests, DropLate(r) \/ CheckEnds(r) PROVE Arrived(running)
    BY <2>4 DEF DropLate, CheckEnds
  <2>5. ASSUME NEW r \in Requests,
               ShowExpired(r) \/ ShowLoadError(r) \/ ShowList(r) \/ FirstCheckEnds(r)
        PROVE  FALSE
    BY <2>1, <2>2, <2>5 DEF ShowExpired, ShowLoadError, ShowList, FirstCheckEnds
  <2>6. ASSUME NEW r \in Requests, RouteDetail(r) PROVE FALSE
    <3>1. OpenShell(r) => view' = [screen |-> "initial", load |-> None, entry |-> net[r].entry,
                                   force |-> FALSE]
      BY Zenon DEF OpenShell
    <3>2. ASSUME NEW shown \in {<<"RECREATED", "success">>, <<"FAILED", "failed">>,
                                <<"RECREATING", "recreating">>, <<"DISMISSED", "dismissed">>}
          PROVE  shown[2] # "resolve"
      OBVIOUS
    <3>3. ~OpenShell(r)
      BY <3>1
    <3> QED
      BY <2>1, <2>6, <3>2, <3>3 DEF RouteDetail
  <2>7. ASSUME NEW r \in Requests, ShowAmbiguous(r) PROVE FALSE
    <3>1. ASSUME NEW a, NEW e,
                 NEW s \in IF a = "readonly" THEN {"readonly"} ELSE {"ambiguous", "bounded"},
                 MountPlain(s, e)
          PROVE  FALSE
      BY <2>1, <3>1
    <3> QED
      BY <2>1, <2>2, <2>7 DEF ShowAmbiguous
  <2>8. ASSUME NEW r \in Requests, RecreateEnds(r) \/ ButtonEnds(r) PROVE FALSE
    <3>1. \A b, o : ~Restore(r, b, o)
      BY DEF Restore
    <3> QED
      BY <2>1, <2>2, <2>8, <3>1 DEF RecreateEnds, RecreateLost, RecreateRefused, ButtonEnds
  <2>9. ASSUME NEW r \in Free, User(r) PROVE FALSE
    <3>1. \A c : ~RunPreflight(c, r)
      BY DEF RunPreflight, Queued
    <3>2. \A button : ~BusyAction(button, r)
      BY DEF BusyAction
    <3>3. ~FollowAlert(r)
      BY <2>1, <2>2 DEF FollowAlert
    <3> QED
      BY <2>1, <2>2, <2>9, <3>1, <3>2, <3>3
         DEF User, OpenEntry, OpenRelated, Back, BackToEntry, CheckStatus, Reopen, ChangeChoice,
             CheckAgain, Recreate, Press
  <2>10. ~Continue
    BY <2>1 DEF Continue
  <2> QED
    BY <2>3, <2>4, <2>5, <2>6, <2>7, <2>8, <2>9, <2>10 DEF Next, Deliver
<1>2. Spec => [][Ordered]_vars
  BY Invariance, <1>1, PTL DEF Spec
<1> QED
  BY <1>2 DEF ChecksInOrder

\* After a recreation in doubt, the next one has a plan the server made since.
THEOREM DoubtNeedsNewPlan == Spec => NoBlindRecreate
<1> DEFINE NotBlind == \A e \in doubt : \A r \in Requests :
             net[r] = None => ~(net'[r] # None /\ net'[r].op = "recreate" /\ net'[r].entry = e)
<1>1. SessionInv /\ [Next]_vars => [NotBlind]_vars
  <2> SUFFICES ASSUME SessionInv, Next, NEW e \in doubt, NEW s \in Requests, net[s] = None,
                      net'[s] # None, net'[s].op = "recreate", net'[s].entry = e
               PROVE  FALSE
    BY Zenon
  <2>1. net \in [Requests -> Request \cup {None}]
    BY DEF SessionInv, TypeInv, TypeOK
  <2>2. ASSUME NEW r \in Requests, NEW q, net' = [net EXCEPT ![r] = q] PROVE r = s /\ net'[s] = q
    BY <2>1, <2>2
  <2>3. ASSUME NEW r \in Requests, NEW op, NEW f, NEW c, NEW force, BeginRequest(r, op, f, c, force)
        PROVE  r = s /\ op = "recreate" /\ f = e
    BY <2>2, <2>3 DEF BeginRequest, Sent
  <2>4. /\ net' # net
        /\ \A r \in Requests : \A f, c, force : ~BeginRequest(r, "preflight", f, c, force)
    BY <2>1, <2>3
  <2>5. ASSUME NEW r \in Requests, Settle(r) PROVE FALSE
    BY <2>1, <2>5 DEF Settle
  <2>6. \A r \in Requests : \A f, c, force : \A op \in Reads : ~WithLoading(r, op, f, c, force)
    BY <2>3 DEF WithLoading, Reads
  <2>7. \A r \in Requests : \A f, force, d : /\ ~NavigateDetail(r, f, force, d)
                                             /\ ~NavigateList(r) /\ ~NavigateExpired(r)
    BY <2>1, <2>6 DEF NavigateDetail, NavigateList, NavigateExpired, Reads
  <2>8. ASSUME NEW r \in Requests,
               \/ Unauthorized(r) \/ Refresh(r) \/ Handle(r) \/ HandleClaims(r)
               \/ HandleFinishes(r) \/ Lose(r)
        PROVE  FALSE
    <3>1. net[r] # None
      BY <2>8 DEF Unauthorized, Refresh, Handle, HandleClaims, HandleFinishes, Lose, Reached
    <3>2. \A t \in Requests \ {r} : net'[t] = net[t]
      BY <2>1, <2>8 DEF Unauthorized, Refresh, Handle, HandleClaims, HandleFinishes, Lose, Stage,
                        Answer
    <3> QED
      BY <3>1, <3>2
  <2>9. ASSUME NEW r \in Requests, DropLate(r) \/ CheckEnds(r) PROVE FALSE
    <3>1. ~EndRun(r)
      BY <2>4, <2>5 DEF EndRun
    <3> QED
      BY <2>5, <2>9, <3>1 DEF DropLate, CheckEnds
  <2>10. ASSUME NEW r \in Requests,
                \/ ShowExpired(r) \/ ShowLoadError(r) \/ ShowList(r) \/ FirstCheckEnds(r)
                \/ RouteDetail(r) \/ ShowAmbiguous(r)
         PROVE  FALSE
    <3>1. ~OpenShell(r)
      BY <2>4, Zenon DEF OpenShell
    <3> QED
      BY <2>5, <2>6, <2>7, <2>10, <3>1
         DEF ShowExpired, ShowLoadError, ShowList, FirstCheckEnds, RouteDetail, ShowAmbiguous, Reads
  <2>11. ASSUME NEW r \in Requests, RecreateEnds(r) \/ ButtonEnds(r) PROVE FALSE
    <3>1. \A b, o : ~Restore(r, b, o)
      BY <2>5 DEF Restore
    <3> QED
      BY <2>5, <2>6, <2>7, <2>11, <3>1
         DEF RecreateEnds, RecreateLost, RecreateRefused, ButtonEnds, Reads
  <2>12. ASSUME NEW r \in Free, User(r) PROVE FALSE
    <3>1. r \in Requests
      BY DEF Free
    <3>2. \A c : ~RunPreflight(c, r)
      BY <2>4, <3>1 DEF RunPreflight, netVars
    <3>3. ASSUME NEW button \in Buttons, BusyAction(button, r)
          PROVE  button = "recreate" /\ view.entry = e
      BY <2>3, <3>1, <3>3 DEF BusyAction
    <3>4. ~Recreate(r)
      BY <3>3 DEF Recreate, Buttons, SessionInv, PlanSettlesDoubt
    <3>5. ASSUME NEW button \in Buttons, Press(button, r) PROVE FALSE
      BY <3>3, <3>5 DEF Press
    <3>6. ~FollowAlert(r)
      <4>1. CASE alert = "load" /\ FollowAlert(r)
        <5>1. view.load \in Reads
          BY <4>1 DEF SessionInv, TypeInv, ControlsOnScreen, ScreenHasItsData
        <5> QED
          BY <2>6, <3>1, <4>1, <5>1 DEF FollowAlert
      <4> QED
        BY <2>4, <2>6, <2>7, <3>1, <4>1 DEF FollowAlert, Reads
    <3> QED
      BY <2>6, <2>7, <2>12, <3>1, <3>2, <3>4, <3>5, <3>6
         DEF User, OpenEntry, OpenRelated, Back, BackToEntry, CheckStatus, Reopen, ChangeChoice,
             CheckAgain, Reads
  <2>13. ~Continue
    BY <2>4 DEF Continue
  <2> QED
    BY <2>8, <2>9, <2>10, <2>11, <2>12, <2>13 DEF Next, Deliver
<1>2. Spec => [][NotBlind]_vars
  BY Invariance, <1>1, PTL DEF Spec
<1> QED
  BY <1>2 DEF NoBlindRecreate
=============================================================================
