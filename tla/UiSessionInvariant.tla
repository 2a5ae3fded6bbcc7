-------------------------- MODULE UiSessionInvariant --------------------------
(***************************************************************************)
(* The inductive invariant of UiSession: what a mounted screen holds, and  *)
(* what the requests it may still use have to do with it.                  *)
(***************************************************************************)
EXTENDS UiSession

\* A button that shows progress, and an error with its action, are on a screen that has them.
ControlsOnScreen ==
  /\ "recreate" \in busy => view.screen = "confirm"
  /\ "dismiss" \in busy => view.screen = "resolve"
  /\ "undismiss" \in busy => view.screen = "dismissed"
  /\ "reconcile" \in busy => view.screen = "ambiguous"
  /\ "mark" \in busy => view.screen = "bounded"
  /\ "resolve" \in busy => view.screen \in {"ambiguous", "bounded"}
  /\ alert = "load" => view.screen = "loadError"
  /\ alert = "choices" => view.screen \in {"initial", "resolve"}
  /\ alert = "recheck" => view.screen \in {"resolve", "dismissed", "ambiguous", "bounded"}
  /\ alert \in {"entry", "review", "again"} => view.screen = "confirm"

\* A screen has the data its controls need, and nothing of another screen.
ScreenHasItsData ==
  /\ view.screen \in {"loading", "loadError"} => view.load \in Reads
  /\ IF \/ view.screen \in {"list", "expired"}
        \/ view.screen \in {"loading", "loadError"} /\ view.load = "list"
     THEN view.entry = None
     ELSE view.entry \in Entries
  /\ view.screen \in {"initial", "resolve", "confirm"} => choice \in Choices
  /\ view.screen \in {"resolve", "confirm"} => plan \in Plan

\* The navigation "confirm" reads nothing but the entry's check evidence.
NavigationFits ==
  /\ asked.where \in {"detail", "confirm"} => asked.entry \in Entries
  /\ asked.where = "confirm" /\ view.screen \in {"loading", "loadError"} => view.load = "recheck"

\* A request is about what its answer will be shown for.
RequestsFit ==
  \A r \in Requests \ Free :
    /\ net[r].op = "list" <=> net[r].entry = None
    /\ net[r].op = "preflight" => net[r].choice \in Choices

\* At most one request is current, and it is one the mounted screen waits for.
CurrentServesScreen ==
  /\ \A q, r \in current : q = r
  /\ \A r \in current :
       /\ net[r].op \in Reads =>
            view.screen = "loading" /\ net[r].op = view.load /\ net[r].entry = view.entry
       /\ net[r].op \in Buttons => net[r].op \in busy /\ net[r].entry = view.entry
       /\ net[r].op = "preflight" => r = running

\* The newest check of the mounted shell, in flight or last in its queue, is for the choices shown.
NewestCheckIsForChoice ==
  /\ running # None =>
       /\ view.screen \in {"initial", "resolve"} /\ checking
       /\ running \notin Free /\ net[running].op = "preflight" /\ net[running].entry = view.entry
       /\ queue = <<>> => net[running].choice = choice
  /\ queue # <<>> => view.screen = "resolve" /\ running # None /\ queue[Len(queue)] = choice

\* The plan that can be confirmed is younger than any recreation in doubt.
PlanSettlesDoubt == view.screen \in {"resolve", "confirm"} => view.entry \notin doubt

TypeInv == TypeOK /\ ScreenHasItsData /\ ControlsOnScreen /\ RequestsFit

SessionInv ==
  /\ TypeInv
  /\ NavigationFits
  /\ CurrentServesScreen
  /\ NewestCheckIsForChoice
  /\ PlanSettlesDoubt
  /\ ScreenFollowsNavigation
  /\ LoadingIsAwaited
  /\ WorkIsAwaited
  /\ PlanMatchesChoices
  /\ ActedOnOnce
=============================================================================
