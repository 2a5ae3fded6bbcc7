--------------------------- MODULE UiListInvariant ---------------------------
(***************************************************************************)
(* The inductive invariant of UiList: what waits on a mounted screen, and  *)
(* what the one request its answer can come from was sent with.            *)
(***************************************************************************)
EXTENDS UiList

\* What a screen waits for belongs to it.
WaitsOnScreen ==
  /\ busy \cap {"more", "prepare"} # {} => screen = "list"
  /\ "recreate" \in busy => screen = "review"
  /\ refreshing => screen = "review"

\* At most one request is current, and the mounted screen waits for it.  While it is a bulk
\* recreation, nothing of what was confirmed changes.
CurrentServesScreen ==
  /\ \A q, r \in current : q = r
  /\ \A r \in current :
       /\ net[r].op = "list" => screen = "loading"
       /\ net[r].op = "more" => screen = "list" /\ listed.page < LastPage
       /\ net[r].op = "prepare" => "prepare" \in busy
       /\ net[r].op = "refresh" => refreshing
       /\ net[r].op = "recreate" =>
            "recreate" \in busy /\ net[r].ids = sent /\ SelectedReady = sent

ListInv ==
  TypeOK /\ WaitsOnScreen /\ CurrentServesScreen /\ WaitIsAwaited /\ ResultsCoverSent
=============================================================================
