------------------------- MODULE ResolutionInvariant -------------------------
(***************************************************************************)
(* The inductive invariant of Resolution: what the widgets, the stored     *)
(* plan and the confirmation know of each other.                           *)
(***************************************************************************)
EXTENDS Resolution

\* An optional field is asked about only because the deleted entry has a value for it, so "keep
\* the value" has one to keep.
KeepsHaveValues(k) ==
  \A i \in k : i.rule = "P-CF-OPT" => Usable(slice.source.values[i.ref])

\* Choices and the items they were made from, on screen or stored in a plan.
Held(c, k) == StaysEditable(c, k) /\ KeepsHaveValues(k)

\* Each item of l has one of the same rule and reference in k.
Covers(k, l) == \A i \in l : \E j \in k : SameItem(i, j)

\* The plan asks for whatever the screen does: what is stored can be opened again.
PlanKeepsItems ==
  /\ plan # None => Held(plan.choices, plan.editable) /\ Covers(plan.editable, known)
  /\ plan = None => known = {}

\* A plan is on screen where one is needed, and nothing is open when it is confirmed and sent.
ConfirmedIsSettled ==
  /\ screen \in {"detail", "confirm"} => plan # None
  /\ screen = "confirm" => CanConfirm(plan)
  /\ sent # None => CanConfirm(sent)

\* The plan on screen was admitted for this viewer, and all it asks for is there.
ScreenAsks ==
  screen = "detail" =>
    /\ plan.admin = admin
    /\ Admitted(plan.choices, plan.ws, admin)
    /\ Covers(known, Outcome(plan).open)

ResolutionInv ==
  TypeOK /\ Held(choices, known) /\ PlanKeepsItems /\ ConfirmedIsSettled /\ ScreenAsks
=============================================================================
