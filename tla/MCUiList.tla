------------------------------ MODULE MCUiList ------------------------------
(* Small instances of UiList for TLC. *)
EXTENDS UiListInvariant, TLC

CONSTANTS e1, e2  \* entries

\* One entry per page.
MCPageOf == [e \in Entries |-> IF e = e2 THEN 2 ELSE 1]

\* Slots are interchangeable.
MCSymmetry == Permutations(Requests)
=============================================================================
