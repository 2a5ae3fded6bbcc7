----------------------------- MODULE MCUiSession -----------------------------
(* Small instances of UiSession for TLC. *)
EXTENDS UiSessionInvariant, TLC

\* Entries, choices and slots are interchangeable.
MCSymmetry == Permutations(Entries) \cup Permutations(Choices) \cup Permutations(Requests)
=============================================================================
