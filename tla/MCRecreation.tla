---------------------------- MODULE MCRecreation ----------------------------
(* Small instances of Recreation for TLC. *)
EXTENDS RecreationRefinement, TLC

CONSTANTS fp  \* the one fingerprint

\* Every planned request looks the same: the hardest case for the checks.
MCFingerprintOf == [e \in Entries |-> fp]

\* Handlers, plan ids, tokens and Clockify ids are interchangeable.
MCSymmetry ==
  Permutations(Handlers) \cup Permutations(PlanIds) \cup Permutations(Tokens)
    \cup Permutations(ClockifyIds) \cup Permutations(Entries)

\* The legacy plan is not interchangeable with the others.
MCLegacySymmetry ==
  Permutations(PlanIds \ LegacyPlans) \cup Permutations(Tokens) \cup Permutations(Handlers)
    \cup Permutations(ClockifyIds) \cup Permutations(Entries)
=============================================================================
