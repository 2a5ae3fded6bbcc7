---- MODULE MCReconcile ----
(* A small instance of Reconcile for TLC. *)
EXTENDS Reconcile, TLC

\* Handlers are interchangeable, and so are copies that are linked nowhere.
MCSymmetry == Permutations(Handlers) \cup Permutations(Copies \ Taken)
====
