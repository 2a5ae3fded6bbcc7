--------------------------- MODULE EntryLifecycle ---------------------------
(***************************************************************************)
(* What a deleted entry goes through, as the user and the documents see    *)
(* it: docs/06 and docs/08 without plans, claims, tokens, leases, attempts,*)
(* checks, handlers and crashes.  An entry has a state, at most one time   *)
(* entry that replaces it, and possibly a doubt: a create request that may *)
(* have been obeyed although nobody knows its result.  The promise is that *)
(* an entry in doubt is never recreated again, and that only an answer of  *)
(* Clockify, a time entry that was found, or the user ends a doubt.        *)
(*                                                                         *)
(* RecreationRefinement shows that Recreation implements this module.      *)
(***************************************************************************)

CONSTANTS Entries, ClockifyIds, None

VARIABLES
  state,  \* lifecycle_state
  link,   \* new_entry_id
  doubt   \* a create left whose result the state does not show

vars == <<state, link, doubt>>

Actionable == {"IDLE", "FAILED"}

\* Rows start as the webhook inserts them; an older release can have left one RECREATING.
Init ==
  /\ state \in [Entries -> {"IDLE", "RECREATING"}]
  /\ link = [e \in Entries |-> None]
  /\ doubt \in [Entries -> BOOLEAN]
  /\ \A e \in Entries : doubt[e] => state[e] = "RECREATING"

Becomes(e, s) == state' = [state EXCEPT ![e] = s]

\* A confirmed plan takes the entry, unless its last create is still in doubt.
Claim(e) ==
  /\ state[e] \in Actionable
  /\ ~doubt[e]
  /\ Becomes(e, "RECREATING")
  /\ UNCHANGED <<link, doubt>>

\* Nothing was sent, or what was sent was rejected: the entry can be tried again.
Release(e) ==
  /\ state[e] = "RECREATING"
  /\ ~doubt[e]
  /\ \E s \in Actionable : Becomes(e, s)
  /\ UNCHANGED <<link, doubt>>

\* The create leaves.
Send(e) ==
  /\ state[e] = "RECREATING"
  /\ ~doubt[e]
  /\ doubt' = [doubt EXCEPT ![e] = TRUE]
  /\ UNCHANGED <<state, link>>

\* Clockify answers that it did not create.
Reject(e) ==
  /\ state[e] = "RECREATING"
  /\ doubt[e]
  /\ Becomes(e, "FAILED")
  /\ doubt' = [doubt EXCEPT ![e] = FALSE]
  /\ UNCHANGED link

\* The new time entry is known: by the answer, by a check, by the user's pick, or after a restart.
Succeed(e, c) ==
  /\ state[e] \in {"RECREATING", "AMBIGUOUS"}
  /\ doubt[e]
  /\ \A f \in Entries \ {e} : link[f] # c
  /\ Becomes(e, "RECREATED")
  /\ link'  = [link EXCEPT ![e] = c]
  /\ doubt' = [doubt EXCEPT ![e] = FALSE]

\* The answer is lost.
LoseTrack(e) ==
  /\ state[e] = "RECREATING"
  /\ doubt[e]
  /\ Becomes(e, "AMBIGUOUS")
  /\ UNCHANGED <<link, doubt>>

\* The user decides that nothing was created.
MarkNotCreated(e) ==
  /\ state[e] = "AMBIGUOUS"
  /\ Becomes(e, "IDLE")
  /\ doubt' = [doubt EXCEPT ![e] = FALSE]
  /\ UNCHANGED link

Dismiss(e) ==
  /\ state[e] \in Actionable
  /\ Becomes(e, "DISMISSED")
  /\ UNCHANGED <<link, doubt>>

Undismiss(e) ==
  /\ state[e] = "DISMISSED"
  /\ Becomes(e, "IDLE")
  /\ UNCHANGED <<link, doubt>>

Step(e) ==
  \/ Claim(e)
  \/ Release(e)
  \/ Send(e)
  \/ Reject(e)
  \/ \E c \in ClockifyIds : Succeed(e, c)
  \/ LoseTrack(e)
  \/ MarkNotCreated(e)
  \/ Dismiss(e)
  \/ Undismiss(e)

Next == \E e \in Entries : Step(e)

Spec == Init /\ [][Next]_vars

-----------------------------------------------------------------------------
(* What the promise amounts to. *)

\* No two entries are replaced by the same time entry.
LinksDistinct ==
  \A e, f \in Entries : e # f /\ link[e] # None => link[e] # link[f]
=============================================================================
