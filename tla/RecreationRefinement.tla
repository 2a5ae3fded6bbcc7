------------------------ MODULE RecreationRefinement ------------------------
(***************************************************************************)
(* Recreation implements EntryLifecycle: the state and the link are        *)
(* columns; the doubt is an attempt that neither an outcome of Clockify    *)
(* nor the user's "not created" has settled.                               *)
(***************************************************************************)
EXTENDS RecreationInvariant

\* An attempt whose create may have been obeyed while the entry does not show it.
InDoubt(e) ==
  \E a \in Attempts(e) \ marked :
    \/ outcome[a] \in {"open", "AMBIGUOUS"}
    \/ outcome[a] = "SUCCESS" /\ life[e] = "RECREATING"

Doubts == [e \in Entries |-> InDoubt(e)]

Lifecycle == INSTANCE EntryLifecycle WITH
  state <- life, link <- newEntryId, doubt <- Doubts

\* With all its plans, leases, crashes and concurrent handlers, the protocol is what docs/06 and
\* docs/08 say of an entry: in doubt it is never claimed again, and a doubt ends only with a
\* rejection, a link that no other entry has, or the user's decision.
ImplementsLifecycle == Lifecycle!Spec

-----------------------------------------------------------------------------
(* What the mapping needs beyond Inv: marks are about the past, and links  *)
(* agree with attempts.                                                    *)

\* A "not created" is about an attempt that no claim and no unknown result rests on; the attempt
\* under a claim is one of the claimed entry.
MarksSettled ==
  /\ marked \subseteq issued
  /\ \A e \in Entries :
       /\ claimToken[e] \notin marked
       /\ life[e] = "AMBIGUOUS" => latest[e] \notin marked
       /\ claimToken[e] # None /\ outcome[claimToken[e]] # "unstarted" =>
            attemptEntry[claimToken[e]] = e

\* A successful attempt names a time entry, and its entry shows the same one.
LinksAgree ==
  /\ \A a \in Tokens : outcome[a] = "SUCCESS" => attemptNewId[a] # None
  /\ RecreatedMatchesAttempt

FullInv == Inv /\ MarksSettled /\ LinksAgree

\* All that is proved inductive about the protocol.
ProtocolInv == FullInv /\ PlanInv /\ BaselineInv
=============================================================================
