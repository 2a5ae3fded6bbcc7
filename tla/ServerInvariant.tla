-------------------------- MODULE ServerInvariant --------------------------
(***************************************************************************)
(* The inductive invariant behind Server's safety properties.              *)
(***************************************************************************)
EXTENDS Server

\* A create that has been accepted, may have been, or still may be.
Unsettled == {"open", "AMBIGUOUS", "SUCCESS"}

\* A claim belongs to a RECREATING entry, and its attempt has no outcome.
ClaimsAgree ==
  \A e \in Entries :
    /\ life[e] = "RECREATING" <=> claim[e] \in Batches
    /\ claim[e] \in Batches => outcome[claim[e]][e] \in {"unstarted", "open"}

\* An attempt starts with its request, and its outcome is what Clockify did.
AttemptsAgree ==
  \A b \in Batches, e \in Entries :
    /\ outcome[b][e] = "unstarted" <=> wire[b][e] = "unsent"
    /\ outcome[b][e] = "FAILED" => wire[b][e] = "rejected"
    /\ outcome[b][e] = "SUCCESS" => /\ wire[b][e] = "applied"
                                    /\ life[e] = "RECREATED"
                                    /\ newEntry[e] = b

\* The entry of an unsettled attempt is not to be had, and it has no other unsettled attempt.
UnsettledAgree ==
  /\ \A b \in Batches, e \in Entries :
       outcome[b][e] \in Unsettled => \/ claim[e] = b
                                      \/ life[e] \in {"AMBIGUOUS", "RECREATED"}
  /\ \A e \in Entries, b, c \in Batches :
       outcome[b][e] \in Unsettled /\ outcome[c][e] \in Unsettled => b = c

\* What a handler may still do depends on what its attempt has come to.
HandlerAgrees(b) ==
  /\ stage[b] \in {"revalidating", "baseline", "creating", "verifying", "checking"}
       => row[b] \in Entries /\ row[b] \notin todo[b] /\ rows[b][row[b]] = None
  /\ stage[b] \in {"revalidating", "baseline"}
       => outcome[b][row[b]] = "unstarted" /\ seen[b][row[b]].life \in Actionable
  /\ stage[b] = "creating"  => outcome[b][row[b]] \in {"open", "AMBIGUOUS"}
  /\ stage[b] = "verifying" => outcome[b][row[b]] = "SUCCESS"
  /\ stage[b] = "checking"  => outcome[b][row[b]] = "AMBIGUOUS"
  /\ stage[b] = "new" => \A e \in Entries : outcome[b][e] = "unstarted" /\ rows[b][e] = None
  /\ \A e \in todo[b] : outcome[b][e] = "unstarted" /\ rows[b][e] = None

HandlersAgree == \A b \in Batches : HandlerAgrees(b)

\* What a row says is what its attempt came to; only an unknown result may still change.
RowAgrees(b, e) ==
  /\ rows[b][e] = "ERROR"     => outcome[b][e] = "unstarted"
  /\ rows[b][e] = "FAILED"    => outcome[b][e] = "FAILED"
  /\ rows[b][e] = "RECREATED" => outcome[b][e] = "SUCCESS"
  /\ rows[b][e] = "AMBIGUOUS" => outcome[b][e] # "FAILED"

RowsAgree == \A b \in Batches, e \in Entries : RowAgrees(b, e)

IInv ==
  /\ TypeOK /\ ClaimsAgree /\ AttemptsAgree /\ UnsettledAgree /\ HandlersAgree /\ RowsAgree
=============================================================================
