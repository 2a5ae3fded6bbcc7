----------------------- MODULE InstallationsInvariant -----------------------
(* The inductive invariant of Installations. *)
EXTENDS Installations

\* What the local variables of a handler hold at each stage.
JobsTyped ==
  \A h \in Handlers :
    /\ pc[h] # "idle" => job[h].gen \in Generations
    /\ pc[h] \in {"stamping", "saving", "calling"} => job[h].token \in AuthTokens
    /\ pc[h] = "verifying" => job[h].source \in SourceIds

\* TypeOK alone is not inductive: an index may be a local variable.
TypeInv == TypeOK /\ JobsTyped

\* Whatever lost its row here is on record, and an INSTALLED that came after that is known for it.
PurgesRecorded ==
  /\ purged \subseteq retired
  /\ \A h \in Handlers : job[h].wasPurged => job[h].gen \in purged

\* Stages in which a delivery or a request knows a stamp and the token that goes with it.
Stamped == {"saving", "cleaning", "calling"}

\* A stamp identifies a token: whoever remembers the stamp of a row remembers its token.
StampsAgree ==
  /\ \A g \in Generations : installedAt[g] <= clock
  /\ \A h \in Handlers : pc[h] \in Stamped =>
       /\ job[h].stamp <= clock
       /\ SameConnection(job[h].gen, job[h].stamp) => authToken[job[h].gen] = job[h].token
       /\ \A k \in Handlers :
            /\ pc[k] \in Stamped
            /\ job[k].gen = job[h].gen /\ job[k].stamp = job[h].stamp
            => job[k].token = job[h].token

Inv == TypeInv /\ EntriesHaveInstallation /\ OneLiveGeneration /\ PurgesRecorded /\ StampsAgree
=============================================================================
