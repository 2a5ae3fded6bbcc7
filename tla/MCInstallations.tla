--------------------------- MODULE MCInstallations ---------------------------
(* Small instances of Installations for TLC. *)
EXTENDS InstallationsInvariant, TLC

\* Nothing but equality is asked of any of these.
MCSymmetry ==
  Permutations(Generations) \cup Permutations(Handlers) \cup Permutations(AuthTokens)
    \cup Permutations(SourceIds)
=============================================================================
