------------------------------- MODULE MCIndex -------------------------------
(***************************************************************************)
(* Small instances of IndexClient.                                         *)
(***************************************************************************)
EXTENDS IndexClient, TLC

\* Callers are interchangeable, and so are the allowed repositories.
Symmetry == Permutations(Callers) \cup Permutations(AllowedRepos)
=============================================================================
