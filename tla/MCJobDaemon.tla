---------------------------- MODULE MCJobDaemon ----------------------------
(* Small instances of JobDaemon for TLC.                                   *)
EXTENDS JobDaemon, TLC

CONSTANTS j1, j2, repo1, repo2

OneRepo  == [j \in Jobs |-> repo1]
OwnRepos == (j1 :> repo1) @@ (j2 :> repo2)

\* Sound where all jobs share a repository.
Symmetry == Permutations(Jobs)
=============================================================================
