-------------------------- MODULE MCLeaderElection --------------------------
(* Instances of LeaderElection for TLC.                                    *)
EXTENDS LeaderElection, TLC

CONSTANTS c1, c2

Symmetry == Permutations(Candidates)
=============================================================================
