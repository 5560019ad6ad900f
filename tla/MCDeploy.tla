------------------------------ MODULE MCDeploy ------------------------------
(* Small instances of Deploy for TLC.                                      *)
EXTENDS Deploy, TLC

Symmetry == Permutations(Deployments)

=============================================================================
