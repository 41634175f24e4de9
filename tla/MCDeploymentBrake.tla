------------------------- MODULE MCDeploymentBrake -------------------------
(* Two processes that enroll and sign, and Idunn; for TLC.  Processes and   *)
(* identities are interchangeable.                                          *)
EXTENDS DeploymentBrake, TLC

Symmetry == Permutations(Processes) \cup Permutations(Identities)
=============================================================================
