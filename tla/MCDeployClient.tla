--------------------------- MODULE MCDeployClient ---------------------------
(***************************************************************************)
(* DeployClient for TLC: concurrent requests, tokens that live a few units  *)
(* of time, and deploy-service rejecting what it issued.                    *)
(***************************************************************************)
EXTENDS DeployClient, TLC

CONSTANTS c1, c2, c3

TwoTasks == {c1, c2}
ThreeTasks == {c1, c2, c3}
Symmetry == Permutations(ThreeTasks)
=============================================================================
