-------------------------- MODULE MCTerraformState --------------------------
(* Runs of both pipelines on one state.                                     *)
EXTENDS TerraformState, TLC

CONSTANTS a, b, g, d, e1

\* The deployments may be exchanged; only safety is checked.
Deployments == Permutations({a, b})
=============================================================================
