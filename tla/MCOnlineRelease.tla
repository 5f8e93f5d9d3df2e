--------------------------- MODULE MCOnlineRelease ---------------------------
(* Releases of one private endpoint by three workflow runs.                 *)
EXTENDS OnlineRelease, TLC

CONSTANTS r1, r2, r3, d1, d2

\* The first and the last run share a deployment name.
MixedNames == [r \in Runs |-> IF r = r2 THEN d2 ELSE d1]

\* These two may be exchanged; only safety is checked.
SameNames == Permutations({r1, r3})
=============================================================================
