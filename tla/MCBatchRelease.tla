--------------------------- MODULE MCBatchRelease ---------------------------
(* Releases of one endpoint by two or three workflow runs.                  *)
EXTENDS BatchRelease, TLC

CONSTANTS r1, r2, r3, d1, d2, e1, e2

\* Every run releases the same deployment name...
OneName == [r \in Runs |-> d1]
\* ...or two of three share a name.
MixedNames == [r \in Runs |-> IF r = r2 THEN d2 ELSE d1]

\* The environment and script: r1 and r3, of one name, differ by their model
\* only, which the verification does not look at.
Sources == [r \in Runs |-> IF r = r2 THEN e2 ELSE e1]
=============================================================================
