------------------------- MODULE MCEnvironmentImport -------------------------
(* Imports of two registry environments whose workspace names coincide, one *)
(* built from up to two blobs, the other an image.                          *)
EXTENDS EnvironmentImport, TLC

CONSTANTS r1, r2, r3, uri, fullId, imageUri, built, image, target, small, large

\* Two imports of the build context and one of the image.
Colliding == [r \in Runs |-> IF r = r3 THEN imageUri ELSE uri]
\* One import by the short reference, the other by the full resource ID.
TwoSpellings == [r \in Runs |-> IF r = r1 THEN uri ELSE fullId]
FullIdOnly == [r \in Runs |-> fullId]

Named == [ref \in {uri, fullId, imageUri} |-> IF ref = imageUri THEN image ELSE built]
OneTarget == [s \in {built, image} |-> target]
Lengths == [c \in {small, large} |-> IF c = small THEN 1 ELSE 2]
=============================================================================
