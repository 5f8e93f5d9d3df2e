--------------------------- MODULE MCTrainRegister ---------------------------
(* Two runs that register under one model name, or one.                     *)
EXTENDS TrainRegister

Line(isError, length) == [error |-> isError, length |-> length]

\* A trace of two errors (13 characters), a log whose only error is past what is
\* read of it (5), a log that cannot be read, a file that is no log (2) and an
\* empty one.
Shapes ==
  {[log |-> TRUE, readable |-> TRUE,
    lines |-> [k \in 1 .. 6 |-> Line(k \in {2, 6}, 1)], read |-> 6],
   [log |-> TRUE, readable |-> TRUE,
    lines |-> [k \in 1 .. 5 |-> Line(k = 5, 1)], read |-> 4],
   [log |-> TRUE, readable |-> FALSE, lines |-> <<>>, read |-> 0],
   [log |-> FALSE, readable |-> TRUE, lines |-> <<Line(FALSE, 2)>>, read |-> 1],
   [log |-> FALSE, readable |-> TRUE, lines |-> <<>>, read |-> 0]}
=============================================================================
