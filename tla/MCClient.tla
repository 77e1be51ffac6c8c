------------------------------ MODULE MCClient ------------------------------
(* The example programs with a rotator that may be at two positions.        *)
EXTENDS Client

MCPositions == {<<10, 20>>, <<30, 40>>}

(* Two commands that have answers of their own, and one out of range.       *)
TypedAtCli == {Query, Stop, [op |-> "Azimuth", az |-> 361]}

(* What the programs send altogether.                                       *)
AllSent == TypedAtCli \cup {Home}

Nothing == {}
=============================================================================
