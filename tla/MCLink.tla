------------------------------- MODULE MCLink -------------------------------
(* A session with a rotator that may be at two positions.                  *)
EXTENDS Link

MCPositions == {<<10, 20>>, <<30, 40>>}

QueryAndStop == {[op |-> "QueryPosition"], [op |-> "Stop"]}

AllKinds ==
  {[op |-> "QueryPosition"], [op |-> "QueryAzimuth"], [op |-> "GetStatusRegister"],
   [op |-> "AzimuthElevation", az |-> 10, el |-> 20], [op |-> "KeepAlive"],
   [op |-> "Azimuth", az |-> 361]}

Nothing == {}
=============================================================================
