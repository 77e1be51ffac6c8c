----------------------------- MODULE MCSession -----------------------------
(* A session of two commands, one of them out of range, one of them with a
   frame of two cells, and a far end that sends replies, echoes and junk.   *)
EXTENDS Session

MCCommands ==
  {[op |-> "AzimuthElevation", az |-> 10, el |-> 20], [op |-> "KeepAlive"],
   [op |-> "Azimuth", az |-> 361]}

MCAlphabet ==
  {Word("?"), Cell("W#", 10), Cell(" #", 20), CR}
=============================================================================
