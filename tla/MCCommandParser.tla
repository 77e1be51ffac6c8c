-------------------------- MODULE MCCommandParser --------------------------
(* CommandParser with room for four cells and lines of up to six: the axes of
   Easycomm II in and out of range, junk and a checksum.                    *)
EXTENDS CommandParser

MCAlphabet ==
  {Cell("AZ#", 180), Cell("A#", 361), Cell(" EL#", 90), Cell(" EL#", 200),
   Cell("EL#", 200), Cell(".#", 0), Word("S"), CR}
=============================================================================
