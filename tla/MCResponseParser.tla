------------------------- MODULE MCResponseParser -------------------------
(* ResponseParser with room for three cells and lines of up to six.        *)
EXTENDS ResponseParser

MCAlphabet ==
  {Cell("AZ=#", 10), Cell(" EL=#", 20), Word("?"), Word("+"), Cell("*#", 43), CR, LF}
=============================================================================
