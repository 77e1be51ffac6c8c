------------------------------ MODULE MCCodec ------------------------------
(* The codec on numbers around every limit: the ranges of the axes, three
   digits, u16 and i32.                                                     *)
EXTENDS Codec

U16 == {0, 7, 99, 180, 181, 360, 361, 999, 1000, 65535}
I16 == {-32768, -1001, -999, -5, 0, 5, 999, 1000, 32767}
U32 == {0, 10, 1999999999, 2147483647}
I32 == {-2147483647, -1, 0, 2147483647}

MCCommands  == CommandsOver(U16, I16, U32, I32)
MCResponses == ResponsesOver(U16, I32)
=============================================================================
