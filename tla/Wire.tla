-------------------------------- MODULE Wire --------------------------------
(***************************************************************************)
(* What travels on the line between a host and a rotator, and what the two *)
(* ends mean by it: the cells of a frame, the Command and Response enums   *)
(* (src/command.rs), the results of Session::send (src/error.rs).          *)
(*                                                                         *)
(* A frame is a sequence of cells.  A cell [k, v] is a piece of text that  *)
(* the writers of framing.rs emit as a whole: a keyword ("GS", "RESET"),   *)
(* or a label with the number written after it, shown as #: "AZ=#" with    *)
(* v = 90 is AZ=090.  One cell counts for one unit of a buffer's capacity. *)
(* "x" is a byte that no writer emits.                                     *)
(***************************************************************************)
EXTENDS Integers, Sequences, SequencesExt

Cell(k, v) == [k |-> k, v |-> v]
Word(k)    == Cell(k, 0)
CR         == Word("cr")
LF         == Word("lf")

IsTerm(c) == c.k \in {"cr", "lf"}

-----------------------------------------------------------------------------
(* Kinds whose number is written with exactly three digits (write_3digits),
   and kinds whose number is written in full (write_u32, write_i32).       *)
ThreeDigits == {"A#", "E#", "W#", " #", "+-#", "AZ=#", " EL=#", "EL=#", "AZ#", "EL#", " EL#"}
Decimal     == {"GS#", "GE#", "CR#", "CW#", ",#", "VL#", "VR#", "VU#", "VD#"}

Magnitude(n) == IF n < 0 THEN -n ELSE n
(* Mutant: the sign of an offset is lost.                                  *)
Keep3Unsigned(n) == Magnitude(n) % 1000

Keep3(n)     == IF n < 0 THEN -((-n) % 1000) ELSE n % 1000

Digits(n, width) == [i \in 1..width |-> 48 + ((n \div 10^(width - i)) % 10)]

(* Mutant: numbers are padded.                                             *)
WidthPadded(n) == 10

Width(n) == Min({w \in 1..9 : n < 10^w} \cup {10})

(* A hexadecimal digit, in upper case (write_checksum).                    *)
HexDigit(n) == IF n < 10 THEN 48 + n ELSE 55 + n

(* The characters of the number of a cell: sign and digits.                *)
Chars(c) ==
  LET sign == CASE c.v < 0                    -> <<45>>
                [] c.v >= 0 /\ c.k = "+-#"    -> <<43>>
                [] OTHER                      -> <<>>
  IN  CASE c.k \in ThreeDigits -> sign \o Digits(Magnitude(c.v), 3)
        [] c.k \in Decimal     -> sign \o Digits(Magnitude(c.v), Width(Magnitude(c.v)))
        [] c.k = ".#"          -> <<48 + c.v>>
        [] c.k = "*#"          -> <<HexDigit(c.v \div 16), HexDigit(c.v % 16)>>
        [] OTHER               -> <<>>

(* The xor of the characters of a label, and of a cell's.                  *)
LabelOf(k) ==
  CASE k = "C"     -> 67 [] k = "S"     -> 83 [] k = "?"     -> 63
    [] k = "+"     -> 43 [] k = "O"     -> 79 [] k = "x"     -> 120
    [] k = "AZ"    -> 27 [] k = "EL"    -> 9  [] k = "RESET" -> 85
    [] k = "PARK"  -> 8  [] k = "SA SE" -> 36 [] k = "SA"    -> 18
    [] k = "SE"    -> 22 [] k = "A#"    -> 65 [] k = "E#"    -> 69
    [] k = "W#"    -> 87 [] k = " #"    -> 32 [] k = "AZ=#"  -> 38
    [] k = "EL=#"  -> 52 [] k = " EL=#" -> 20 [] k = "AZ#"   -> 27 [] k = "EL#"   -> 9
    [] k = " EL#"  -> 41 [] k = ".#"    -> 46 [] k = ",#"    -> 44 [] k = "*#" -> 42
    [] k \in {"GS", "GS#"} -> 20            [] k \in {"GE", "GE#"} -> 2
    [] k = "CR#"   -> 17 [] k = "CW#"   -> 20 [] k = "VL#"   -> 26
    [] k = "VR#"   -> 4  [] k = "VU#"   -> 3  [] k = "VD#"   -> 18
    [] OTHER         -> 0

Label(c) ==
  IF c.k = "ST=#" THEN <<62, 46, 48, 123, 83, 65>>[c.v] ELSE LabelOf(c.k)

(* The bytes of a label, and of a cell.                                    *)
LabelBytes(k) ==
  CASE k = "+-#"                            -> 0
    [] k \in {"AZ", "EL", "SA", "SE", "GS", "GE", "AZ#", "EL#"} -> 2
    [] k \in Decimal \ {",#"}               -> 2
    [] k \in {"AZ=#", "EL=#", " EL#", "ST=#"} -> 3
    [] k \in {" EL=#", "PARK"}              -> 4
    [] k \in {"RESET", "SA SE"}             -> 5
    [] OTHER                                -> 1

Bytes(c) ==
  LabelBytes(c.k) + (IF c.k = "ST=#" THEN <<4, 6, 6, 9, 15, 15>>[c.v] ELSE Len(Chars(c)))

-----------------------------------------------------------------------------
(* command.rs: the commands over given ranges of u16, i16, u32, i32 values *)
CommandsOver(U16, I16, U32, I32) ==
  [op : {"Azimuth"}, az : U16] \cup [op : {"Elevation"}, el : U16]
  \cup [op : {"AzimuthElevation"}, az : U16, el : U16]
  \cup [op : {"Offset"}, az : I16, el : I16]
  \cup [op : {"VelocityLeft", "VelocityRight", "VelocityUp", "VelocityDown"}, speed : U32]
  \cup [op : {"ReadConfig"}, register : U16]
  \cup [op : {"WriteConfig"}, register : U16, value : I32]
  \cup [op : {"QueryPosition", "QueryAzimuth", "QueryElevation", "QueryStatus", "Stop",
              "KeepAlive", "GetStatusRegister", "GetErrorRegister", "Reset", "Park"}]

(* command.rs: the responses; a DeviceStatus is its place in the enum.     *)
ResponsesOver(U16, I32) ==
  [kind : {"Ack", "Error"}] \cup [kind : {"Position"}, az : U16, el : U16]
  \cup [kind : {"AzimuthPosition", "ElevationPosition", "StatusRegister", "ErrorRegister"},
        deg : U16]
  \cup [kind : {"Status"}, deg : 1..6]
  \cup [kind : {"ConfigValue"}, register : U16, value : I32]

(* All there are; numbers of 32 bits are not bounded here.                 *)
U16Values == 0..65535
I16Values == -32768..32767

AnyCommand  == CommandsOver(U16Values, I16Values, Nat, Int)
AnyResponse == ResponsesOver(U16Values, Int)

Ack         == [kind |-> "Ack"]
DeviceError == [kind |-> "Error"]

(* error.rs: what Session::send returns; Pending while it has not.         *)
Ok(r)         == [tag |-> "Ok", resp |-> r]
ParseError(e) == [tag |-> "Parse", err |-> e]
Timeout       == [tag |-> "Timeout"]
Transport     == [tag |-> "Transport"]
InvalidParam  == [tag |-> "InvalidParam"]
Pending       == [tag |-> "Pending"]

(* Option::None, where a byte completes nothing.                           *)
None == [tag |-> "None"]
=============================================================================
