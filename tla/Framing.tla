------------------------------ MODULE Framing ------------------------------
(***************************************************************************)
(* src/framing.rs: the codec of both ends.  Commands and responses to      *)
(* frames and back, the XOR checksum, and one step of the two byte-by-byte *)
(* accumulators Parser and CommandParser.                                  *)
(***************************************************************************)
EXTENDS Wire

CONSTANTS MAX_FRAME,      \* capacity of Parser.buf (64 bytes)
          MAX_CMD_FRAME   \* capacity of CommandParser.buf (32 bytes)

ASSUME CapacitiesAssumption == MAX_FRAME \in Nat \ {0} /\ MAX_CMD_FRAME \in Nat \ {0}

-----------------------------------------------------------------------------
(* XOR checksum: a bit of it is the parity of that bit in all bytes         *)
Bit(n, i) == (n \div 2^i) % 2

Parity(s, i) == Cardinality({j \in DOMAIN s : Bit(s[j], i) = 1}) % 2

XorAll(s) ==
  Parity(s, 0) + 2 * Parity(s, 1) + 4 * Parity(s, 2) + 8 * Parity(s, 3)
  + 16 * Parity(s, 4) + 32 * Parity(s, 5) + 64 * Parity(s, 6) + 128 * Parity(s, 7)

(* Mutant: the numbers are left out.                                       *)
XorChecksumOfLabels(cells) == XorAll([i \in DOMAIN cells |-> Label(cells[i])])

XorChecksum(cells) ==
  XorAll([i \in DOMAIN cells |-> XorAll(<<Label(cells[i])>> \o Chars(cells[i]))])

-----------------------------------------------------------------------------
(* Commands to frames                                                      *)
InRange(cmd) ==
  /\ cmd.op \in {"Azimuth", "AzimuthElevation"}   => cmd.az <= 360
  /\ cmd.op \in {"Elevation", "AzimuthElevation"} => cmd.el <= 180

(* The frame without its CR.  Offsets are not range checked: their three
   digits are what is left of the magnitude modulo 1000.                   *)
Payload(cmd) ==
  LET op == cmd.op IN
  CASE op = "Azimuth"          -> <<Cell("A#", cmd.az)>>
    [] op = "Elevation"        -> <<Cell("E#", cmd.el)>>
    [] op = "AzimuthElevation" -> <<Cell("W#", cmd.az), Cell(" #", cmd.el)>>
    [] op = "QueryPosition"    -> <<Word("C")>>
    [] op = "QueryAzimuth"     -> <<Word("AZ")>>
    [] op = "QueryElevation"   -> <<Word("EL")>>
    [] op \in {"QueryStatus", "GetStatusRegister"} -> <<Word("GS")>>
    [] op = "GetErrorRegister" -> <<Word("GE")>>
    [] op = "Stop"             -> <<Word("S")>>
    [] op = "KeepAlive"        -> <<Word("?")>>
    [] op = "Offset"           -> <<Word("O"), Cell("+-#", Keep3(cmd.az)), Cell("+-#", Keep3(cmd.el))>>
    [] op = "VelocityLeft"     -> <<Cell("VL#", cmd.speed)>>
    [] op = "VelocityRight"    -> <<Cell("VR#", cmd.speed)>>
    [] op = "VelocityUp"       -> <<Cell("VU#", cmd.speed)>>
    [] op = "VelocityDown"     -> <<Cell("VD#", cmd.speed)>>
    [] op = "ReadConfig"       -> <<Cell("CR#", cmd.register)>>
    [] op = "WriteConfig"      -> <<Cell("CW#", cmd.register), Cell(",#", cmd.value)>>
    [] op = "Reset"            -> <<Word("RESET")>>
    [] op = "Park"             -> <<Word("PARK")>>

EncodeInto(cmd) == Append(Payload(cmd), CR)

EncodeWithChecksum(cmd) ==
  Payload(cmd) \o <<Cell("*#", XorChecksum(Payload(cmd))), CR>>

-----------------------------------------------------------------------------
(* Responses to frames                                                     *)

(* Mutant: a reply ends in CR LF.                                          *)
EncodeResponseCrLf(r) ==
  IF r.kind = "Position" THEN <<Cell("AZ=#", r.az), Cell(" EL=#", r.el), CR, LF>> ELSE <<Word("+"), CR, LF>>

EncodeResponse(r) ==
  LET kind == r.kind IN
  CASE kind = "Ack"               -> <<Word("+"), CR>>
    [] kind = "Error"             -> <<Word("?"), CR>>
    [] kind = "Position"          -> <<Cell("AZ=#", Keep3(r.az)), Cell(" EL=#", Keep3(r.el)), CR>>
    [] kind = "AzimuthPosition"   -> <<Cell("AZ#", Keep3(r.deg)), Cell(".#", 0), LF>>
    [] kind = "ElevationPosition" -> <<Cell("EL#", Keep3(r.deg)), Cell(".#", 0), LF>>
    [] kind = "Status"            -> <<Cell("ST=#", r.deg), CR>>
    [] kind = "StatusRegister"    -> <<Cell("GS#", r.deg), LF>>
    [] kind = "ErrorRegister"     -> <<Cell("GE#", r.deg), LF>>
    [] kind = "ConfigValue"       -> <<Cell("CR#", r.register), Cell(",#", r.value), LF>>

-----------------------------------------------------------------------------
(* Frames to responses                                                     *)
FirstOf(s, Ks) == SelectInSeq(s, LAMBDA c : c.k \in Ks)
LastOf(s, Ks)  == SelectLastInSeq(s, LAMBDA c : c.k \in Ks)

(* Mutant: numbers are parsed as u8.                                       *)
FitsU8(n) == n \in 0..255

FitsU16(n)     == n \in 0..65535

(* One number and nothing else.                                            *)
IsNumberOrNothing(s, k) ==   \* mutant: a missing number counts as zero
  Len(s) = 1 /\ s[1].k \in {k} \cup (IF k = "GS#" THEN {"GS"} ELSE {}) /\ FitsU16(s[1].v)

IsNumber(s, k) == Len(s) = 1 /\ s[1].k = k /\ FitsU16(s[1].v)

(* A number that may have a fraction: whatever follows the dot is ignored. *)
IsFloat(s, Ks) ==
  s # <<>> /\ s[1].k \in Ks /\ FitsU16(s[1].v) /\ (Len(s) > 1 => s[2].k = ".#")

(* Mutant: an elevation that is missing, or comes first, counts as zero.    *)
DecodePayloadDefaults(p) ==
  LET az == FirstOf(p, {"AZ=#"})
      el == FirstOf(p, {" EL=#"})
  IN  IF p = <<Word("?")>>                THEN Ok(DeviceError)
      ELSE IF p \in {<<>>, <<Word("+")>>} THEN Ok(Ack)
      ELSE IF az # 0
           THEN Ok([kind |-> "Position", az |-> p[az].v, el |-> IF el > az THEN p[el].v ELSE 0])
      ELSE ParseError("UnknownCommand")

(* decode() below its checksum: the forms of a response in the order tried *)
DecodePayload(p) ==
  LET az == FirstOf(p, {"AZ=#"})
      el == FirstOf(p, {" EL=#", "EL=#"})
  IN  IF p = <<Word("?")>>                 THEN Ok(DeviceError)
      ELSE IF p \in {<<>>, <<Word("+")>>}  THEN Ok(Ack)
      ELSE IF az # 0 /\ el # 0             THEN Ok([kind |-> "Position", az |-> p[az].v, el |-> p[el].v])
      ELSE IF IsFloat(p, {"AZ=#", "AZ#"})  THEN Ok([kind |-> "AzimuthPosition", deg |-> p[1].v])
      ELSE IF IsFloat(p, {"EL=#", "EL#"})          THEN Ok([kind |-> "ElevationPosition", deg |-> p[1].v])
      ELSE IF Len(p) = 1 /\ p[1].k = "ST=#" /\ p[1].v \in 1..6
                                           THEN Ok([kind |-> "Status", deg |-> p[1].v])
      ELSE IF IsNumber(p, "GS#")           THEN Ok([kind |-> "StatusRegister", deg |-> p[1].v])
      ELSE IF IsNumber(p, "GE#")           THEN Ok([kind |-> "ErrorRegister", deg |-> p[1].v])
      ELSE IF Len(p) = 2 /\ IsNumber(<<p[1]>>, "CR#") /\ p[2].k = ",#"
                                           THEN Ok([kind |-> "ConfigValue", register |-> p[1].v, value |-> p[2].v])
      ELSE ParseError("UnknownCommand")

(* Mutant: the checksum is cut off, as in decode_command, but not compared. *)
DecodeUnverified(input) ==
  LET trimmed == SubSeq(input, 1, SelectLastInSeq(input, LAMBDA c : ~IsTerm(c)))
      star    == LastOf(trimmed, {"*#"})
  IN  IF input = <<>>        THEN ParseError("UnexpectedEof")
      ELSE IF trimmed = <<>> THEN Ok(Ack)
      ELSE DecodePayload(IF star = 0 THEN trimmed ELSE SubSeq(trimmed, 1, star - 1))

Decode(input) ==
  LET trimmed == SubSeq(input, 1, SelectLastInSeq(input, LAMBDA c : ~IsTerm(c)))
      star    == LastOf(trimmed, {"*#"})
      payload == IF star = 0 THEN trimmed ELSE SubSeq(trimmed, 1, star - 1)
  IN  IF input = <<>>        THEN ParseError("UnexpectedEof")
      ELSE IF trimmed = <<>> THEN Ok(Ack)
      ELSE IF star # 0 /\ trimmed[star].v \notin 0..255 THEN ParseError("InvalidUtf8")
      ELSE IF star # 0 /\ trimmed[star].v # XorChecksum(payload) THEN ParseError("BadChecksum")
      ELSE DecodePayload(payload)

-----------------------------------------------------------------------------
(* Frames to commands                                                      *)

(* The words that are a command by themselves.                             *)
Keyword(k) ==
  CASE k = "C"     -> [op |-> "QueryPosition"]
    [] k \in {"S", "SA SE", "SA", "SE"} -> [op |-> "Stop"]
    [] k = "?"     -> [op |-> "KeepAlive"]
    [] k = "GS"    -> [op |-> "GetStatusRegister"]
    [] k = "GE"    -> [op |-> "GetErrorRegister"]
    [] k = "AZ"    -> [op |-> "QueryAzimuth"]
    [] k = "EL"    -> [op |-> "QueryElevation"]
    [] k = "RESET" -> [op |-> "Reset"]
    [] k = "PARK"  -> [op |-> "Park"]
    [] OTHER       -> None

(* The fixed-length GS-232 forms.                                          *)
DecodeFixedUnchecked(f) ==   \* mutant: the azimuth is not checked
  IF Len(f) = 1 /\ f[1].k = "A#" THEN [op |-> "Azimuth", az |-> f[1].v] ELSE None

DecodeFixed(f) ==
  CASE Len(f) = 1 /\ f[1].k = "A#" /\ f[1].v <= 360 -> [op |-> "Azimuth", az |-> f[1].v]
    [] Len(f) = 1 /\ f[1].k = "E#" /\ f[1].v <= 180 -> [op |-> "Elevation", el |-> f[1].v]
    [] Len(f) = 2 /\ f[1].k = "W#" /\ f[1].v <= 360 /\ f[2].k = " #" /\ f[2].v <= 180
         -> [op |-> "AzimuthElevation", az |-> f[1].v, el |-> f[2].v]
    [] Len(f) = 3 /\ f[1].k = "O" /\ f[2].k = "+-#" /\ f[3].k = "+-#"
         -> [op |-> "Offset", az |-> f[2].v, el |-> f[3].v]
    [] OTHER -> None

(* The Easycomm II set commands.  A combined frame out of range falls through
   to the single-axis form, which reads the digits before the first dot.   *)
DecodeAxesUnchecked(f) ==   \* mutant: the elevation is not checked
  IF IsFloat(f, {"EL#"}) THEN [op |-> "Elevation", el |-> f[1].v] ELSE None

DecodeAxes(f) ==
  LET space == FirstOf(f, {" #", " EL=#", " EL#", "SA SE"})
      left  == SubSeq(f, 1, space - 1)
      right == SubSeq(f, space, Len(f))
  IN  IF /\ space # 0
         /\ IsFloat(left, {"AZ#"}) /\ left[1].v <= 360
         /\ IsFloat(right, {" EL#"}) /\ right[1].v <= 180
      THEN [op |-> "AzimuthElevation", az |-> left[1].v, el |-> right[1].v]
      ELSE IF IsFloat(f, {"AZ#"}) /\ f[1].v <= 360 THEN [op |-> "Azimuth", az |-> f[1].v]
      ELSE IF IsFloat(f, {"EL#"}) /\ f[1].v <= 180 THEN [op |-> "Elevation", el |-> f[1].v]
      ELSE None

TryParseEasycomm(f) ==
  LET first == f[1].k
      alone == Len(f) = 1
  IN  CASE first = "VL#" -> IF alone THEN [op |-> "VelocityLeft", speed |-> f[1].v] ELSE None
        [] first = "VR#" -> IF alone THEN [op |-> "VelocityRight", speed |-> f[1].v] ELSE None
        [] first = "VU#" -> IF alone THEN [op |-> "VelocityUp", speed |-> f[1].v] ELSE None
        [] first = "VD#" -> IF alone THEN [op |-> "VelocityDown", speed |-> f[1].v] ELSE None
        [] first = "CW#" -> IF Len(f) = 2 /\ FitsU16(f[1].v) /\ f[2].k = ",#"
                            THEN [op |-> "WriteConfig", register |-> f[1].v, value |-> f[2].v]
                            ELSE None
        [] first = "CR#" -> IF IsNumber(f, "CR#")
                            THEN [op |-> "ReadConfig", register |-> f[1].v] ELSE None
        [] first \in {"GS", "GS#"} -> [op |-> "GetStatusRegister"]
        [] OTHER -> DecodeAxes(f)

(* decode_command(): the checksum is cut off, not verified.                *)
DecodeCommand(frame) ==
  LET star == LastOf(frame, {"*#"})
      f    == IF star = 0 THEN frame ELSE SubSeq(frame, 1, star - 1)
  IN  IF f = <<>> THEN None
      ELSE IF Len(f) = 1 /\ Keyword(f[1].k) # None THEN Keyword(f[1].k)
      ELSE IF DecodeFixed(f) # None THEN DecodeFixed(f)
      ELSE TryParseEasycomm(f)

-----------------------------------------------------------------------------
(* One byte into an accumulator holding buf: what it holds next and what the
   call returns.                                                           *)

(* Mutants of the two: one cell too many is kept; a terminator does not empty
   the buffer; an overlong frame is cut instead of dropped.                *)
FeedOneMore(buf, c) ==
  IF IsTerm(c)                  THEN [buf |-> <<>>, out |-> Decode(buf)]
  ELSE IF Len(buf) <= MAX_FRAME THEN [buf |-> Append(buf, c), out |-> None]
  ELSE                              [buf |-> <<>>, out |-> ParseError("UnexpectedEof")]

FeedKeeps(buf, c) ==
  IF IsTerm(c)                 THEN [buf |-> buf, out |-> Decode(buf)]
  ELSE IF Len(buf) < MAX_FRAME THEN [buf |-> Append(buf, c), out |-> None]
  ELSE                             [buf |-> <<>>, out |-> ParseError("UnexpectedEof")]

FeedCuts(buf, c) ==
  IF IsTerm(c)                 THEN [buf |-> <<>>, out |-> Decode(buf)]
  ELSE IF Len(buf) < MAX_FRAME THEN [buf |-> Append(buf, c), out |-> None]
  ELSE                             [buf |-> buf, out |-> ParseError("UnexpectedEof")]

FeedCommandOneMore(buf, c) ==
  IF IsTerm(c)                      THEN [buf |-> <<>>, out |-> DecodeCommand(buf)]
  ELSE IF Len(buf) <= MAX_CMD_FRAME THEN [buf |-> Append(buf, c), out |-> None]
  ELSE                                  [buf |-> <<>>, out |-> None]

FeedCommandKeeps(buf, c) ==
  IF IsTerm(c)                     THEN [buf |-> buf, out |-> DecodeCommand(buf)]
  ELSE IF Len(buf) < MAX_CMD_FRAME THEN [buf |-> Append(buf, c), out |-> None]
  ELSE                                 [buf |-> <<>>, out |-> None]

FeedCommandCuts(buf, c) ==
  IF IsTerm(c)                     THEN [buf |-> <<>>, out |-> DecodeCommand(buf)]
  ELSE IF Len(buf) < MAX_CMD_FRAME THEN [buf |-> Append(buf, c), out |-> None]
  ELSE                                 [buf |-> buf, out |-> None]

(* Parser::feed                                                            *)
Feed(buf, c) ==
  IF IsTerm(c)                THEN [buf |-> <<>>, out |-> Decode(buf)]
  ELSE IF Len(buf) < MAX_FRAME THEN [buf |-> Append(buf, c), out |-> None]
  ELSE                             [buf |-> <<>>, out |-> ParseError("UnexpectedEof")]

(* CommandParser::feed                                                     *)
FeedCommand(buf, c) ==
  IF IsTerm(c)                    THEN [buf |-> <<>>, out |-> DecodeCommand(buf)]
  ELSE IF Len(buf) < MAX_CMD_FRAME THEN [buf |-> Append(buf, c), out |-> None]
  ELSE                                 [buf |-> <<>>, out |-> None]

(* What an accumulator of capacity cap keeps of the line so far: all of it
   while it fits, and some tail of it afterwards.                          *)
KeepsTail(buf, line, cap) ==
  \E n \in 0..Len(line) :
    /\ buf = SubSeq(line, n + 1, Len(line))
    /\ Len(line) <= cap => n = 0
=============================================================================
