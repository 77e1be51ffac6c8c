------------------------------- MODULE Codec -------------------------------
(***************************************************************************)
(* One frame through the codec of src/framing.rs: encoded by one end, with *)
(* or without a checksum, perhaps damaged in one digit on the way, decoded *)
(* by the other end.                                                       *)
(***************************************************************************)
EXTENDS Framing

CONSTANTS Commands,    \* the commands the host may send
          Responses    \* the responses the device may send

ASSUME MessagesAssumption == Commands \subseteq AnyCommand /\ Responses \subseteq AnyResponse

VARIABLES msg,      \* what was encoded
          frame,    \* its frame on the line
          checked,  \* the frame has a checksum
          damaged,  \* a digit has changed on the way
          got       \* what the other end made of it

vars == <<msg, frame, checked, damaged, got>>

Init == /\ msg = None
        /\ frame = <<>>
        /\ checked \in BOOLEAN
        /\ damaged = FALSE
        /\ got = None

(* encode_into or encode_with_checksum.                                    *)
SendCommand(cmd) ==
  /\ msg = None
  /\ InRange(cmd)
  /\ msg' = cmd
  /\ frame' = IF checked THEN EncodeWithChecksum(cmd) ELSE EncodeInto(cmd)
  /\ UNCHANGED <<checked, damaged, got>>

(* encode_response_into; a device that sends checksums puts one before the
   terminator.                                                             *)
SendResponse(r) ==
  LET cells == EncodeResponse(r)
      text  == Front(cells)
  IN  /\ msg = None
      /\ msg' = r
      /\ frame' = IF checked THEN text \o <<Cell("*#", XorChecksum(text)), Last(cells)>> ELSE cells
      /\ UNCHANGED <<checked, damaged, got>>

(* The digit at a place (0 for the ones) of a three-digit number becomes d. *)
Damage(i, place, d) ==
  LET digit == (frame[i].v \div 10^place) % 10 IN
  /\ msg # None /\ got = None /\ ~damaged
  /\ frame[i].k \in ThreeDigits /\ frame[i].v >= 0
  /\ d # digit
  /\ frame' = [frame EXCEPT ![i] = Cell(@.k, @.v + (d - digit) * 10^place)]
  /\ damaged' = TRUE
  /\ UNCHANGED <<msg, checked, got>>

IsCommand(m) == "op" \in DOMAIN m
IsResponse(m) == "kind" \in DOMAIN m

Receive ==
  /\ got = None
  /\ \/ IsCommand(msg)  /\ got' = Ok(DecodeCommand(Front(frame)))
     \/ IsResponse(msg) /\ got' = Decode(Front(frame))
  /\ UNCHANGED <<msg, frame, checked, damaged>>

Next ==
  \/ \E cmd \in Commands : SendCommand(cmd)
  \/ \E r \in Responses : SendResponse(r)
  \/ \E i \in DOMAIN frame, place \in 0..2, d \in 0..9 : Damage(i, place, d)
  \/ Receive

Spec == Init /\ [][Next]_vars

Received == got # None

-----------------------------------------------------------------------------
(* The device hears the command the host sent, whatever the numbers in it,
   with and without a checksum: the layouts of the two ends agree.  Not
   covered: QueryStatus, which shares its frame with GetStatusRegister, and
   offsets beyond three digits.                                            *)
ThreeDigitOffset(cmd) ==
  cmd.op = "Offset" => Magnitude(cmd.az) <= 999 /\ Magnitude(cmd.el) <= 999

CommandRoundTrip ==
  Received /\ ~damaged /\ IsCommand(msg) =>
    (msg.op # "QueryStatus" /\ ThreeDigitOffset(msg) => got = Ok(msg))

(* The host hears the response the device sent, if its angles have at most
   three digits.                                                           *)
ThreeDigitAngles(r) ==
  /\ r.kind = "Position" => r.az <= 999 /\ r.el <= 999
  /\ r.kind \in {"AzimuthPosition", "ElevationPosition"} => r.deg <= 999

ResponseRoundTrip ==
  Received /\ ~damaged /\ IsResponse(msg) /\ ThreeDigitAngles(msg) => got = Ok(msg)

(* A response with a checksum and one wrong digit is never taken for a
   response.                                                               *)
DamageDetected ==
  Received /\ damaged /\ checked /\ IsResponse(msg) => got.tag = "Parse"

(* A damaged command is not detected by the device, which strips a checksum
   without looking at it; but none with an angle out of range gets through. *)
HeardInRange == Received /\ IsCommand(msg) /\ got # Ok(None) => InRange(got.resp)

(* framing.rs:557: the longest frame has 19 bytes.  The encoders index arrays
   of 32 bytes without looking at their length, and the parsers keep 32 and
   64: what is left is the room for a checksum and a terminator.           *)
Text(f) == {i \in DOMAIN f : ~IsTerm(f[i]) /\ f[i].k # "*#"}

TextBytes(f) == UNION {{i} \X (1..Bytes(f[i])) : i \in Text(f)}

FramesFit == Cardinality(TextBytes(frame)) <= 19

(* An echo that Session does not suppress is never taken for an answer, with
   one exception: the echo of KeepAlive reads as a device error.           *)
EchoIsNoAnswer ==
  IsCommand(msg) => Decode(Front(frame)).tag = "Parse" \/ msg.op = "KeepAlive"
=============================================================================
