--------------------------- MODULE CommandParser ---------------------------
(***************************************************************************)
(* CommandParser of src/framing.rs, the device's end of the line, fed one  *)
(* byte at a time with anything a line may carry.  `line` is history.      *)
(***************************************************************************)
EXTENDS Framing

CONSTANTS Alphabet,   \* the cells that may arrive
          MaxLine     \* bound of the check: longest unterminated line

VARIABLES buf,    \* CommandParser.buf[..len]
          out,    \* what the last feed returned
          line

vars == <<buf, out, line>>

Init == /\ buf  = <<>>
        /\ out  = None
        /\ line = <<>>

FeedByte(c) ==
  /\ IsTerm(c) \/ Len(line) < MaxLine
  /\ buf'  = FeedCommand(buf, c).buf
  /\ out'  = FeedCommand(buf, c).out
  /\ line' = IF IsTerm(c) THEN <<>> ELSE Append(line, c)

Next == \E c \in Alphabet : FeedByte(c)

Spec == Init /\ [][Next]_vars

-----------------------------------------------------------------------------
(* The buffer never exceeds its array.                                     *)
TypeOK ==
  /\ buf  \in Seq(Alphabet)
  /\ line \in Seq(Alphabet)
  /\ Len(buf) <= MAX_CMD_FRAME

(* The buffer is a tail of the current line, the whole of a line that fits *)
BufferIsTail == KeepsTail(buf, line, MAX_CMD_FRAME)

L == INSTANCE Lines WITH Limit    <- MAX_CMD_FRAME,
                         Cells    <- Alphabet,
                         Meaning  <- DecodeCommand,
                         Overflow <- None

(* CommandParser implements the line-by-line decoder: a frame cut short by a
   lost terminator or by garbage never outlives the next terminator.       *)
DecodesLines == L!Spec

(* Whatever arrives, garbled, overlong or out of range, no command with an
   angle outside 0-360 and 0-180 reaches the firmware.                     *)
OnlyInRange == out # None => InRange(out)

(* Documented: "Malformed or overlong frames are silently discarded".      *)
OverlongDiscarded ==
  [][Len(line) > MAX_CMD_FRAME /\ line' = <<>> => out' = None]_vars

(* Documented: decode_command "Returns None for unknown or out-of-range
   frames".  A combined set command is such a frame when either axis is.   *)
IsCombined(f) ==
  /\ Len(f) = 4
  /\ <<f[1].k, f[2].k, f[3].k, f[4].k>> = <<"AZ#", ".#", " EL#", ".#">>

OutOfRangeRefused ==
  [][IsCombined(line) /\ line' = <<>> /\ (line[1].v > 360 \/ line[3].v > 180)
       => out' = None]_vars
=============================================================================
