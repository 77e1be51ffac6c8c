-------------------------- MODULE ResponseParser --------------------------
(***************************************************************************)
(* Parser of src/framing.rs, fed one byte at a time with anything a line   *)
(* may carry.  `line` is history: every cell since the last terminator.    *)
(***************************************************************************)
EXTENDS Framing

CONSTANTS Alphabet,   \* the cells that may arrive
          MaxLine     \* bound of the check: longest unterminated line

VARIABLES buf,    \* Parser.buf[..len]
          out,    \* what the last feed returned
          line

vars == <<buf, out, line>>

Init == /\ buf  = <<>>
        /\ out  = None
        /\ line = <<>>

FeedByte(c) ==
  /\ IsTerm(c) \/ Len(line) < MaxLine
  /\ buf'  = Feed(buf, c).buf
  /\ out'  = Feed(buf, c).out
  /\ line' = IF IsTerm(c) THEN <<>> ELSE Append(line, c)

Next == \E c \in Alphabet : FeedByte(c)

Spec == Init /\ [][Next]_vars

-----------------------------------------------------------------------------
(* The buffer never exceeds its array, and a call returns nothing, a
   response or a parse error.                                              *)
TypeOK ==
  /\ buf  \in Seq(Alphabet)
  /\ line \in Seq(Alphabet)
  /\ Len(buf) <= MAX_FRAME
  /\ out.tag \in {"None", "Ok", "Parse"}

(* What the buffer holds is a tail of the current line: the whole line as
   long as it fits, and never cells of an earlier line or with a gap.      *)
BufferIsTail == KeepsTail(buf, line, MAX_FRAME)

L == INSTANCE Lines WITH Limit    <- MAX_FRAME,
                         Cells    <- Alphabet,
                         Meaning  <- Decode,
                         Overflow <- ParseError("UnexpectedEof")

(* Parser implements the line-by-line decoder: a terminator resynchronises
   it after any garbage, and a line that fits is decoded whole.            *)
DecodesLines == L!Spec

(* Documented: "an empty `\r`" is an acknowledgement.                      *)
EmptyLineIsAck ==
  [][line = <<>> /\ line' = <<>> => out' = Ok(Ack)]_vars
=============================================================================
