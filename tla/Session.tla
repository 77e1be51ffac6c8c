------------------------------ MODULE Session ------------------------------
(***************************************************************************)
(* Session of src/session.rs over a transport whose far end may send       *)
(* anything at any time and whose reads and writes may fail.  The action   *)
(* Arrive is the environment; every other action is one step of the host:  *)
(* a call of send up to its first read, one round of its receive loop, or  *)
(* the replacement of the session by a new one on the same transport.      *)
(*                                                                         *)
(* raw and line are history.  The parser lives as long as the session and  *)
(* rx_frame as long as one send, so what they have seen differs: raw holds *)
(* the cells since the last terminator, line those of the current send.    *)
(***************************************************************************)
EXTENDS Framing

CONSTANTS Commands,   \* the commands the application may send
          RX_CAP,     \* capacity of rx_frame (32 bytes)
          Alphabet,   \* the cells the far end may send
          MaxLine,    \* bound: cells of an unterminated line, queued ones included
          MaxOut      \* bound: cells written and not yet taken by the far end

(* framing.rs:557: the longest command leaves headroom in a frame.         *)
ASSUME CommandsAssumption ==
  \A cmd \in Commands : InRange(cmd) => Len(Payload(cmd)) < RX_CAP

ASSUME TypesAssumption == Commands \subseteq AnyCommand

ASSUME RxCapAssumption == RX_CAP \in Nat

VARIABLES rxq,      \* cells the transport holds for the host
          txq,      \* cells the host wrote and the far end has not taken
          pbuf,     \* Session.parser.buf[..len]
          pc,       \* "idle", or "reading" inside send's loop
          sent,     \* frame_buf[..len - 1] of the current send
          rxFrame,  \* rx_frame[..rx_len]
          result,   \* what the last send returned
          raw,
          line

vars == <<rxq, txq, pbuf, pc, sent, rxFrame, result, raw, line>>

Init == /\ rxq = <<>>
        /\ txq = <<>>
        /\ pbuf = <<>>
        /\ pc = "idle"
        /\ sent = <<>>
        /\ rxFrame = <<>>
        /\ result = Pending
        /\ raw = <<>>
        /\ line = <<>>

-----------------------------------------------------------------------------
(* send up to its first read                                               *)

SendInvalid(cmd) ==
  /\ pc = "idle"
  /\ ~InRange(cmd)
  /\ result' = InvalidParam
  /\ UNCHANGED <<rxq, txq, pbuf, pc, sent, rxFrame, raw, line>>

(* Mutant: every send starts with a fresh parser.                          *)
SendWriteFresh(cmd) ==
  /\ pc = "idle"
  /\ InRange(cmd)
  /\ Len(txq) + Len(EncodeInto(cmd)) <= MaxOut
  /\ txq' = txq \o EncodeInto(cmd)
  /\ sent' = Payload(cmd)
  /\ pc' = "reading"
  /\ pbuf' = <<>>
  /\ result' = Pending
  /\ UNCHANGED <<rxq, rxFrame, raw, line>>

SendWrite(cmd) ==
  /\ pc = "idle"
  /\ InRange(cmd)
  /\ Len(txq) + Len(EncodeInto(cmd)) <= MaxOut
  /\ txq' = txq \o EncodeInto(cmd)
  /\ sent' = Payload(cmd)
  /\ pc' = "reading"
  /\ rxFrame' = <<>>
  /\ line' = <<>>
  /\ result' = Pending
  /\ UNCHANGED <<rxq, pbuf, raw>>

(* The write fails after n cells have gone out.                            *)
SendWriteFails(cmd, n) ==
  /\ pc = "idle"
  /\ InRange(cmd)
  /\ Len(txq) + n <= MaxOut
  /\ txq' = txq \o SubSeq(EncodeInto(cmd), 1, n)
  /\ result' = Transport
  /\ UNCHANGED <<rxq, pbuf, pc, sent, rxFrame, raw, line>>

-----------------------------------------------------------------------------
(* One round of the receive loop                                           *)

(* Mutant: the cap of rx_frame is off by one.                              *)
ReadTextOneMore ==
  /\ pc = "reading" /\ rxq # <<>> /\ ~IsTerm(Head(rxq))
  /\ rxq' = Tail(rxq)
  /\ pbuf' = Feed(pbuf, Head(rxq)).buf
  /\ rxFrame' = IF Len(rxFrame) <= RX_CAP THEN Append(rxFrame, Head(rxq)) ELSE rxFrame
  /\ raw' = Append(raw, Head(rxq))
  /\ line' = Append(line, Head(rxq))
  /\ UNCHANGED <<txq, pc, sent, result>>

(* A byte that is no terminator.  What feed returns is dropped.            *)
ReadText ==
  /\ pc = "reading" /\ rxq # <<>> /\ ~IsTerm(Head(rxq))
  /\ rxq' = Tail(rxq)
  /\ pbuf' = Feed(pbuf, Head(rxq)).buf
  /\ rxFrame' = IF Len(rxFrame) < RX_CAP THEN Append(rxFrame, Head(rxq)) ELSE rxFrame
  /\ raw' = Append(raw, Head(rxq))
  /\ line' = Append(line, Head(rxq))
  /\ UNCHANGED <<txq, pc, sent, result>>

(* send returns r; its local buffers are gone.                             *)
Return(r) ==
  /\ pc' = "idle"
  /\ result' = r
  /\ sent' = <<>>
  /\ rxFrame' = <<>>
  /\ line' = <<>>

(* Mutants: rx_len is not reset after an echo; echoes are not suppressed.  *)
ReadTermKeepsFrame ==
  /\ pc = "reading" /\ rxq # <<>> /\ IsTerm(Head(rxq))
  /\ rxq' = Tail(rxq)
  /\ pbuf' = Feed(pbuf, Head(rxq)).buf
  /\ raw' = <<>>
  /\ IF rxFrame = sent
     THEN line' = <<>> /\ UNCHANGED <<pc, sent, rxFrame, result>>
     ELSE Return(Feed(pbuf, Head(rxq)).out)
  /\ UNCHANGED txq

ReadTermTakesEcho ==
  /\ pc = "reading" /\ rxq # <<>> /\ IsTerm(Head(rxq))
  /\ rxq' = Tail(rxq)
  /\ pbuf' = Feed(pbuf, Head(rxq)).buf
  /\ raw' = <<>>
  /\ Return(Feed(pbuf, Head(rxq)).out)
  /\ UNCHANGED txq

(* A terminator always completes a frame (Parser::feed), so the loop goes on
   only after an echo.                                                     *)
ReadTerm ==
  /\ pc = "reading" /\ rxq # <<>> /\ IsTerm(Head(rxq))
  /\ rxq' = Tail(rxq)
  /\ pbuf' = Feed(pbuf, Head(rxq)).buf
  /\ raw' = <<>>
  /\ IF rxFrame = sent
     THEN /\ rxFrame' = <<>>
          /\ line' = <<>>
          /\ UNCHANGED <<pc, sent, result>>
     ELSE Return(Feed(pbuf, Head(rxq)).out)
  /\ UNCHANGED txq

(* Mutants: a read without data is repeated; it resets the parser.         *)
ReadNothingRetries ==
  pc = "reading" /\ rxq = <<>> /\ UNCHANGED vars

ReadNothingResets ==
  /\ pc = "reading" /\ rxq = <<>>
  /\ Return(Timeout)
  /\ pbuf' = <<>>
  /\ UNCHANGED <<rxq, txq, raw>>

(* read returns Ok(0): nothing there, or the peer has closed.              *)
ReadNothing ==
  /\ pc = "reading" /\ rxq = <<>>
  /\ Return(Timeout)
  /\ UNCHANGED <<rxq, txq, pbuf, raw>>

(* read returns Err: an I/O error, or the time limit of a socket or port.  *)
ReadFails ==
  /\ pc = "reading"
  /\ Return(Transport)
  /\ UNCHANGED <<rxq, txq, pbuf, raw>>

(* into_transport, then Session::new on what it returned.                  *)
Reopen ==
  /\ pc = "idle"
  /\ pbuf' = <<>>
  /\ raw' = <<>>
  /\ result' = Pending
  /\ UNCHANGED <<rxq, txq, pc, sent, rxFrame, line>>

Read == ReadText \/ ReadTerm \/ ReadNothing \/ ReadFails

Send(cmd) ==
  \/ SendInvalid(cmd)
  \/ SendWrite(cmd)
  \/ \E n \in 0..Len(EncodeInto(cmd)) : SendWriteFails(cmd, n)

-----------------------------------------------------------------------------
(* The far end sends a cell, and takes what was written.                   *)
Arrive(c) ==
  /\ Len(raw) + Len(rxq) < MaxLine
  /\ rxq' = Append(rxq, c)
  /\ UNCHANGED <<txq, pbuf, pc, sent, rxFrame, result, raw, line>>

Take ==
  /\ txq # <<>>
  /\ txq' = <<>>
  /\ UNCHANGED <<rxq, pbuf, pc, sent, rxFrame, result, raw, line>>

Next ==
  \/ \E cmd \in Commands : Send(cmd)
  \/ Read
  \/ Reopen
  \/ \E c \in Alphabet : Arrive(c)
  \/ Take

Spec == Init /\ [][Next]_vars

(* The loop of send runs on its own thread and never waits for another; a
   transport answers every read, with a byte or, at the latest when its time
   limit is over, with nothing.  That a read fails is never relied on.     *)
FairSpec == Spec /\ WF_vars(ReadText \/ ReadTerm \/ ReadNothing)

-----------------------------------------------------------------------------
(* What the variables hold: buffers of cells within their arrays, and the
   local buffers of send empty outside it.                                 *)
HeldIn(A) ==
  /\ {rxq, pbuf, rxFrame, raw, line} \subseteq Seq(A)
  /\ Len(pbuf) <= MAX_FRAME
  /\ Len(rxFrame) <= RX_CAP
  /\ pc \in {"idle", "reading"}
  /\ result.tag \in {"Pending", "Ok", "Parse", "Timeout", "Transport", "InvalidParam"}
  /\ pc = "idle" => sent = <<>> /\ rxFrame = <<>> /\ line = <<>>

TypeOK == HeldIn(Alphabet)

(* The two views send keeps of one stream.  The parser holds a tail of raw,
   all of it while it fits; rx_frame holds the start of line; and line is
   the part of raw that came during this send.                             *)
ParserHoldsTail == KeepsTail(pbuf, raw, MAX_FRAME)
LineIsTail      == \E n \in 0..Len(raw) : line = SubSeq(raw, n + 1, Len(raw))
FrameIsPrefix   == rxFrame = SubSeq(line, 1, IF Len(line) < RX_CAP THEN Len(line) ELSE RX_CAP)

BufferInv == ParserHoldsTail /\ LineIsTail /\ FrameIsPrefix

(* A step of send's loop that takes a terminator.                          *)
TakesTerm == pc = "reading" /\ rxq # <<>> /\ IsTerm(Head(rxq)) /\ rxq' = Tail(rxq)

(* Echo suppression is exact although rx_frame is capped: send goes on
   waiting if and only if everything this send received of the line is the
   command it sent, to the cell.                                           *)
EchoExact == [][TakesTerm => (pc' = "reading" <=> line = sent)]_vars

(* What send returns for a line is the decoding of the whole line, the part
   an earlier send read before it gave up included; only of a line longer
   than the parser's buffer it is the decoding of a tail.                  *)
WholeLineAnswered ==
  [][TakesTerm /\ pc' = "idle" =>
       \E n \in 0..Len(raw) :
         /\ result' = Decode(SubSeq(raw, n + 1, Len(raw)))
         /\ Len(raw) <= MAX_FRAME => n = 0]_vars

(* A send that got an answer leaves the session between two lines: the next
   one starts with an empty parser.                                        *)
CleanAfterAnswer == pc = "idle" /\ result.tag \in {"Ok", "Parse"} => pbuf = <<>> /\ raw = <<>>

(* Once the line is quiet every send returns: neither echoes nor dropped
   frames keep the loop running.                                           *)
NoArrival == \A c \in Alphabet : rxq' # Append(rxq, c)

ReturnsOnceQuiet == <>[][NoArrival]_vars => (pc = "reading" ~> pc = "idle")

(* Commented in send: rx_frame "accumulates the current frame's bytes" and
   frames "byte-identical to the command we sent" are skipped.  So a frame
   is skipped if and only if it is identical to the command.               *)
EchoIsWholeFrame == [][TakesTerm => (pc' = "reading" <=> raw = sent)]_vars
=============================================================================
