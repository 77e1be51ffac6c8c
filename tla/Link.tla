-------------------------------- MODULE Link --------------------------------
(***************************************************************************)
(* A Session and a rotator on the two ends of a serial line.  The rotator  *)
(* reads with CommandParser and answers with encode_response_into, as the  *)
(* crate's device side is meant to be used; what its firmware decides to   *)
(* answer is outside the crate and left open within ResponsesTo.           *)
(***************************************************************************)
EXTENDS Session

CONSTANTS Positions,     \* the positions <<az, el>> the rotator may report
          Echoes,        \* the rotator echoes every byte it reads
          Newlines,      \* the rotator ends its lines with CR LF
          Rejects,       \* the rotator may answer with "?"
          Silences,      \* the rotator may not answer at all
          Checksums,     \* whether a reply has a checksum: a set of choices
          Late,          \* a read may give up while the answer is on its way
          WriteErrors,   \* a write may fail
          MaxSends       \* bound: frames written whole

ASSUME SwitchesAssumption ==
  /\ {Echoes, Newlines, Rejects, Silences, Late, WriteErrors} \subseteq BOOLEAN
  /\ Checksums \subseteq BOOLEAN
  /\ MaxSends \in Nat

(* Three digits are written of an angle.                                   *)
ASSUME PositionsAssumption == Positions \subseteq (0..999) \X (0..999)

(* A reply is two cells at most, and its checksum: a tenth of Parser.buf.  *)
ASSUME RepliesFitAssumption == MAX_FRAME >= 3

(* framing.rs:557: the longest command fits into the device's buffer, too.  *)
ASSUME CommandsFitAssumption ==
  \A cmd \in Commands : InRange(cmd) => Len(Payload(cmd)) <= MAX_CMD_FRAME

VARIABLES wire,     \* cells on their way to the host
          dbuf,     \* CommandParser.buf[..len]
          asked,    \* history: the command of the last send that was written
          replies,  \* history: for each frame the rotator read, the command it took
                    \* it for and what it answered, both perhaps None
          seq,      \* history: frames written whole
          misses,   \* history: of these, how many sends ended without an answer
          src       \* history: the frame whose answer the last answered send got

deviceVars == <<wire, dbuf, replies>>
historyVars == <<asked, seq, misses, src>>
linkVars == <<vars, deviceVars, historyVars>>

LinkInit ==
  /\ Init
  /\ wire = <<>> /\ dbuf = <<>> /\ replies = <<>>
  /\ asked = None /\ seq = 0 /\ misses = 0 /\ src = 0

-----------------------------------------------------------------------------
(* The rotator                                                             *)

(* What firmware answers to a command.                                     *)
ResponsesTo(cmd) ==
  (CASE cmd.op = "QueryPosition"  -> {[kind |-> "Position", az |-> p[1], el |-> p[2]] : p \in Positions}
     [] cmd.op = "QueryAzimuth"   -> {[kind |-> "AzimuthPosition", deg |-> p[1]] : p \in Positions}
     [] cmd.op = "QueryElevation" -> {[kind |-> "ElevationPosition", deg |-> p[2]] : p \in Positions}
     [] cmd.op \in {"QueryStatus", "GetStatusRegister"}
          -> {[kind |-> "Status", deg |-> 1], [kind |-> "StatusRegister", deg |-> 3]}
     [] cmd.op = "GetErrorRegister" -> {[kind |-> "ErrorRegister", deg |-> 0]}
     [] cmd.op = "ReadConfig"
          -> {[kind |-> "ConfigValue", register |-> cmd.register, value |-> -7]}
     [] OTHER -> {Ack})
  \cup (IF Rejects THEN {DeviceError} ELSE {})

Firmware(decoded) ==
  (IF decoded = None THEN {DeviceError, None} ELSE ResponsesTo(decoded))
  \cup (IF Silences THEN {None} ELSE {})

(* A reply as cells, with a checksum or without; its terminators carry the
   number of the frame that is answered, which only history variables read. *)
Summed(cells) ==
  Front(cells) \o <<Cell("*#", XorChecksum(Front(cells))), Last(cells)>>

ReplyFrame(r, sum, id) ==
  LET plain == EncodeResponse(r)
      cells == IF r = None THEN <<>>
               ELSE (IF sum THEN Summed(plain) ELSE plain) \o (IF Newlines THEN <<LF>> ELSE <<>>)
  IN  [i \in DOMAIN cells |-> IF IsTerm(cells[i]) THEN Cell(cells[i].k, id) ELSE cells[i]]

EchoOf(c) == IF Echoes THEN <<c>> ELSE <<>>

DeviceRead(sum) ==
  /\ txq # <<>>
  /\ LET c   == Head(txq)
         cmd == FeedCommand(dbuf, c).out
     IN
     /\ dbuf' = FeedCommand(dbuf, c).buf
     /\ IF IsTerm(c)
        THEN \E r \in Firmware(cmd) :
               /\ replies' = Append(replies, [to |-> cmd, resp |-> r])
               /\ wire' = wire \o EchoOf(c) \o ReplyFrame(r, sum, Len(replies'))
        ELSE /\ wire' = wire \o EchoOf(c)
             /\ UNCHANGED replies
  /\ txq' = Tail(txq)
  /\ UNCHANGED <<rxq, pbuf, pc, sent, rxFrame, result, raw, line, historyVars>>

(* A cell reaches the host's transport.                                    *)
Deliver ==
  /\ wire # <<>>
  /\ rxq' = Append(rxq, Head(wire))
  /\ wire' = Tail(wire)
  /\ UNCHANGED <<txq, pbuf, pc, sent, rxFrame, result, raw, line, dbuf, replies, historyVars>>

-----------------------------------------------------------------------------
(* The host                                                                *)

HostSend(cmd) ==
  /\ seq < MaxSends
  /\ \/ SendInvalid(cmd) /\ UNCHANGED historyVars
     \/ /\ SendWrite(cmd)
        /\ asked' = cmd
        /\ seq' = seq + 1
        /\ UNCHANGED <<misses, src>>
     \/ /\ WriteErrors
        /\ \E n \in 0..Len(EncodeInto(cmd)) :
             /\ SendWriteFails(cmd, n)
             /\ seq'    = IF n = Len(EncodeInto(cmd)) THEN seq + 1 ELSE seq
             /\ misses' = IF n = Len(EncodeInto(cmd)) THEN misses + 1 ELSE misses
        /\ UNCHANGED <<asked, src>>
  /\ UNCHANGED deviceVars

HostReadsText == ReadText /\ UNCHANGED <<deviceVars, historyVars>>

HostReadsTerm ==
  /\ ReadTerm
  /\ src' = IF pc' = "idle" THEN Head(rxq).v ELSE src
  /\ UNCHANGED <<deviceVars, asked, seq, misses>>

(* Unless it is Late, an answer comes within the transport's time limit.   *)
NothingComing == rxq = <<>> /\ wire = <<>> /\ txq = <<>>

HostGivesUp ==
  /\ Late \/ NothingComing
  /\ ReadNothing \/ ReadFails
  /\ misses' = misses + 1
  /\ UNCHANGED <<deviceVars, asked, seq, src>>

HostReads == HostReadsText \/ HostReadsTerm \/ HostGivesUp

LinkNext ==
  \/ \E cmd \in Commands : HostSend(cmd)
  \/ HostReads
  \/ \E sum \in Checksums : DeviceRead(sum)
  \/ Deliver

LinkSpec == LinkInit /\ [][LinkNext]_linkVars

(* Cells on the line arrive, the rotator reads what has arrived, and the loop
   of send runs on.                                                        *)
FairLinkSpec ==
  /\ LinkSpec
  /\ WF_linkVars(HostReads) /\ WF_linkVars(Deliver)
  /\ WF_linkVars(\E sum \in Checksums : DeviceRead(sum))

-----------------------------------------------------------------------------
(* The variables of the link beside those of the session.                  *)
LinkTypeOK ==
  /\ Len(dbuf) <= MAX_CMD_FRAME
  /\ Len(replies) <= seq /\ seq <= MaxSends
  /\ misses \in 0..seq /\ src \in 0..seq
  /\ result.tag \in {"Pending", "Ok", "Parse", "Timeout", "Transport", "InvalidParam"}

Answered == pc = "idle" /\ result.tag \in {"Ok", "Parse"}

(* Whatever send returns as an answer is a reply the rotator made, whole and
   unmixed, although sends give up in the middle of a reply, later sends read
   the rest, and failed writes leave half a command with the rotator.      *)
Genuine == Answered => src \in DOMAIN replies /\ result = Ok(replies[src].resp)

(* Replies are handed out in the order they were made, none of them twice. *)
InOrder == [][TakesTerm /\ pc' = "idle" => src' > src]_linkVars

(* An answer is late by at most as many sends as have ended without one: to a
   session in which nothing failed, every answer is that to its own command. *)
LagBound == Answered => seq - misses <= src /\ src <= seq

(* With a rotator that answers in time, echoes or not, a send is a remote
   procedure call: refused, or answered with an answer to its own command, or
   failed; and it returns.                                                 *)
AnswerTo(cmd) == {Ok(r) : r \in ResponsesTo(cmd)}

RR == INSTANCE RequestReply WITH
        Valid    <- InRange,
        Answer   <- AnswerTo,
        Refused  <- InvalidParam,
        Failures <- {Timeout, Transport},
        NoResult <- Pending,
        asked    <- IF pc = "reading" THEN {asked} ELSE {}

IsRequestReply == RR!Spec

(* Documented: Response::Error is "The device reported an error (returned
   `?`)".  So a send to a rotator that answers in time fails only if the
   rotator did not answer it.                                              *)
NoReplySwallowed ==
  pc = "idle" /\ result = Timeout => replies[seq].resp = None

(* Documented: the protocol has "optional newlines", and Error::Parse says
   that "the device returned a malformed frame".  So a rotator that sends only
   proper replies, each with a newline, causes no parse error.             *)
NewlineIsOptional == result.tag # "Parse"
=============================================================================
