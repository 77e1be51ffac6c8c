------------------------------- MODULE Client -------------------------------
(***************************************************************************)
(* The example programs (examples/*.rs) as users of a Session, each with a *)
(* rotator that may be silent, late, or refuse, over a TCP connection or a *)
(* serial line.  A serial line may lose cells in either direction, and     *)
(* replies on it may have checksums; TCP loses nothing.                    *)
(*                                                                         *)
(* tcp_poll asks for the position until the first error.  serial_home      *)
(* sends three commands, whatever becomes of each of them.  cli sends what *)
(* a user types.                                                           *)
(***************************************************************************)
EXTENDS Link

CONSTANTS Programs,     \* a subset of {"tcp_poll", "serial_home", "cli"}
          Typed,        \* the commands a user of cli may type
          MaxLosses,    \* bound: cells lost
          MaxTyped,     \* bound: frames that cli sends over a serial line
          MaxAhead      \* bound: cells the rotator has not read when cli sends

ASSUME ProgramsAssumption ==
  /\ Programs \subseteq {"tcp_poll", "serial_home", "cli"}
  /\ {MaxLosses, MaxTyped, MaxAhead} \subseteq Nat

(* What cli makes of the words it knows; numbers are parsed as u16.        *)
CliCommands ==
  [op : {"Azimuth"}, az : U16Values] \cup [op : {"Elevation"}, el : U16Values]
  \cup [op : {"AzimuthElevation"}, az : U16Values, el : U16Values]
  \cup [op : {"QueryPosition", "QueryStatus", "Stop", "KeepAlive"}]

ASSUME TypedAssumption == Typed \subseteq CliCommands

VARIABLES prog,      \* the program that runs
          medium,    \* "tcp" or "serial"
          at,        \* "call": before a send; "sent": in it; "ended"
          reports,   \* what serial_home has printed about each of its sends
          lost       \* history: cells lost on the line

clientVars == <<linkVars, prog, medium, at, reports, lost>>

Query == [op |-> "QueryPosition"]
Stop  == [op |-> "Stop"]
Home  == [op |-> "AzimuthElevation", az |-> 0, el |-> 0]

HomeCommands == <<Stop, Home, Query>>

(* They are among the commands that are sent at all.                        *)
ASSUME ProgramCommandsAssumption == Typed \cup {Stop, Home, Query} \subseteq Commands

Media(p) ==
  CASE p = "tcp_poll"    -> {"tcp"}
    [] p = "serial_home" -> {"serial"}
    [] p = "cli"         -> {"tcp", "serial"}

ClientInit ==
  /\ LinkInit
  /\ prog \in Programs
  /\ medium \in Media(prog)
  /\ at = "call"
  /\ reports = <<>>
  /\ lost = 0

-----------------------------------------------------------------------------
(* A program calls send.                                                   *)

PollCalls == prog = "tcp_poll" /\ HostSend(Query)

HomeCalls == prog = "serial_home" /\ HostSend(HomeCommands[Len(reports) + 1])

(* Words that are no command, blank lines and "help" send nothing.         *)
CliCalls ==
  /\ prog = "cli"
  /\ medium = "serial" => seq < MaxTyped
  /\ Len(txq) <= MaxAhead
  /\ \E cmd \in Typed : HostSend(cmd)

Call ==
  /\ at = "call"
  /\ PollCalls \/ HomeCalls \/ CliCalls
  /\ at' = "sent"
  /\ UNCHANGED <<prog, medium, reports, lost>>

-----------------------------------------------------------------------------
(* send has returned, and the program prints what it says.                 *)

Returned == at = "sent" /\ pc = "idle"

(* Mutant: tcp_poll goes on after an error.                                *)
PollPrintsAnyway ==
  /\ prog = "tcp_poll"
  /\ at' = "call"
  /\ UNCHANGED reports

(* Every response is printed; an error ends the program.                   *)
PollPrints ==
  /\ prog = "tcp_poll"
  /\ at' = IF result.tag = "Ok" THEN "call" ELSE "ended"
  /\ UNCHANGED reports

(* Mutant: what a send is to achieve is printed whatever it returns.       *)
VerdictUnseen(i, r) == <<"stopped", "accepted", "position">>[i]

(* The line serial_home prints about its i-th send.                        *)
Verdict(i, r) ==
  IF r.tag # "Ok" THEN "error"
  ELSE CASE i = 1                                  -> "stopped"
         [] i = 2 /\ r.resp = Ack                  -> "accepted"
         [] i = 2 /\ r.resp = DeviceError          -> "rejected"
         [] i = 3 /\ r.resp.kind = "Position"      -> "position"
         [] OTHER                                  -> "unexpected"

HomePrints ==
  /\ prog = "serial_home"
  /\ reports' = Append(reports, Verdict(Len(reports) + 1, result))
  /\ at' = IF Len(reports') = Len(HomeCommands) THEN "ended" ELSE "call"

CliPrints ==
  /\ prog = "cli"
  /\ at' = "call"
  /\ UNCHANGED reports

PrintResult ==
  /\ Returned
  /\ PollPrints \/ HomePrints \/ CliPrints
  /\ UNCHANGED <<linkVars, prog, medium, lost>>

(* "quit", the end of the input, an error in reading it, or an argument that
   is no number, which ends the process at once.                           *)
CliEnds ==
  /\ prog = "cli" /\ at = "call"
  /\ at' = "ended"
  /\ UNCHANGED <<linkVars, prog, medium, reports, lost>>

-----------------------------------------------------------------------------
(* The line and the rotator                                                *)

Receive   == HostReads /\ UNCHANGED <<prog, medium, at, reports, lost>>
Transmit  == Deliver /\ UNCHANGED <<prog, medium, at, reports, lost>>

Rotator ==
  /\ \E sum \in IF medium = "serial" THEN Checksums ELSE {FALSE} : DeviceRead(sum)
  /\ UNCHANGED <<prog, medium, at, reports, lost>>

(* The next cell to arrive, at the host or at the rotator, is lost instead.  *)
Lose ==
  /\ medium = "serial"
  /\ lost < MaxLosses
  /\ lost' = lost + 1
  /\ \/ wire # <<>> /\ wire' = Tail(wire) /\ UNCHANGED txq
     \/ txq # <<>> /\ txq' = Tail(txq) /\ UNCHANGED wire
  /\ UNCHANGED <<rxq, pbuf, pc, sent, rxFrame, result, raw, line, dbuf, replies,
                 historyVars, prog, medium, at, reports>>

ClientNext == Call \/ PrintResult \/ CliEnds \/ Receive \/ Transmit \/ Rotator \/ Lose

ClientSpec == ClientInit /\ [][ClientNext]_clientVars

-----------------------------------------------------------------------------
(* The types of the variables, and what each tells of the others: a program
   waits in send or has its result; only serial_home keeps a list.          *)
ClientTypeOK ==
  /\ LinkTypeOK
  /\ prog \in Programs /\ medium \in Media(prog)
  /\ at \in {"call", "sent", "ended"}
  /\ pc = "reading" => at = "sent"
  /\ Len(reports) <= Len(HomeCommands)
  /\ lost \in 0..MaxLosses

(* On a line that has lost nothing, whatever send returns as an answer is a
   reply the rotator made, whole and unmixed.                              *)
GenuineIfWhole == lost = 0 => Genuine

(* tcp_poll stops at the first error, and so every line it prints is the
   reply to the query it has just sent, however late replies may come.  A
   program that polls on after an error prints old positions.              *)
PollIsFresh ==
  prog = "tcp_poll" /\ Returned /\ result.tag = "Ok" =>
    src = seq /\ replies[seq] = [to |-> Query, resp |-> result.resp]

(* "Stopped." is printed for any response, and homing is sent in any case.  But
   it means that the rotator has answered the first line it read, if only
   with an error; and on a line that lost nothing, that it read Stop there. *)
StoppedIsHeard ==
  prog = "serial_home" /\ Len(reports) >= 1 /\ reports[1] = "stopped" =>
    /\ Len(replies) >= 1 /\ replies[1].resp # None
    /\ lost = 0 => replies[1].to = Stop

(* serial_home goes on after an error, and then what it prints about homing
   may be the late reply to Stop.  But if Stop was answered, then it tells
   what the rotator did with the homing command, lost cells or not.         *)
Obeyed(i, r) == Len(replies) >= i /\ replies[i].to = HomeCommands[i] /\ replies[i].resp = r

HomeIsTold ==
  /\ prog = "serial_home" /\ Len(reports) >= 2 /\ reports[1] = "stopped"
  /\ reports[2] = "accepted"
  => Obeyed(2, Ack)

(* The position serial_home ends with is one the rotator reported, even if
   sends before it failed and cells were lost.                             *)
Reported == {replies[i].resp : i \in DOMAIN replies}

HomePositionGenuine ==
  Len(reports) = 3 /\ reports[3] = "position" => result.resp \in Reported

(* Lost cells join replies: of two positions, one azimuth and the other
   elevation.  A line that has a checksum yields a reply the rotator made,
   or an error, as long as the angles in question have checksums that differ
   (those of 12 and 21 do not).                                            *)
HasChecksum(cells) == \E i \in DOMAIN cells : cells[i].k = "*#"

CheckedIsGenuine ==
  [][TakesTerm /\ HasChecksum(raw) /\ result'.tag = "Ok" => result'.resp \in Reported]_clientVars
=============================================================================
