---------------------------- MODULE RequestReply ----------------------------
(***************************************************************************)
(* What an application expects of Session::send: a call that either is     *)
(* refused, or ends with an answer to this very command, or fails.         *)
(***************************************************************************)
CONSTANTS Commands,     \* what may be sent
          Valid(_),     \* whether a command is in range
          Answer(_),    \* the results that answer a command
          Refused,      \* the result of a command out of range
          Failures,     \* the results that say there was no answer
          NoResult      \* while there is no result

VARIABLES asked,    \* the commands of the call in progress: none, or one
          result

vars == <<asked, result>>

Init == asked = {} /\ result = NoResult

Refuse(cmd) ==
  /\ asked = {}
  /\ ~Valid(cmd)
  /\ result' = Refused
  /\ UNCHANGED asked

Call(cmd) ==
  /\ asked = {}
  /\ Valid(cmd)
  /\ asked' = {cmd}
  /\ result' = NoResult

Reply ==
  /\ asked # {}
  /\ \E cmd \in asked : result' \in Answer(cmd)
  /\ asked' = {}

Fail ==
  /\ asked # {}
  /\ result' \in Failures
  /\ asked' = {}

Next == (\E cmd \in Commands : Refuse(cmd) \/ Call(cmd)) \/ Reply \/ Fail

Spec == Init /\ [][Next]_vars /\ WF_vars(Reply \/ Fail)
=============================================================================
