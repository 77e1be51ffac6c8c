------------------------------- MODULE Lines -------------------------------
(***************************************************************************)
(* What a byte-by-byte frame parser promises, whatever it keeps between    *)
(* calls.  A line of at most Limit cells is decoded whole at its terminator. *)
(* Of a longer line some tail is decoded; cells it drops may be reported   *)
(* as they arrive.  Nothing survives a terminator.                         *)
(***************************************************************************)
EXTENDS Wire

CONSTANTS Limit,        \* longest line that is decoded whole
          Cells,        \* what may arrive
          Meaning(_),   \* what a frame decodes to
          Overflow      \* what a call that drops cells returns

VARIABLES line,   \* the cells since the last terminator
          out     \* what the last call returned

vars == <<line, out>>

Init == line = <<>> /\ out = None

Text(c) ==
  /\ ~IsTerm(c)
  /\ line' = Append(line, c)
  /\ \/ out' = None
     \/ Len(line) >= Limit /\ out' = Overflow

Terminator(c) ==
  /\ IsTerm(c)
  /\ line' = <<>>
  /\ \E n \in 0..Len(line) :
       /\ Len(line) - n <= Limit
       /\ Len(line) <= Limit => n = 0
       /\ out' = Meaning(SubSeq(line, n + 1, Len(line)))

Next == \E c \in Cells : Text(c) \/ Terminator(c)

Spec == Init /\ [][Next]_vars
=============================================================================
