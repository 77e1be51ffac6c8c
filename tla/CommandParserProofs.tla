------------------------ MODULE CommandParserProofs ------------------------
(* CommandParser implements the line decoder and lets no angle out of range
   through, for every capacity and every alphabet.                          *)
EXTENDS CommandParser, FramingFacts

IInv == TypeOK /\ BufferIsTail

(* A step of CommandParser::feed keeps its buffer within its array.         *)
LEMMA FeedCommandType ==
  ASSUME NEW S, NEW b \in Seq(S), NEW c \in S, Len(b) <= MAX_CMD_FRAME
  PROVE  /\ FeedCommand(b, c).buf \in Seq(S)
         /\ Len(FeedCommand(b, c).buf) <= MAX_CMD_FRAME
  BY CapacitiesAssumption DEF FeedCommand

(* A byte of text leaves the buffer a tail of the line it extends.          *)
LEMMA FeedCommandKeepsTail ==
  ASSUME NEW S, NEW l \in Seq(S), NEW b, NEW c \in S,
         ~IsTerm(c), KeepsTail(b, l, MAX_CMD_FRAME)
  PROVE  KeepsTail(FeedCommand(b, c).buf, Append(l, c), MAX_CMD_FRAME)
<1>1. PICK n \in 0..Len(l) : /\ b = SubSeq(l, n + 1, Len(l))
                             /\ Len(l) <= MAX_CMD_FRAME => n = 0
  BY DEF KeepsTail
<1>2. Len(Append(l, c)) = Len(l) + 1 /\ Len(b) = Len(l) - n
  BY <1>1
<1>3. CASE Len(b) < MAX_CMD_FRAME
  <2>1. FeedCommand(b, c).buf = SubSeq(Append(l, c), n + 1, Len(l) + 1)
    BY <1>1, <1>3, AppendToTail DEF FeedCommand
  <2>2. n \in 0..Len(Append(l, c))
    BY <1>2
  <2>3. FeedCommand(b, c).buf = SubSeq(Append(l, c), n + 1, Len(Append(l, c)))
    BY <1>2, <2>1
  <2>4. Len(Append(l, c)) <= MAX_CMD_FRAME => n = 0
    BY <1>1, <1>2, CapacitiesAssumption
  <2> QED
    BY <2>2, <2>3, <2>4, Zenon DEF KeepsTail
<1>4. CASE ~(Len(b) < MAX_CMD_FRAME)
  <2> DEFINE m == Len(l) + 1
  <2>1. FeedCommand(b, c).buf = <<>>
    BY <1>4 DEF FeedCommand
  <2>2. SubSeq(Append(l, c), m + 1, m) = <<>> /\ m > MAX_CMD_FRAME
    BY <1>1, <1>2, <1>4, CapacitiesAssumption
  <2>3. /\ m \in 0..Len(Append(l, c))
        /\ FeedCommand(b, c).buf = SubSeq(Append(l, c), m + 1, Len(Append(l, c)))
        /\ Len(Append(l, c)) <= MAX_CMD_FRAME => m = 0
    BY <1>2, <2>1, <2>2, CapacitiesAssumption
  <2> HIDE DEF m
  <2> QED
    BY <2>3, Zenon DEF KeepsTail
<1> QED
  BY <1>3, <1>4

-----------------------------------------------------------------------------
LEMMA InitIInv == Init => IInv
  BY CapacitiesAssumption, EmptyKeepsTail DEF Init, IInv, TypeOK, BufferIsTail

LEMMA NextIInv == IInv /\ [Next]_vars => IInv'
<1> SUFFICES ASSUME IInv, [Next]_vars PROVE IInv'
  OBVIOUS
<1> USE DEF IInv
<1>1. CASE UNCHANGED vars
  BY <1>1 DEF vars, TypeOK, BufferIsTail, KeepsTail
<1>2. ASSUME NEW c \in Alphabet, FeedByte(c) PROVE IInv'
  <2>1. TypeOK'
    BY <1>2, FeedCommandType DEF FeedByte, TypeOK
  <2>2. CASE IsTerm(c)
    <3>1. buf' = <<>> /\ line' = <<>>
      BY <1>2, <2>2 DEF FeedByte, FeedCommand
    <3> QED
      BY <2>1, <3>1, EmptyKeepsTail, CapacitiesAssumption DEF BufferIsTail
  <2>3. CASE ~IsTerm(c)
    <3>1. buf' = FeedCommand(buf, c).buf /\ line' = Append(line, c)
      BY <1>2, <2>3 DEF FeedByte
    <3>2. KeepsTail(FeedCommand(buf, c).buf, Append(line, c), MAX_CMD_FRAME)
      BY <2>3, FeedCommandKeepsTail DEF TypeOK, BufferIsTail
    <3> QED
      BY <2>1, <3>1, <3>2 DEF BufferIsTail
  <2> QED
    BY <2>2, <2>3
<1> QED
  BY <1>1, <1>2 DEF Next

(* The buffer stays within its array.                                       *)
THEOREM CommandParserTypeCorrect == Spec => []TypeOK
<1>1. IInv => TypeOK
  BY DEF IInv
<1> QED
  BY <1>1, InitIInv, NextIInv, PTL DEF Spec

(* However long a line is, the buffer is a tail of it, and the whole of a
   line that fits.                                                          *)
THEOREM CommandParserHoldsTail == Spec => []BufferIsTail
<1>1. IInv => BufferIsTail
  BY DEF IInv
<1> QED
  BY <1>1, InitIInv, NextIInv, PTL DEF Spec

(* Every call of feed is a step of the line decoder.                        *)
LEMMA StepRefines == IInv /\ [Next]_vars => [L!Next]_(L!vars)
<1> SUFFICES ASSUME IInv, [Next]_vars PROVE [L!Next]_(L!vars)
  OBVIOUS
<1> USE DEF IInv
<1>1. CASE UNCHANGED vars
  BY <1>1 DEF vars, L!vars
<1>2. ASSUME NEW c \in Alphabet, FeedByte(c) PROVE L!Next
  <2>1. CASE IsTerm(c)
    <3>1. line' = <<>> /\ out' = DecodeCommand(buf)
      BY <1>2, <2>1 DEF FeedByte, FeedCommand
    <3>2. PICK n \in 0..Len(line) : /\ buf = SubSeq(line, n + 1, Len(line))
                                    /\ Len(line) <= MAX_CMD_FRAME => n = 0
      BY DEF BufferIsTail, KeepsTail
    <3>3. Len(line) - n <= MAX_CMD_FRAME
      BY <3>2 DEF TypeOK
    <3>4. out' = DecodeCommand(SubSeq(line, n + 1, Len(line)))
      BY <3>1, <3>2
    <3>5. L!Terminator(c)
      BY <2>1, <3>1, <3>2, <3>3, <3>4, Zenon DEF L!Terminator, L!IsTerm, IsTerm
    <3> QED
      BY <3>5 DEF L!Next
  <2>2. CASE ~IsTerm(c)
    <3>1. line' = Append(line, c) /\ out' = None
      BY <1>2, <2>2 DEF FeedByte, FeedCommand
    <3>2. L!Text(c)
      BY <2>2, <3>1 DEF L!Text, L!IsTerm, IsTerm, L!None, None
    <3> QED
      BY <3>2 DEF L!Next
  <2> QED
    BY <2>1, <2>2
<1> QED
  BY <1>1, <1>2 DEF Next

(* CommandParser implements the line decoder.                               *)
THEOREM CommandParserDecodesLines == Spec => DecodesLines
<1>1. Init => L!Init
  BY DEF Init, L!Init, L!None, None
<1> QED
  BY <1>1, InitIInv, NextIInv, StepRefines, PTL DEF Spec, DecodesLines, L!Spec

-----------------------------------------------------------------------------
(* No command with an angle out of range reaches the firmware.              *)
THEOREM CommandParserOnlyInRange == Spec => []OnlyInRange
<1>1. Init => OnlyInRange
  BY DEF Init, OnlyInRange
<1>2. OnlyInRange /\ [Next]_vars => OnlyInRange'
  <2>1. ASSUME NEW c \in Alphabet, FeedByte(c) PROVE OnlyInRange'
    BY <2>1, DecodedInRange DEF FeedByte, FeedCommand, OnlyInRange
  <2> QED
    BY <2>1 DEF Next, vars, OnlyInRange
<1> QED
  BY <1>1, <1>2, PTL DEF Spec
=============================================================================
