------------------------ MODULE ResponseParserProofs ------------------------
(* Parser holds a tail of its line and implements the line decoder, for every
   capacity and every alphabet.                                             *)
EXTENDS ResponseParser, FramingFacts

IInv == TypeOK /\ BufferIsTail

LEMMA InitIInv == Init => IInv
  BY CapacitiesAssumption, EmptyKeepsTail DEF Init, IInv, TypeOK, BufferIsTail, None

LEMMA NextIInv == IInv /\ [Next]_vars => IInv'
<1> SUFFICES ASSUME IInv, [Next]_vars PROVE IInv'
  OBVIOUS
<1> USE DEF IInv
<1>1. CASE UNCHANGED vars
  BY <1>1 DEF vars, TypeOK, BufferIsTail, KeepsTail
<1>2. ASSUME NEW c \in Alphabet, FeedByte(c) PROVE IInv'
  <2>1. TypeOK'
    BY <1>2, FeedType DEF FeedByte, TypeOK
  <2>2. CASE IsTerm(c)
    <3>1. buf' = <<>> /\ line' = <<>>
      BY <1>2, <2>2 DEF FeedByte, Feed
    <3> QED
      BY <2>1, <3>1, EmptyKeepsTail, CapacitiesAssumption DEF BufferIsTail
  <2>3. CASE ~IsTerm(c)
    <3>1. buf' = Feed(buf, c).buf /\ line' = Append(line, c)
      BY <1>2, <2>3 DEF FeedByte
    <3>2. KeepsTail(Feed(buf, c).buf, Append(line, c), MAX_FRAME)
      BY <2>3, FeedKeepsTail DEF TypeOK, BufferIsTail
    <3> QED
      BY <2>1, <3>1, <3>2 DEF BufferIsTail
  <2> QED
    BY <2>2, <2>3
<1> QED
  BY <1>1, <1>2 DEF Next

(* The buffer stays within its array.                                       *)
THEOREM ParserTypeCorrect == Spec => []TypeOK
<1>1. IInv => TypeOK
  BY DEF IInv
<1> QED
  BY <1>1, InitIInv, NextIInv, PTL DEF Spec

(* The buffer is the whole line as long as it fits, and a tail of it after. *)
THEOREM ParserHoldsTail == Spec => []BufferIsTail
<1>1. IInv => BufferIsTail
  BY DEF IInv
<1> QED
  BY <1>1, InitIInv, NextIInv, PTL DEF Spec

-----------------------------------------------------------------------------
(* Every call of feed is a step of the line decoder.                        *)
LEMMA StepRefines == IInv /\ [Next]_vars => [L!Next]_(L!vars)
<1> SUFFICES ASSUME IInv, [Next]_vars PROVE [L!Next]_(L!vars)
  OBVIOUS
<1> USE DEF IInv
<1>1. CASE UNCHANGED vars
  BY <1>1 DEF vars, L!vars
<1>2. ASSUME NEW c \in Alphabet, FeedByte(c) PROVE L!Next
  <2>1. CASE IsTerm(c)
    <3>1. /\ line' = <<>>
          /\ out' = Decode(buf)
      BY <1>2, <2>1 DEF FeedByte, Feed
    <3>2. PICK n \in 0..Len(line) : /\ buf = SubSeq(line, n + 1, Len(line))
                                    /\ Len(line) <= MAX_FRAME => n = 0
      BY DEF BufferIsTail, KeepsTail
    <3>3. Len(line) - n <= MAX_FRAME
      BY <3>2 DEF TypeOK
    <3>4. out' = Decode(SubSeq(line, n + 1, Len(line)))
      BY <3>1, <3>2
    <3>5. L!Terminator(c)
      BY <2>1, <3>1, <3>2, <3>3, <3>4, Zenon DEF L!Terminator, L!IsTerm, IsTerm
    <3> QED
      BY <3>5 DEF L!Next
  <2>2. CASE ~IsTerm(c)
    <3>1. line' = Append(line, c)
      BY <1>2, <2>2 DEF FeedByte
    <3>2. out' = None \/ (Len(line) >= MAX_FRAME /\ out' = ParseError("UnexpectedEof"))
      <4>1. CASE Len(buf) < MAX_FRAME
        BY <1>2, <2>2, <4>1 DEF FeedByte, Feed
      <4>2. CASE ~(Len(buf) < MAX_FRAME)
        <5>1. out' = ParseError("UnexpectedEof")
          BY <1>2, <2>2, <4>2 DEF FeedByte, Feed
        <5>2. PICK n \in 0..Len(line) : buf = SubSeq(line, n + 1, Len(line))
          BY DEF BufferIsTail, KeepsTail
        <5>3. Len(buf) = Len(line) - n
          BY <5>2 DEF TypeOK
        <5> QED
          BY <4>2, <5>1, <5>3, CapacitiesAssumption DEF TypeOK
      <4> QED
        BY <4>1, <4>2
    <3>3. L!Text(c)
      BY <2>2, <3>1, <3>2 DEF L!Text, L!IsTerm, IsTerm, L!None, None
    <3> QED
      BY <3>3 DEF L!Next
  <2> QED
    BY <2>1, <2>2
<1> QED
  BY <1>1, <1>2 DEF Next

(* Parser implements the line decoder.                                      *)
THEOREM ParserDecodesLines == Spec => DecodesLines
<1>1. Init => L!Init
  BY DEF Init, L!Init, L!None, None
<1> QED
  BY <1>1, InitIInv, NextIInv, StepRefines, PTL DEF Spec, DecodesLines, L!Spec
=============================================================================
