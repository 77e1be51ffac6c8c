--------------------------- MODULE SessionProofs ---------------------------
(* What the two buffers of a session hold, when a frame is skipped as an echo
   and what a send answers, for every capacity, every set of commands and
   everything that may arrive.                                              *)
EXTENDS Session, FramingFacts

(* Every command that is being answered is shorter than rx_frame.           *)
SentFits == pc = "reading" => Len(sent) < RX_CAP

SessionInv(A) == HeldIn(A) /\ BufferInv /\ CleanAfterAnswer /\ SentFits

-----------------------------------------------------------------------------
(* A prefix is not changed by what is appended behind it.                   *)
LEMMA PrefixOfAppend ==
  ASSUME NEW S, NEW s \in Seq(S), NEW c \in S, NEW k \in 0..Len(s)
  PROVE  SubSeq(Append(s, c), 1, k) = SubSeq(s, 1, k)
<1> DEFINE a == SubSeq(Append(s, c), 1, k)
           b == SubSeq(s, 1, k)
<1>1. Append(s, c) \in Seq(S) /\ Len(Append(s, c)) = Len(s) + 1
  OBVIOUS
<1>2. a \in Seq(S) /\ Len(a) = k
  BY <1>1
<1>3. b \in Seq(S) /\ Len(b) = k
  OBVIOUS
<1>4. ASSUME NEW i \in 1..Len(a) PROVE a[i] = b[i]
  BY <1>1, <1>2, <1>3
<1> HIDE DEF a, b
<1>5. a = b
  BY <1>2, <1>3, <1>4, SeqEqual
<1> QED
  BY <1>5 DEF a, b

(* All of a sequence is a prefix of it.                                     *)
LEMMA WholePrefix ==
  ASSUME NEW S, NEW s \in Seq(S)
  PROVE  SubSeq(s, 1, Len(s)) = s
  OBVIOUS

(* Nothing is a tail of everything.                                         *)
LEMMA NothingIsTail ==
  ASSUME NEW S, NEW s \in Seq(S)
  PROVE  \E n \in 0..Len(s) : <<>> = SubSeq(s, n + 1, Len(s))
<1>1. Len(s) \in 0..Len(s) /\ <<>> = SubSeq(s, Len(s) + 1, Len(s))
  OBVIOUS
<1> QED
  BY <1>1

-----------------------------------------------------------------------------
LEMMA InitSession == ASSUME NEW A, Init PROVE SessionInv(A)
<1>1. HeldIn(A) /\ CleanAfterAnswer /\ SentFits
  BY CapacitiesAssumption, RxCapAssumption
     DEF Init, HeldIn, CleanAfterAnswer, SentFits, Pending
<1>2. ParserHoldsTail
  BY EmptyKeepsTail, CapacitiesAssumption DEF Init, ParserHoldsTail
<1>3. LineIsTail /\ FrameIsPrefix
  BY RxCapAssumption DEF Init, LineIsTail, FrameIsPrefix
<1> QED
  BY <1>1, <1>2, <1>3 DEF SessionInv, BufferInv

(* A step that leaves the buffers alone.                                    *)
LEMMA SameBuffers ==
  ASSUME BufferInv, UNCHANGED <<pbuf, raw, rxFrame, line>>
  PROVE  BufferInv'
  BY DEF BufferInv, ParserHoldsTail, KeepsTail, LineIsTail, FrameIsPrefix

(* A step that leaves the parser alone and starts or ends a send.           *)
LEMMA FreshFrame ==
  ASSUME NEW A, SessionInv(A), UNCHANGED <<pbuf, raw>>, rxFrame' = <<>>, line' = <<>>
  PROVE  BufferInv'
<1>1. ParserHoldsTail'
  BY DEF SessionInv, BufferInv, ParserHoldsTail, KeepsTail
<1>2. LineIsTail'
  BY NothingIsTail DEF SessionInv, HeldIn, LineIsTail
<1>3. FrameIsPrefix'
  BY RxCapAssumption DEF FrameIsPrefix
<1> QED
  BY <1>1, <1>2, <1>3 DEF BufferInv

(* A step that empties all of them.                                         *)
LEMMA AllEmpty ==
  ASSUME pbuf' = <<>>, raw' = <<>>, rxFrame' = <<>>, line' = <<>>
  PROVE  BufferInv'
<1>1. ParserHoldsTail'
  BY EmptyKeepsTail, CapacitiesAssumption DEF ParserHoldsTail
<1>2. LineIsTail'
  BY DEF LineIsTail
<1>3. FrameIsPrefix'
  BY RxCapAssumption DEF FrameIsPrefix
<1> QED
  BY <1>1, <1>2, <1>3 DEF BufferInv

LEMMA SendInvalidKeeps == ASSUME NEW A, SessionInv(A), NEW cmd \in Commands, SendInvalid(cmd) PROVE SessionInv(A)'
<1>1. BufferInv'
  BY SameBuffers DEF SessionInv, SendInvalid
<1> QED
  BY <1>1 DEF SessionInv, HeldIn, CleanAfterAnswer, SentFits, SendInvalid, InvalidParam

LEMMA SendWriteKeeps == ASSUME NEW A, SessionInv(A), NEW cmd \in Commands, SendWrite(cmd) PROVE SessionInv(A)'
<1>1. BufferInv'
  BY FreshFrame DEF SendWrite
<1>2. SentFits'
  BY CommandsAssumption DEF SendWrite, SentFits
<1>3. HeldIn(A)' /\ CleanAfterAnswer'
  BY RxCapAssumption DEF SessionInv, HeldIn, CleanAfterAnswer, SendWrite, Pending
<1> QED
  BY <1>1, <1>2, <1>3 DEF SessionInv

LEMMA SendWriteFailsKeeps ==
  ASSUME NEW A, SessionInv(A), NEW cmd, NEW n, SendWriteFails(cmd, n) PROVE SessionInv(A)'
<1>1. BufferInv'
  BY SameBuffers DEF SessionInv, SendWriteFails
<1> QED
  BY <1>1 DEF SessionInv, HeldIn, CleanAfterAnswer, SentFits, SendWriteFails, Transport

LEMMA ReadTextKeeps == ASSUME NEW A, SessionInv(A), ReadText PROVE SessionInv(A)'
<1> DEFINE c == Head(rxq)
<1> USE DEF SessionInv
<1>1. /\ c \in A /\ ~IsTerm(c)
      /\ rxq' = Tail(rxq) /\ rxq' \in Seq(A)
      /\ pbuf' = Feed(pbuf, c).buf
      /\ raw' = Append(raw, c) /\ raw' \in Seq(A)
      /\ line' = Append(line, c) /\ line' \in Seq(A)
      /\ rxFrame' = IF Len(rxFrame) < RX_CAP THEN Append(rxFrame, c) ELSE rxFrame
      /\ pc = "reading" /\ UNCHANGED <<pc, sent, result>>
  BY DEF ReadText, HeldIn
<1> HIDE DEF c
<1>2. pbuf' \in Seq(A) /\ Len(pbuf') <= MAX_FRAME
  BY <1>1, FeedType DEF HeldIn
<1>3. rxFrame' \in Seq(A) /\ Len(rxFrame') <= RX_CAP
  BY <1>1, RxCapAssumption DEF HeldIn
<1>4. HeldIn(A)' /\ CleanAfterAnswer' /\ SentFits'
  BY <1>1, <1>2, <1>3 DEF HeldIn, CleanAfterAnswer, SentFits
<1>5. ParserHoldsTail'
  BY <1>1, FeedKeepsTail DEF HeldIn, BufferInv, ParserHoldsTail
<1>6. LineIsTail'
  <2>1. PICK n \in 0..Len(raw) : line = SubSeq(raw, n + 1, Len(raw))
    BY DEF BufferInv, LineIsTail
  <2>2. SubSeq(Append(raw, c), n + 1, Len(raw) + 1) = Append(line, c)
    BY <1>1, <2>1, AppendToTail DEF HeldIn
  <2>3. Len(raw') = Len(raw) + 1 /\ n \in 0..Len(raw')
    BY <1>1 DEF HeldIn
  <2>4. line' = SubSeq(raw', n + 1, Len(raw'))
    BY <1>1, <2>2, <2>3
  <2> QED
    BY <2>3, <2>4 DEF LineIsTail
<1>7. FrameIsPrefix'
  <2>1. Len(line') = Len(line) + 1 /\ Len(line) \in Nat
    BY <1>1 DEF HeldIn
  <2>2. CASE Len(line) < RX_CAP
    <3>1. rxFrame = line
      BY <2>2, WholePrefix DEF HeldIn, BufferInv, FrameIsPrefix
    <3>2. rxFrame' = line'
      BY <1>1, <2>2, <3>1
    <3>3. SubSeq(line', 1, Len(line')) = line'
      BY <1>1, WholePrefix
    <3> QED
      BY <2>1, <2>2, <3>2, <3>3, RxCapAssumption DEF FrameIsPrefix
  <2>3. CASE ~(Len(line) < RX_CAP)
    <3>1. rxFrame = SubSeq(line, 1, RX_CAP) /\ Len(rxFrame) = RX_CAP
      BY <2>1, <2>3, RxCapAssumption DEF HeldIn, BufferInv, FrameIsPrefix
    <3>2. rxFrame' = rxFrame
      BY <1>1, <3>1, RxCapAssumption
    <3>3. SubSeq(line', 1, RX_CAP) = SubSeq(line, 1, RX_CAP)
      BY <1>1, <2>1, <2>3, PrefixOfAppend, RxCapAssumption DEF HeldIn
    <3> QED
      BY <2>1, <2>3, <3>1, <3>2, <3>3, RxCapAssumption DEF FrameIsPrefix
  <2> QED
    BY <2>2, <2>3
<1> QED
  BY <1>4, <1>5, <1>6, <1>7 DEF BufferInv

(* A terminator empties the parser and makes it decode what it held.        *)
LEMMA TermFacts ==
  ASSUME NEW A, SessionInv(A), ReadTerm
  PROVE  /\ pbuf' = <<>> /\ raw' = <<>> /\ rxFrame' = <<>> /\ line' = <<>>
         /\ rxq' = Tail(rxq) /\ rxq' \in Seq(A)
         /\ pc = "reading"
         /\ \/ rxFrame = sent /\ UNCHANGED <<pc, sent, result>>
            \/ rxFrame # sent /\ pc' = "idle" /\ sent' = <<>> /\ result' = Decode(pbuf)
  BY DEF SessionInv, HeldIn, ReadTerm, Return, Feed

LEMMA ReadTermKeeps == ASSUME NEW A, SessionInv(A), ReadTerm PROVE SessionInv(A)'
<1>1. BufferInv'
  BY TermFacts, AllEmpty
<1>2. result'.tag \in {"Pending", "Ok", "Parse", "Timeout", "Transport", "InvalidParam"}
  BY TermFacts, DecodeTag DEF SessionInv, HeldIn
<1>3. HeldIn(A)'
  <2>1. pc' \in {"idle", "reading"} /\ (pc' = "idle" => sent' = <<>>)
    BY TermFacts
  <2>2. <<>> \in Seq(A) /\ Len(<<>>) = 0
    OBVIOUS
  <2>3. rxq' \in Seq(A) /\ pbuf' = <<>> /\ raw' = <<>> /\ rxFrame' = <<>> /\ line' = <<>>
    BY TermFacts
  <2> QED
    BY <1>2, <2>1, <2>2, <2>3, CapacitiesAssumption, RxCapAssumption DEF HeldIn
<1>4. CleanAfterAnswer' /\ SentFits'
  BY TermFacts DEF SessionInv, CleanAfterAnswer, SentFits
<1> QED
  BY <1>1, <1>3, <1>4 DEF SessionInv

LEMMA GiveUpKeeps ==
  ASSUME NEW A, SessionInv(A), ReadNothing \/ ReadFails PROVE SessionInv(A)'
<1>1. /\ rxFrame' = <<>> /\ line' = <<>> /\ sent' = <<>> /\ pc' = "idle"
      /\ UNCHANGED <<rxq, pbuf, raw>>
      /\ result'.tag \in {"Timeout", "Transport"}
  BY DEF ReadNothing, ReadFails, Return, Timeout, Transport
<1>2. BufferInv'
  BY <1>1, FreshFrame
<1>3. HeldIn(A)' /\ CleanAfterAnswer' /\ SentFits'
  BY <1>1, RxCapAssumption DEF SessionInv, HeldIn, CleanAfterAnswer, SentFits
<1> QED
  BY <1>2, <1>3 DEF SessionInv

LEMMA ReopenKeeps == ASSUME NEW A, SessionInv(A), Reopen PROVE SessionInv(A)'
<1>1. BufferInv'
  BY AllEmpty DEF SessionInv, HeldIn, Reopen
<1> QED
  BY <1>1, CapacitiesAssumption
     DEF SessionInv, HeldIn, CleanAfterAnswer, SentFits, Reopen, Pending

(* Whatever else happens at most brings cells.                              *)
LEMMA OthersKeep ==
  ASSUME NEW A, SessionInv(A), UNCHANGED <<pbuf, pc, sent, rxFrame, result, raw, line>>, rxq' \in Seq(A)
  PROVE  SessionInv(A)'
<1>1. BufferInv'
  BY SameBuffers DEF SessionInv
<1> QED
  BY <1>1 DEF SessionInv, HeldIn, CleanAfterAnswer, SentFits

(* What arrives may be anything.                                            *)
LEMMA MoreCells ==
  ASSUME NEW A, NEW B, A \subseteq B, SessionInv(A) PROVE SessionInv(B)
<1>1. \A s \in Seq(A) : s \in Seq(B)
  OBVIOUS
<1> QED
  BY <1>1 DEF SessionInv, HeldIn

LEMMA NextSession == SessionInv(Alphabet) /\ [Next]_vars => SessionInv(Alphabet)'
<1> SUFFICES ASSUME SessionInv(Alphabet), [Next]_vars PROVE SessionInv(Alphabet)'
  OBVIOUS
<1>1. CASE UNCHANGED vars \/ Take
  <2>1. UNCHANGED <<rxq, pbuf, pc, sent, rxFrame, result, raw, line>>
    BY <1>1 DEF vars, Take
  <2>2. rxq' \in Seq(Alphabet)
    BY <2>1 DEF SessionInv, HeldIn
  <2> QED
    BY <2>1, <2>2, OthersKeep
<1>2. ASSUME NEW cmd \in Commands, Send(cmd) PROVE SessionInv(Alphabet)'
  BY <1>2, SendInvalidKeeps, SendWriteKeeps, SendWriteFailsKeeps DEF Send
<1>3. CASE Read
  BY <1>3, ReadTextKeeps, ReadTermKeeps, GiveUpKeeps DEF Read
<1>4. CASE Reopen
  BY <1>4, ReopenKeeps
<1>5. ASSUME NEW c \in Alphabet, Arrive(c) PROVE SessionInv(Alphabet)'
  <2>1. rxq \in Seq(Alphabet) /\ rxq' = Append(rxq, c)
    BY <1>5 DEF SessionInv, HeldIn, Arrive
  <2>2. rxq' \in Seq(Alphabet) /\ UNCHANGED <<pbuf, pc, sent, rxFrame, result, raw, line>>
    BY <1>5, <2>1 DEF Arrive
  <2> QED
    BY <2>2, OthersKeep
<1> QED
  BY <1>1, <1>2, <1>3, <1>4, <1>5 DEF Next

(* The strengthened invariant holds in every reachable state.               *)
THEOREM SessionInvariant == Spec => []SessionInv(Alphabet)
<1>1. Init => SessionInv(Alphabet)
  BY InitSession
<1> QED
  BY <1>1, NextSession, PTL DEF Spec

-----------------------------------------------------------------------------
(* The buffers of a session stay within their arrays.                       *)
THEOREM SessionTypeCorrect == Spec => []TypeOK
<1>1. SessionInv(Alphabet) => TypeOK
  BY DEF SessionInv, TypeOK
<1> QED
  BY <1>1, SessionInvariant, PTL

(* What the parser and rx_frame hold, of one stream, across sends.          *)
THEOREM SessionBuffers == Spec => []BufferInv
<1>1. SessionInv(Alphabet) => BufferInv
  BY DEF SessionInv
<1> QED
  BY <1>1, SessionInvariant, PTL

(* An answered send leaves the session between two lines.                   *)
THEOREM SessionCleanAfterAnswer == Spec => []CleanAfterAnswer
<1>1. SessionInv(Alphabet) => CleanAfterAnswer
  BY DEF SessionInv
<1> QED
  BY <1>1, SessionInvariant, PTL

(* A step that takes a terminator is ReadTerm.                              *)
LEMMA OnlyReadTermTakes ==
  ASSUME SessionInv(Alphabet), [Next]_vars, TakesTerm PROVE ReadTerm
<1>1. rxq \in Seq(Alphabet) /\ rxq # <<>> /\ Len(rxq') = Len(rxq) - 1 /\ Len(rxq) \in Nat
  BY DEF SessionInv, HeldIn, TakesTerm
<1>2. rxq' # rxq
  BY <1>1
<1>3. ASSUME NEW c \in Alphabet PROVE ~Arrive(c)
  <2>1. Len(Append(rxq, c)) = Len(rxq) + 1
    BY <1>1
  <2> QED
    BY <1>1, <2>1 DEF Arrive
<1>4. ~ReadText
  BY DEF TakesTerm, ReadText
<1>5. ASSUME NEW cmd \in Commands PROVE ~Send(cmd)
  BY <1>2 DEF Send, SendInvalid, SendWrite, SendWriteFails
<1> QED
  BY <1>2, <1>3, <1>4, <1>5 DEF Next, vars, Read, ReadNothing, ReadFails, Reopen, Take

(* rx_frame equals the command exactly when the line does, although it is
   capped: a line longer than the cap is longer than every command.         *)
LEMMA CapIsHarmless ==
  ASSUME NEW A, SessionInv(A), pc = "reading" PROVE rxFrame = sent <=> line = sent
<1>1. Len(line) \in Nat /\ line \in Seq(A) /\ Len(sent) < RX_CAP
  BY DEF SessionInv, HeldIn, SentFits
<1>2. CASE Len(line) < RX_CAP
  BY <1>1, <1>2, WholePrefix DEF SessionInv, BufferInv, FrameIsPrefix
<1>3. CASE ~(Len(line) < RX_CAP)
  <2>1. Len(rxFrame) = RX_CAP
    BY <1>1, <1>3, RxCapAssumption DEF SessionInv, BufferInv, FrameIsPrefix
  <2> QED
    BY <1>1, <1>3, <2>1, RxCapAssumption
<1> QED
  BY <1>2, <1>3

(* send goes on waiting exactly after its own command, whole and alone.     *)
THEOREM SessionEchoExact == Spec => EchoExact
<1>1. SessionInv(Alphabet) /\ [Next]_vars => [TakesTerm => (pc' = "reading" <=> line = sent)]_vars
  <2> SUFFICES ASSUME SessionInv(Alphabet), [Next]_vars, TakesTerm
               PROVE  pc' = "reading" <=> line = sent
    OBVIOUS
  <2>1. ReadTerm
    BY OnlyReadTermTakes
  <2> QED
    BY <2>1, TermFacts, CapIsHarmless
<1> QED
  BY <1>1, SessionInvariant, PTL DEF Spec, EchoExact

(* What send returns for a line is the decoding of the whole line, across
   sends, or of a tail of a line longer than the parser's buffer.           *)
THEOREM SessionWholeLine == Spec => WholeLineAnswered
<1> DEFINE Answer == \E n \in 0..Len(raw) :
                       /\ result' = Decode(SubSeq(raw, n + 1, Len(raw)))
                       /\ Len(raw) <= MAX_FRAME => n = 0
<1>1. SessionInv(Alphabet) /\ [Next]_vars => [TakesTerm /\ pc' = "idle" => Answer]_vars
  <2> SUFFICES ASSUME SessionInv(Alphabet), [Next]_vars, TakesTerm, pc' = "idle"
               PROVE  Answer
    OBVIOUS
  <2>1. result' = Decode(pbuf)
    BY OnlyReadTermTakes, TermFacts
  <2>2. PICK n \in 0..Len(raw) : /\ pbuf = SubSeq(raw, n + 1, Len(raw))
                                 /\ Len(raw) <= MAX_FRAME => n = 0
    BY DEF SessionInv, BufferInv, ParserHoldsTail, KeepsTail
  <2> QED
    BY <2>1, <2>2, Zenon
<1> QED
  BY <1>1, SessionInvariant, PTL DEF Spec, WholeLineAnswered
=============================================================================
