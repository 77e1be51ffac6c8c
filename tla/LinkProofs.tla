----------------------------- MODULE LinkProofs -----------------------------
(* With a rotator that answers in time, echoes or not, a send is refused, or
   ends with an answer to its own command, or fails.                         *)
EXTENDS Link, FramingFacts

-----------------------------------------------------------------------------
(* A reply is decoded as what the rotator said                              *)

(* The register of a query the rotator reads is a u16.                      *)
LEMMA RegisterRead ==
  ASSUME NEW f, DecodeCommand(f) # None, DecodeCommand(f).op = "ReadConfig"
  PROVE  FitsU16(DecodeCommand(f).register)
<1> DEFINE Reads(d) == d # None /\ d.op = "ReadConfig"
<1>1. ASSUME NEW k PROVE ~Reads(Keyword(k))
  BY DEF Keyword, None
<1>2. ASSUME NEW s PROVE ~Reads(DecodeFixed(s))
  BY DEF DecodeFixed
<1>3. ASSUME NEW s PROVE ~Reads(DecodeAxes(s))
  <2> DEFINE space == FirstOf(s, {" #", " EL=#", " EL#", "SA SE"})
             left  == SubSeq(s, 1, space - 1)
             right == SubSeq(s, space, Len(s))
             combined == /\ space # 0
                         /\ IsFloat(left, {"AZ#"}) /\ left[1].v <= 360
                         /\ IsFloat(right, {" EL#"}) /\ right[1].v <= 180
             azimuth   == IsFloat(s, {"AZ#"}) /\ s[1].v <= 360
             elevation == IsFloat(s, {"EL#"}) /\ s[1].v <= 180
  <2>1. DecodeAxes(s) =
          IF combined THEN [op |-> "AzimuthElevation", az |-> left[1].v, el |-> right[1].v]
          ELSE IF azimuth THEN [op |-> "Azimuth", az |-> s[1].v]
          ELSE IF elevation THEN [op |-> "Elevation", el |-> s[1].v]
          ELSE None
    BY Zenon DEF DecodeAxes
  <2> HIDE DEF combined, azimuth, elevation, left, right
  <2> QED
    BY <2>1
<1>4. ASSUME NEW s, Reads(TryParseEasycomm(s)) PROVE FitsU16(TryParseEasycomm(s).register)
  <2>1. CASE IsNumber(s, "CR#") /\ TryParseEasycomm(s) = [op |-> "ReadConfig", register |-> s[1].v]
    BY <2>1 DEF IsNumber
  <2> QED
    BY <1>3, <1>4, <2>1 DEF TryParseEasycomm
<1> HIDE DEF Reads
<1>5. Reads(DecodeCommand(f))
  BY DEF Reads
<1>6. \/ DecodeCommand(f) = None
      \/ \E k : DecodeCommand(f) = Keyword(k)
      \/ \E s : DecodeCommand(f) = DecodeFixed(s)
      \/ \E s : DecodeCommand(f) = TryParseEasycomm(s)
  BY Zenon DEF DecodeCommand
<1> QED
  BY <1>1, <1>2, <1>4, <1>5, <1>6, Zenon

(* Whatever the rotator answers has room in its frame.                      *)
LEMMA AnswersFit ==
  ASSUME NEW f, NEW r \in Firmware(DecodeCommand(f)), r # None PROVE Representable(r)
<1> DEFINE cmd == DecodeCommand(f)
<1>1. Representable(DeviceError) /\ Representable(Ack)
  BY Zenon DEF Representable
<1>2. \A q : q \in (IF Rejects THEN {DeviceError} ELSE {}) => Representable(q)
  BY <1>1, Zenon
<1>3. ASSUME NEW p \in Positions
      PROVE  /\ Representable([kind |-> "Position", az |-> p[1], el |-> p[2]])
             /\ Representable([kind |-> "AzimuthPosition", deg |-> p[1]])
             /\ Representable([kind |-> "ElevationPosition", deg |-> p[2]])
  <2>1. p[1] \in ThreeDigitNumbers /\ p[2] \in ThreeDigitNumbers
    BY PositionsAssumption DEF ThreeDigitNumbers
  <2> QED
    BY <2>1, Zenon DEF Representable
<1>4. /\ Representable([kind |-> "Status", deg |-> 1])
      /\ Representable([kind |-> "StatusRegister", deg |-> 3])
      /\ Representable([kind |-> "ErrorRegister", deg |-> 0])
  <2>1. 1 \in 1..6 /\ FitsU16(3) /\ FitsU16(0)
    BY DEF FitsU16
  <2> QED
    BY <2>1, Zenon DEF Representable
<1>5. ASSUME cmd # None, cmd.op = "ReadConfig"
      PROVE  Representable([kind |-> "ConfigValue", register |-> cmd.register, value |-> -7])
  <2>1. FitsU16(cmd.register)
    BY <1>5, RegisterRead
  <2> QED
    BY <2>1, Zenon DEF Representable
<1> HIDE DEF cmd
<1>6. ASSUME cmd # None, NEW q \in ResponsesTo(cmd) PROVE Representable(q)
  <2>1. CASE cmd.op = "QueryPosition"
    BY <1>2, <1>3, <1>6, <2>1, Zenon DEF ResponsesTo
  <2>2. CASE cmd.op = "QueryAzimuth"
    BY <1>2, <1>3, <1>6, <2>2 DEF ResponsesTo
  <2>3. CASE cmd.op = "QueryElevation"
    BY <1>2, <1>3, <1>6, <2>3 DEF ResponsesTo
  <2>4. CASE cmd.op \in {"QueryStatus", "GetStatusRegister"}
    BY <1>2, <1>4, <1>6, <2>4 DEF ResponsesTo
  <2>5. CASE cmd.op = "GetErrorRegister"
    BY <1>2, <1>4, <1>6, <2>5 DEF ResponsesTo
  <2>6. CASE cmd.op = "ReadConfig"
    BY <1>2, <1>5, <1>6, <2>6 DEF ResponsesTo
  <2>7. CASE cmd.op \notin {"QueryPosition", "QueryAzimuth", "QueryElevation", "QueryStatus",
                            "GetStatusRegister", "GetErrorRegister", "ReadConfig"}
    BY <1>1, <1>2, <1>6, <2>7 DEF ResponsesTo
  <2> QED
    BY <2>1, <2>2, <2>3, <2>4, <2>5, <2>6, <2>7
<1> QED
  BY <1>1, <1>6 DEF Firmware, cmd

(* A reply as it is on the line, in two parts.                              *)
Says(r, text, t, id) ==
  IsText(text) /\ Len(text) \in 1..3 /\ Decode(text) = Ok(r) /\ IsTerm(t) /\ t.v = id

IsReply(f, r, id) == \E text, t : Says(r, text, t, id) /\ f = Append(text, t)

(* A reply as it is on the line: text that is decoded as what was answered, and
   a terminator with the number of the frame.                               *)
LEMMA ReplySpoken ==
  ASSUME Newlines = FALSE, NEW r, r # None, Representable(r), NEW sum \in BOOLEAN, NEW id
  PROVE  IsReply(ReplyFrame(r, sum, id), r, id)
<1>1. PICK plain, c : /\ IsText(plain) /\ NoStar(plain) /\ plain # <<>> /\ Len(plain) <= 2
                      /\ DecodePayload(plain) = Ok(r)
                      /\ IsTerm(c) /\ EncodeResponse(r) = Append(plain, c)
  BY ResponseCoded, Zenon DEF Coded
<1> DEFINE star == Cell("*#", XorChecksum(plain))
           text == IF sum THEN Append(plain, star) ELSE plain
           t    == Cell(c.k, id)
<1>2. PICK S : plain \in Seq(S)
  BY <1>1 DEF IsText
<1>3. ~IsTerm(star)
  BY DEF IsTerm, Cell
<1>4. IsTerm(t) /\ t.v = id
  BY <1>1 DEF IsTerm, Cell
<1>5. Decode(text) = Ok(r)
  BY <1>1, DecodePlain, DecodeSummed
<1> HIDE DEF star
<1>6. /\ IsText(text) /\ Len(text) \in 1..3
      /\ \E T : text \in Seq(T)
  <2>1. CASE sum
    <3> DEFINE a == Append(plain, star)
    <3>1. plain \in Seq(S \cup {star}) /\ star \in S \cup {star} /\ Len(plain) \in Nat /\ Len(plain) # 0
      BY <1>1, <1>2
    <3>2. /\ a \in Seq(S \cup {star}) /\ Len(a) = Len(plain) + 1 /\ a[Len(plain) + 1] = star
          /\ \A i \in 1..Len(plain) : a[i] = plain[i]
      BY <3>1
    <3>3. text = a
      BY <2>1
    <3> HIDE DEF a
    <3>4. \A i \in 1..Len(a) : ~IsTerm(a[i])
      <4> SUFFICES ASSUME NEW i \in 1..Len(a) PROVE ~IsTerm(a[i])
        OBVIOUS
      <4>1. i \in 1..Len(plain) \/ i = Len(plain) + 1
        BY <3>1, <3>2
      <4> QED
        BY <1>1, <1>3, <3>2, <4>1, Zenon DEF IsText
    <3>5. Len(a) \in 1..3
      BY <1>1, <3>1, <3>2
    <3> HIDE DEF text
    <3> QED
      BY <3>2, <3>3, <3>4, <3>5, Zenon DEF IsText
  <2>2. CASE ~sum
    <3>0. Len(plain) <= 2
      BY <1>1
    <3>1. Len(plain) \in Nat /\ Len(plain) # 0
      BY <1>1, <1>2
    <3>2. text = plain
      BY <2>2
    <3> HIDE DEF text
    <3>3. Len(plain) \in 1..3
      <4>1. ASSUME NEW n \in Nat, n # 0, n <= 2 PROVE n \in 1..3
        BY <4>1
      <4> QED
        BY <3>0, <3>1, <4>1, Zenon
    <3> QED
      BY <1>1, <1>2, <3>2, <3>3, Zenon
  <2> HIDE DEF text
  <2> QED
    BY <2>1, <2>2, Zenon
<1>7. (IF sum THEN Summed(EncodeResponse(r)) ELSE EncodeResponse(r)) = Append(text, c)
  <2>1. CASE sum
    <3>1. Front(Append(plain, c)) = plain /\ Last(Append(plain, c)) = c
      BY <1>1, FrontOfFrame
    <3>2. Summed(EncodeResponse(r)) = plain \o <<star, c>>
      BY <1>1, <3>1 DEF Summed, star
    <3>3. c \in S \cup {c, star} /\ star \in S \cup {c, star} /\ plain \in Seq(S \cup {c, star})
      BY <1>2
    <3>4. ASSUME NEW T, NEW x \in T, NEW y \in T, NEW q \in Seq(T)
          PROVE  q \o <<x, y>> = Append(Append(q, x), y)
      OBVIOUS
    <3> QED
      BY <2>1, <3>2, <3>3, <3>4
  <2>2. CASE ~sum
    BY <1>1, <2>2
  <2> QED
    BY <2>1, <2>2
<1> HIDE DEF text
<1>8. PICK T : text \in Seq(T)
  BY <1>6
<1> DEFINE cells == Append(text, c)
           frame == Append(text, t)
<1>9. text \in Seq(T \cup {c, t}) /\ c \in T \cup {c, t} /\ t \in T \cup {c, t} /\ Len(text) \in Nat
  BY <1>8
<1> HIDE DEF t
<1>10. /\ cells \in Seq(T \cup {c, t}) /\ Len(cells) = Len(text) + 1
       /\ cells[Len(text) + 1] = c /\ \A i \in 1..Len(text) : cells[i] = text[i]
       /\ cells \o <<>> = cells /\ DOMAIN cells = 1..(Len(text) + 1)
  BY <1>9
<1>11. /\ frame \in Seq(T \cup {c, t}) /\ Len(frame) = Len(text) + 1
       /\ frame[Len(text) + 1] = t /\ \A i \in 1..Len(text) : frame[i] = text[i]
  BY <1>9
<1> HIDE DEF frame
<1>15. frame = [i \in 1..(Len(text) + 1) |-> frame[i]]
  BY <1>11
<1>12. ReplyFrame(r, sum, id)
         = [i \in DOMAIN cells |-> IF IsTerm(cells[i]) THEN Cell(cells[i].k, id) ELSE cells[i]]
  <2>1. ReplyFrame(r, sum, id)
         = [i \in DOMAIN (cells \o <<>>) |->
              IF IsTerm((cells \o <<>>)[i]) THEN Cell((cells \o <<>>)[i].k, id) ELSE (cells \o <<>>)[i]]
    BY <1>7 DEF ReplyFrame
  <2> QED
    BY <1>10, <2>1
<1> HIDE DEF cells
<1>13. ASSUME NEW i \in 1..(Len(text) + 1)
       PROVE  (IF IsTerm(cells[i]) THEN Cell(cells[i].k, id) ELSE cells[i]) = frame[i]
  <2>1. CASE i \in 1..Len(text)
    BY <1>6, <1>10, <1>11, <2>1, Zenon DEF IsText
  <2>2. CASE i = Len(text) + 1
    BY <1>1, <1>10, <1>11, <2>2, Zenon DEF t
  <2> QED
    BY <1>9, <2>1, <2>2
<1>14. ReplyFrame(r, sum, id) = frame
  BY <1>10, <1>15, <1>12, <1>13
<1>16. Says(r, text, t, id)
  BY <1>4, <1>5, <1>6 DEF Says
<1>17. ReplyFrame(r, sum, id) = Append(text, t)
  BY <1>14 DEF frame
<1> QED
  BY <1>16, <1>17 DEF IsReply

-----------------------------------------------------------------------------
(* What is on its way to the host                                           *)

(* A cell goes from the head of one queue to the end of another.            *)
LEMMA CellMoves ==
  ASSUME NEW S, NEW a \in Seq(S), NEW b \in Seq(S), b # <<>>
  PROVE  Append(a, Head(b)) \o Tail(b) = a \o b
<1>1. Head(b) \in S /\ Tail(b) \in Seq(S) /\ <<Head(b)>> \in Seq(S)
  BY HeadTailProperties
<1>2. Append(a, Head(b)) = a \o <<Head(b)>> /\ <<Head(b)>> \o Tail(b) = b
  OBVIOUS
<1>3. (a \o <<Head(b)>>) \o Tail(b) = a \o (<<Head(b)>> \o Tail(b))
  BY <1>1, ConcatAssociative, SMTT(60)
<1> QED
  BY <1>2, <1>3

LEMMA HeadOfConcat ==
  ASSUME NEW S, NEW a \in Seq(S), NEW b \in Seq(S), a # <<>>
  PROVE  /\ a \o b \in Seq(S) /\ a \o b # <<>>
         /\ Head(a \o b) = Head(a) /\ Tail(a \o b) = Tail(a) \o b
<1>1. Head(a) \in S /\ Tail(a) \in Seq(S) /\ <<Head(a)>> \in Seq(S) /\ a = <<Head(a)>> \o Tail(a)
  BY HeadTailProperties
<1>2. a \o b = <<Head(a)>> \o (Tail(a) \o b) /\ Tail(a) \o b \in Seq(S)
  BY <1>1, ConcatAssociative
<1>3. ASSUME NEW x \in S, NEW q \in Seq(S)
      PROVE  /\ <<x>> \o q \in Seq(S) /\ <<x>> \o q # <<>>
             /\ Head(<<x>> \o q) = x /\ Tail(<<x>> \o q) = q
  OBVIOUS
<1> QED
  BY <1>1, <1>2, <1>3

LEMMA NothingIsText == IsText(<<>>) /\ <<>> \in Seq({}) /\ Len(<<>>) = 0
<1>1. <<>> \in Seq({}) /\ Len(<<>>) = 0 /\ 1..0 = {}
  OBVIOUS
<1> QED
  BY <1>1 DEF IsText

(* What the host has read of a line and what is on its way to it.           *)
Stream == raw \o (rxq \o wire)

LEMMA StreamGrows ==
  ASSUME NEW S, raw \in Seq(S), rxq \in Seq(S), wire \in Seq(S), UNCHANGED <<raw, rxq>>,
         NEW g \in Seq(S), wire' = wire \o g
  PROVE  Stream' = Stream \o g /\ wire' \in Seq(S) /\ Stream \in Seq(S)
<1>1. rxq \o wire \in Seq(S) /\ wire' \in Seq(S)
  <2>1. rxq \o wire \in Seq(S) /\ wire \o g \in Seq(S)
    BY ConcatProperties
  <2> QED
    BY <2>1
<1>2. (rxq \o wire) \o g = rxq \o (wire \o g)
  BY ConcatAssociative, SMTT(60)
<1>3. (raw \o (rxq \o wire)) \o g = raw \o ((rxq \o wire) \o g)
  BY <1>1, ConcatAssociative, SMTT(60)
<1>4. raw \o (rxq \o wire) \in Seq(S)
  BY <1>1, ConcatProperties
<1> QED
  BY <1>1, <1>2, <1>3, <1>4 DEF Stream

-----------------------------------------------------------------------------
(* Reading a line                                                           *)

(* a has been read, q is to be read: together the line u, t and then f.      *)
Ahead(a, q, u, t, f) ==
  /\ \E S : a \in Seq(S) /\ q \in Seq(S) /\ u \in Seq(S) /\ t \in S /\ f \in Seq(S)
  /\ a \o q = Append(u, t) \o f
  /\ IsText(a) /\ IsText(u) /\ IsTerm(t)

LEMMA TextGrows ==
  ASSUME NEW S, NEW a \in Seq(S), NEW c \in S, IsText(a), ~IsTerm(c)
  PROVE  IsText(Append(a, c))
<1> DEFINE b == Append(a, c)
<1>1. /\ b \in Seq(S) /\ Len(b) = Len(a) + 1 /\ Len(a) \in Nat /\ b[Len(a) + 1] = c
      /\ \A i \in 1..Len(a) : b[i] = a[i]
  OBVIOUS
<1> HIDE DEF b
<1>2. ASSUME NEW i \in 1..Len(b) PROVE ~IsTerm(b[i])
  <2>1. i \in 1..Len(a) \/ i = Len(a) + 1
    BY <1>1
  <2>2. \A j \in 1..Len(a) : ~IsTerm(a[j])
    BY DEF IsText
  <2> QED
    BY <1>1, <2>1, <2>2, Zenon
<1> QED
  BY <1>1, <1>2, Zenon DEF IsText, b

(* The next cell is text as long as not all of u has been read.             *)
LEMMA AheadCell ==
  ASSUME NEW a, NEW q, NEW u, NEW t, NEW f, Ahead(a, q, u, t, f)
  PROVE  /\ q # <<>> /\ Len(a) <= Len(u) /\ Len(a) \in Nat /\ Len(u) \in Nat
         /\ ~IsTerm(Head(q)) => Len(a) < Len(u) /\ Ahead(Append(a, Head(q)), Tail(q), u, t, f)
         /\ IsTerm(Head(q)) => a = u /\ Head(q) = t /\ Tail(q) = f
<1>1. PICK S : a \in Seq(S) /\ q \in Seq(S) /\ u \in Seq(S) /\ t \in S /\ f \in Seq(S)
  BY DEF Ahead
<1> DEFINE s == a \o q
           m == Len(a)
           n == Len(u)
<1>2. m \in Nat /\ n \in Nat /\ Len(q) \in Nat /\ Len(f) \in Nat
  BY <1>1
<1>3. /\ s \in Seq(S) /\ Len(s) = m + Len(q)
      /\ \A i \in 1..m : s[i] = a[i]
      /\ \A i \in 1..Len(q) : s[m + i] = q[i]
  <2>1. /\ s \in Seq(S) /\ Len(s) = m + Len(q)
        /\ \A i \in 1..(m + Len(q)) : s[i] = IF i <= m THEN a[i] ELSE q[i - m]
    BY <1>1, ConcatProperties
  <2> HIDE DEF s, m
  <2>2. ASSUME NEW i \in 1..m PROVE s[i] = a[i]
    BY <1>2, <2>1
  <2>3. ASSUME NEW i \in 1..Len(q) PROVE s[m + i] = q[i]
    <3>1. m + i \in 1..(m + Len(q)) /\ ~(m + i <= m) /\ (m + i) - m = i
      BY <1>2
    <3> QED
      BY <2>1, <3>1
  <2> QED
    BY <2>1, <2>2, <2>3
<1>4. /\ Len(s) = n + 1 + Len(f)
      /\ \A i \in 1..n : s[i] = u[i]
      /\ s[n + 1] = t
      /\ \A i \in 1..Len(f) : s[n + 1 + i] = f[i]
  <2> DEFINE v == Append(u, t)
  <2>1. /\ v \in Seq(S) /\ Len(v) = n + 1 /\ v[n + 1] = t
        /\ \A i \in 1..n : v[i] = u[i]
    BY <1>1
  <2>2. s = v \o f
    BY DEF Ahead
  <2> HIDE DEF v, s, n
  <2>3. /\ Len(s) = Len(v) + Len(f)
        /\ \A i \in 1..(Len(v) + Len(f)) : s[i] = IF i <= Len(v) THEN v[i] ELSE f[i - Len(v)]
    <3>1. v \in Seq(S) /\ f \in Seq(S)
      BY <1>1, <2>1
    <3> QED
      BY <2>2, <3>1, ConcatProperties, SMTT(60)
  <2>4. Len(s) = n + 1 + Len(f)
    BY <1>2, <2>1, <2>3
  <2>5. ASSUME NEW i \in 1..n PROVE s[i] = u[i]
    <3>1. i \in 1..(Len(v) + Len(f)) /\ i <= Len(v)
      BY <1>2, <2>1
    <3> QED
      BY <2>1, <2>3, <3>1
  <2>6. s[n + 1] = t
    <3>1. n + 1 \in 1..(Len(v) + Len(f)) /\ n + 1 <= Len(v)
      BY <1>2, <2>1
    <3> QED
      BY <2>1, <2>3, <3>1
  <2>7. ASSUME NEW i \in 1..Len(f) PROVE s[n + 1 + i] = f[i]
    <3>1. n + 1 + i \in 1..(Len(v) + Len(f)) /\ ~(n + 1 + i <= Len(v)) /\ (n + 1 + i) - Len(v) = i
      BY <1>2, <2>1
    <3> QED
      BY <2>3, <3>1
  <2> QED
    BY <2>4, <2>5, <2>6, <2>7
<1> HIDE DEF s, m, n
<1>5. m <= n
  <2> SUFFICES ASSUME n + 1 <= m PROVE FALSE
    BY <1>2
  <2>1. n + 1 \in 1..m
    BY <1>2
  <2> QED
    BY <1>3, <1>4, <2>1 DEF Ahead, IsText, m
<1>6. q # <<>> /\ Len(q) # 0
  <2>1. Len(q) # 0
    BY <1>2, <1>3, <1>4, <1>5
  <2> QED
    BY <1>1, <2>1
<1>7. Head(q) = s[m + 1] /\ Head(q) \in S /\ Tail(q) \in Seq(S)
  <2>1. Head(q) = q[1] /\ 1 \in 1..Len(q)
    BY <1>1, <1>6
  <2> QED
    BY <1>1, <1>3, <1>6, <2>1
<1>8. ASSUME ~IsTerm(Head(q))
      PROVE  m < n /\ Ahead(Append(a, Head(q)), Tail(q), u, t, f)
  <2>1. m # n
    BY <1>4, <1>7, <1>8 DEF Ahead
  <2>2. Append(a, Head(q)) \in Seq(S) /\ IsText(Append(a, Head(q)))
    BY <1>1, <1>7, <1>8, TextGrows DEF Ahead
  <2>3. Append(a, Head(q)) \o Tail(q) = a \o q
    BY <1>1, <1>6, CellMoves
  <2>4. Append(a, Head(q)) \o Tail(q) = Append(u, t) \o f
    BY <2>3 DEF Ahead
  <2>5. Ahead(Append(a, Head(q)), Tail(q), u, t, f)
    BY <1>1, <1>7, <2>2, <2>4, Zenon DEF Ahead
  <2> QED
    BY <1>2, <1>5, <2>1, <2>5
<1>9. ASSUME IsTerm(Head(q))
      PROVE  a = u /\ Head(q) = t /\ Tail(q) = f
  <2>1. m = n
    <3> SUFFICES ASSUME m # n PROVE FALSE
      OBVIOUS
    <3>1. m + 1 \in 1..n
      BY <1>2, <1>5
    <3>2. s[m + 1] = u[m + 1]
      BY <1>4, <3>1
    <3> QED
      BY <1>7, <1>9, <3>1, <3>2 DEF Ahead, IsText, n
  <2>2. a = u
    BY <1>1, <1>3, <1>4, <2>1, SeqEqual DEF m, n
  <2>3. Head(q) = t
    BY <1>4, <1>7, <2>1
  <2>4. Tail(q) = f
    <3>1. Len(Tail(q)) = Len(q) - 1 /\ \A i \in 1..(Len(q) - 1) : Tail(q)[i] = q[i + 1]
      BY <1>1, <1>6
    <3>2. Len(q) - 1 = Len(f)
      BY <1>2, <1>3, <1>4, <2>1
    <3>3. ASSUME NEW i \in 1..Len(f) PROVE Tail(q)[i] = f[i]
      <4>1. i + 1 \in 1..Len(q) /\ m + (i + 1) = n + 1 + i /\ i \in 1..(Len(q) - 1)
        BY <1>2, <2>1, <3>2
      <4>2. s[m + (i + 1)] = q[i + 1]
        BY <1>3, <4>1
      <4>3. s[n + 1 + i] = f[i]
        BY <1>4
      <4> QED
        BY <3>1, <4>1, <4>2, <4>3
    <3> QED
      BY <1>1, <1>7, <3>1, <3>2, <3>3, SeqEqual
  <2> QED
    BY <2>2, <2>3, <2>4
<1> QED
  BY <1>2, <1>5, <1>6, <1>8, <1>9 DEF m, n

-----------------------------------------------------------------------------
(* A send and what becomes of it                                            *)

(* A line that answers cmd, or nothing.                                     *)
AnswerLine(f, cmd) ==
  \/ f = <<>>
  \/ \E text, t : /\ IsText(text) /\ Len(text) \in 1..3 /\ IsTerm(t) /\ f = Append(text, t)
                  /\ Decode(text) \in AnswerTo(cmd)

(* What the rotator has not read of a command ends it; what it has read has
   been echoed.                                                             *)
Written(cmd) ==
  /\ Ahead(dbuf, txq, Payload(cmd), CR, <<>>)
  /\ Stream = (IF Echoes THEN dbuf ELSE <<>>)
  /\ rxFrame = raw

(* The echo, and then the answer, are on their way.                         *)
Echoing(cmd) ==
  /\ txq = <<>> /\ dbuf = <<>>
  /\ rxFrame = raw
  /\ \E f : AnswerLine(f, cmd) /\ Ahead(raw, rxq \o wire, Payload(cmd), CR, f)

(* The answer is on its way; or there is none, or it is taken for an echo.   *)
Answering(cmd) ==
  /\ txq = <<>> /\ dbuf = <<>>
  /\ AnswerLine(Stream, cmd)

(* Between two sends nothing is on the line and nothing is left in a parser,
   and within one there is at most one command and one answer.              *)
PhaseInv ==
  /\ \E S : raw \in Seq(S) /\ rxq \in Seq(S) /\ wire \in Seq(S)
  /\ IsText(raw) /\ pbuf = raw
  /\ pc \in {"idle", "reading"}
  /\ pc = "idle" => txq = <<>> /\ dbuf = <<>> /\ Stream = <<>>
  /\ pc = "reading" => /\ asked \in Commands /\ InRange(asked) /\ sent = Payload(asked)
                       /\ Written(asked) \/ Echoing(asked) \/ Answering(asked)

LEMMA InitPhaseInv == LinkInit => PhaseInv
<1> SUFFICES ASSUME LinkInit PROVE PhaseInv
  OBVIOUS
<1>1. /\ raw = <<>> /\ rxq = <<>> /\ wire = <<>> /\ pbuf = <<>> /\ pc = "idle"
      /\ txq = <<>> /\ dbuf = <<>>
  BY DEF LinkInit, Init
<1>2. Stream = <<>>
  BY <1>1 DEF Stream
<1>3. \E S : raw \in Seq(S) /\ rxq \in Seq(S) /\ wire \in Seq(S)
  BY <1>1, NothingIsText, Zenon
<1> QED
  BY <1>1, <1>2, <1>3, NothingIsText DEF PhaseInv

(* A command is text, shorter than each of the buffers it goes through.     *)
LEMMA CommandFits ==
  ASSUME NEW cmd \in Commands, InRange(cmd)
  PROVE  /\ IsText(Payload(cmd)) /\ Len(Payload(cmd)) \in 1..3
         /\ Len(Payload(cmd)) < RX_CAP /\ Len(Payload(cmd)) <= MAX_CMD_FRAME
         /\ DecodeCommand(Payload(cmd)) # None
         /\ ResponsesTo(DecodeCommand(Payload(cmd))) = ResponsesTo(cmd)
<1>1. PICK heard : HeardFor(heard, cmd)
  BY PayloadHeard, TypesAssumption
<1>2. /\ IsText(Payload(cmd)) /\ Len(Payload(cmd)) \in 1..3 /\ DecodeCommand(Payload(cmd)) = heard
      /\ heard # None
      /\ cmd.op \notin {"QueryStatus", "Offset"} => heard = cmd
      /\ cmd.op = "QueryStatus" => heard = [op |-> "GetStatusRegister"]
      /\ cmd.op = "Offset" => heard.op = "Offset"
  BY <1>1, Zenon DEF HeardFor, Spoken
<1>3. ResponsesTo(heard) = ResponsesTo(cmd)
  <2>1. CASE cmd.op = "QueryStatus"
    <3>1. heard.op = "GetStatusRegister"
      BY <1>2, <2>1
    <3> QED
      BY <2>1, <3>1 DEF ResponsesTo
  <2>2. CASE cmd.op = "Offset"
    <3>1. heard.op = "Offset"
      BY <1>2, <2>2
    <3> QED
      BY <2>2, <3>1 DEF ResponsesTo
  <2> QED
    BY <1>2, <2>1, <2>2
<1> QED
  BY <1>2, <1>3, CommandsAssumption, CommandsFitAssumption

(* An answer on its way is a line ahead.                                    *)
LEMMA AnswerAhead ==
  ASSUME NEW cmd, PhaseInv, AnswerLine(Stream, cmd)
  PROVE  \/ Stream = <<>>
         \/ \E text, t : /\ Ahead(raw, rxq \o wire, text, t, <<>>)
                         /\ Len(text) \in 1..3 /\ Decode(text) \in AnswerTo(cmd)
                         /\ Stream = Append(text, t)
<1> SUFFICES ASSUME Stream # <<>>
             PROVE  \E text, t : /\ Ahead(raw, rxq \o wire, text, t, <<>>)
                                 /\ Len(text) \in 1..3 /\ Decode(text) \in AnswerTo(cmd)
                                 /\ Stream = Append(text, t)
  OBVIOUS
<1>1. PICK text, t : /\ IsText(text) /\ Len(text) \in 1..3 /\ IsTerm(t)
                     /\ Stream = Append(text, t) /\ Decode(text) \in AnswerTo(cmd)
  BY DEF AnswerLine
<1>2. PICK S : raw \in Seq(S) /\ rxq \in Seq(S) /\ wire \in Seq(S)
  BY DEF PhaseInv
<1>3. PICK T : text \in Seq(T)
  BY <1>1 DEF IsText
<1> DEFINE U == S \cup T \cup {t}
           q == rxq \o wire
<1>4. raw \in Seq(U) /\ rxq \in Seq(U) /\ wire \in Seq(U) /\ text \in Seq(U) /\ t \in U /\ <<>> \in Seq(U)
  BY <1>2, <1>3
<1> HIDE DEF U
<1>5. q \in Seq(U)
  BY <1>4, ConcatProperties
<1>6. Append(text, t) \o <<>> = Append(text, t)
  BY <1>4
<1>7. raw \o q = Append(text, t) \o <<>>
  BY <1>1, <1>6 DEF Stream
<1> HIDE DEF q
<1>8. Ahead(raw, q, text, t, <<>>)
  BY <1>1, <1>4, <1>5, <1>7 DEF Ahead, PhaseInv
<1> QED
  BY <1>1, <1>8, Zenon DEF q

(* Nothing more is coming: no send is half way.                             *)
LEMMA NothingHalfWay ==
  ASSUME PhaseInv, pc = "reading", NothingComing
  PROVE  dbuf = <<>> /\ Stream = <<>>
<1>1. rxq = <<>> /\ wire = <<>> /\ txq = <<>>
  BY DEF NothingComing
<1>2. rxq \o wire = <<>>
  BY <1>1
<1>3. ~Written(asked) /\ ~Echoing(asked)
  BY <1>1, <1>2, AheadCell DEF Written, Echoing
<1>4. Answering(asked)
  BY <1>3 DEF PhaseInv
<1>5. \A u, t : ~Ahead(raw, rxq \o wire, u, t, <<>>)
  BY <1>2, AheadCell
<1>6. Stream = <<>>
  BY <1>4, <1>5, AnswerAhead DEF Answering
<1> QED
  BY <1>4, <1>6 DEF Answering

-----------------------------------------------------------------------------
(* The steps of the host                                                    *)

(* A step that leaves the line, the buffers and the send alone.             *)
LEMMA SamePhase ==
  ASSUME PhaseInv,
         UNCHANGED <<raw, rxq, wire, pbuf, pc, txq, dbuf, asked, sent, rxFrame>>
  PROVE  PhaseInv'
<1>1. Stream' = Stream
  BY DEF Stream
<1>2. /\ Written(asked) => Written(asked)'
      /\ Echoing(asked) => Echoing(asked)'
      /\ Answering(asked) => Answering(asked)'
  BY <1>1 DEF Written, Echoing, Answering
<1> QED
  BY <1>1, <1>2 DEF PhaseInv

(* A step that moves a cell to the host's transport.                        *)
LEMMA DeliverKeepsPhase ==
  ASSUME PhaseInv, Deliver PROVE PhaseInv' /\ UNCHANGED <<pc, asked, result>>
<1>1. /\ wire # <<>> /\ rxq' = Append(rxq, Head(wire)) /\ wire' = Tail(wire)
      /\ UNCHANGED <<raw, pbuf, pc, txq, dbuf, asked, sent, rxFrame, result>>
  BY DEF Deliver, historyVars
<1>2. PICK S : raw \in Seq(S) /\ rxq \in Seq(S) /\ wire \in Seq(S)
  BY DEF PhaseInv
<1>3. rxq' \o wire' = rxq \o wire
  BY <1>1, <1>2, CellMoves
<1>4. rxq' \in Seq(S) /\ wire' \in Seq(S) /\ raw' \in Seq(S)
  BY <1>1, <1>2
<1>5. Stream' = Stream
  BY <1>1, <1>3 DEF Stream
<1>6. Written(asked) => Written(asked)'
  BY <1>1, <1>5 DEF Written
<1>7. Echoing(asked) => Echoing(asked)'
  BY <1>1, <1>3 DEF Echoing
<1>8. Answering(asked) => Answering(asked)'
  BY <1>1, <1>5 DEF Answering
<1> QED
  BY <1>1, <1>4, <1>5, <1>6, <1>7, <1>8 DEF PhaseInv

(* send up to its first read: the line is empty, and holds the command.     *)
LEMMA SendKeepsPhase ==
  ASSUME WriteErrors = FALSE, PhaseInv, NEW cmd \in Commands, HostSend(cmd)
  PROVE  PhaseInv' /\ RR!Next
<1>1. CASE SendInvalid(cmd) /\ UNCHANGED <<historyVars, deviceVars>>
  <2>1. PhaseInv'
    BY <1>1, SamePhase DEF SendInvalid, historyVars, deviceVars
  <2>2. RR!Refuse(cmd)
    BY <1>1 DEF RR!Refuse, SendInvalid, historyVars
  <2> QED
    BY <2>1, <2>2 DEF RR!Next
<1>2. CASE SendWrite(cmd) /\ asked' = cmd /\ UNCHANGED deviceVars
  <2>1. /\ pc = "idle" /\ InRange(cmd) /\ pc' = "reading" /\ sent' = Payload(cmd) /\ rxFrame' = <<>>
        /\ result' = Pending /\ asked' = cmd /\ txq' = txq \o EncodeInto(cmd)
        /\ UNCHANGED <<rxq, pbuf, raw, wire, dbuf>>
    BY <1>2 DEF SendWrite, deviceVars
  <2>2. /\ txq = <<>> /\ dbuf = <<>> /\ Stream = <<>>
    BY <2>1 DEF PhaseInv
  <2>3. PICK S : raw \in Seq(S) /\ rxq \in Seq(S) /\ wire \in Seq(S)
    BY DEF PhaseInv
  <2>4. raw = <<>>
    <3>1. rxq \o wire \in Seq(S)
      BY <2>3, ConcatProperties
    <3>2. Len(raw \o (rxq \o wire)) = Len(raw) + Len(rxq \o wire)
      BY <2>3, <3>1, ConcatProperties
    <3>3. Len(raw \o (rxq \o wire)) = 0
      BY <2>2 DEF Stream
    <3>4. Len(raw) \in Nat /\ Len(rxq \o wire) \in Nat
      BY <2>3, <3>1
    <3> HIDE DEF Stream
    <3> QED
      BY <2>3, <3>2, <3>3, <3>4
  <2>5. PICK T : Payload(cmd) \in Seq(T)
    BY <2>1, CommandFits DEF IsText
  <2> DEFINE U == T \cup {CR}
             p == Payload(cmd)
             a == Append(p, CR)
  <2>6. p \in Seq(U) /\ CR \in U /\ a \in Seq(U) /\ <<>> \in Seq(U) /\ <<>> \o a = a /\ a \o <<>> = a
    BY <2>5
  <2>7. txq' = a
    BY <2>1, <2>2, <2>6 DEF EncodeInto
  <2> HIDE DEF U
  <2>8. IsText(p) /\ IsText(<<>>) /\ IsTerm(CR)
    BY <2>1, CommandFits, NothingIsText, WordTerms
  <2> HIDE DEF p
  <2>9. <<>> \o a = Append(p, CR) \o <<>>
    BY <2>6
  <2> HIDE DEF a
  <2>10. Ahead(<<>>, a, p, CR, <<>>)
    BY <2>6, <2>8, <2>9, Zenon DEF Ahead
  <2>11. Ahead(dbuf, txq, Payload(asked), CR, <<>>)'
    BY <2>1, <2>2, <2>7, <2>10 DEF p
  <2>12. Stream' = <<>>
    BY <2>1, <2>2 DEF Stream
  <2>13. Written(asked)'
    BY <2>1, <2>2, <2>4, <2>11, <2>12 DEF Written
  <2>14. PhaseInv'
    BY <2>1, <2>3, <2>12, <2>13 DEF PhaseInv
  <2>15. RR!Call(cmd)
    BY <2>1 DEF RR!Call
  <2> QED
    BY <2>14, <2>15 DEF RR!Next
<1> QED
  BY <1>1, <1>2 DEF HostSend

(* A send gives up only when nothing is on its way.                         *)
LEMMA GivesUpKeepsPhase ==
  ASSUME Late = FALSE, PhaseInv, HostGivesUp PROVE PhaseInv' /\ RR!Next
<1>1. /\ pc = "reading" /\ NothingComing /\ pc' = "idle" /\ result' \in {Timeout, Transport}
      /\ UNCHANGED <<rxq, txq, pbuf, raw, wire, dbuf, asked>>
  BY DEF HostGivesUp, ReadNothing, ReadFails, Return, deviceVars
<1>2. dbuf = <<>> /\ Stream = <<>> /\ txq = <<>>
  BY <1>1, NothingHalfWay DEF NothingComing
<1>3. Stream' = <<>>
  BY <1>1, <1>2 DEF Stream
<1>4. PhaseInv'
  BY <1>1, <1>2, <1>3 DEF PhaseInv
<1>5. RR!Fail
  BY <1>1 DEF RR!Fail
<1> QED
  BY <1>4, <1>5 DEF RR!Next

(* A line of at most three cells that is not all read has room for another. *)
LEMMA RoomForCell ==
  ASSUME NEW n \in Nat, NEW m \in 1..3, n < m
  PROVE  n < MAX_FRAME /\ (m < RX_CAP => n < RX_CAP)
  BY RepliesFitAssumption, RxCapAssumption, CapacitiesAssumption

(* What is read next of a text is text.                                     *)
LEMMA TextAhead ==
  ASSUME NEW S, NEW a \in Seq(S), NEW q \in Seq(S), q # <<>>, IsText(a \o q)
  PROVE  ~IsTerm(Head(q)) /\ Len(a) \in Nat /\ Len(a) < Len(a \o q)
<1> DEFINE s == a \o q
           n == Len(a)
<1>1. /\ s \in Seq(S) /\ Len(s) = n + Len(q)
      /\ \A i \in 1..(n + Len(q)) : s[i] = IF i <= n THEN a[i] ELSE q[i - n]
  BY ConcatProperties
<1>2. n \in Nat /\ Len(q) \in Nat /\ Len(q) # 0 /\ Head(q) = q[1]
  OBVIOUS
<1> HIDE DEF s, n
<1>3. n + 1 \in 1..(n + Len(q)) /\ ~(n + 1 <= n) /\ (n + 1) - n = 1
  BY <1>2
<1>4. s[n + 1] = q[1]
  BY <1>1, <1>3
<1>5. ~IsTerm(s[n + 1])
  BY <1>1, <1>3 DEF IsText, s
<1>6. n < Len(s)
  BY <1>1, <1>2
<1> QED
  BY <1>2, <1>4, <1>5, <1>6 DEF s, n

(* What the host reads is the head of all that is coming.                   *)
LEMMA Coming ==
  ASSUME PhaseInv, rxq # <<>>
  PROVE  \E S : /\ raw \in Seq(S) /\ rxq \in Seq(S) /\ wire \in Seq(S) /\ Head(rxq) \in S
                /\ Tail(rxq) \in Seq(S)
                /\ rxq \o wire \in Seq(S) /\ rxq \o wire # <<>>
                /\ Head(rxq \o wire) = Head(rxq) /\ Tail(rxq \o wire) = Tail(rxq) \o wire
<1>1. PICK S : raw \in Seq(S) /\ rxq \in Seq(S) /\ wire \in Seq(S)
  BY DEF PhaseInv
<1>2. Head(rxq) \in S /\ Tail(rxq) \in Seq(S)
  BY <1>1
<1>3. /\ rxq \o wire \in Seq(S) /\ rxq \o wire # <<>>
      /\ Head(rxq \o wire) = Head(rxq) /\ Tail(rxq \o wire) = Tail(rxq) \o wire
  BY <1>1, HeadOfConcat
<1> QED
  BY <1>1, <1>2, <1>3

(* While the rotator reads a command only its echo can be on the line.      *)
LEMMA EchoAhead ==
  ASSUME NEW cmd \in Commands, InRange(cmd), PhaseInv, Written(cmd), rxq # <<>>
  PROVE  ~IsTerm(Head(rxq)) /\ Len(raw) \in Nat /\ Len(raw) < Len(Payload(cmd))
<1>1. PICK S : /\ raw \in Seq(S) /\ rxq \o wire \in Seq(S) /\ rxq \o wire # <<>>
               /\ Head(rxq \o wire) = Head(rxq)
  BY Coming
<1>2. raw \o (rxq \o wire) # <<>>
  <2>1. Len(raw \o (rxq \o wire)) = Len(raw) + Len(rxq \o wire)
    BY <1>1, ConcatProperties
  <2>2. Len(raw) \in Nat /\ Len(rxq \o wire) \in Nat /\ Len(rxq \o wire) # 0
    BY <1>1
  <2>3. Len(raw \o (rxq \o wire)) # 0
    BY <2>1, <2>2
  <2>4. Len(<<>>) = 0
    OBVIOUS
  <2> QED
    BY <2>3, <2>4
<1>3. raw \o (rxq \o wire) = dbuf
  BY <1>2 DEF Written, Stream
<1>4. IsText(dbuf) /\ Len(dbuf) <= Len(Payload(cmd)) /\ Len(dbuf) \in Nat /\ Len(Payload(cmd)) \in Nat
  <2>1. Ahead(dbuf, txq, Payload(cmd), CR, <<>>)
    BY DEF Written
  <2>2. IsText(dbuf)
    BY <2>1 DEF Ahead
  <2> QED
    BY <2>1, <2>2, AheadCell
<1>5. ~IsTerm(Head(rxq \o wire)) /\ Len(raw) \in Nat /\ Len(raw) < Len(dbuf)
  BY <1>1, <1>3, <1>4, TextAhead
<1> QED
  BY <1>1, <1>4, <1>5

(* One byte of text more.                                                   *)
LEMMA ReadTextKeepsPhase ==
  ASSUME PhaseInv, HostReadsText PROVE PhaseInv' /\ UNCHANGED <<pc, asked, result>>
<1> DEFINE c == Head(rxq)
           q == rxq \o wire
<1>1. /\ pc = "reading" /\ rxq # <<>> /\ ~IsTerm(c)
      /\ rxq' = Tail(rxq) /\ pbuf' = Feed(pbuf, c).buf /\ raw' = Append(raw, c)
      /\ rxFrame' = IF Len(rxFrame) < RX_CAP THEN Append(rxFrame, c) ELSE rxFrame
      /\ UNCHANGED <<txq, pc, sent, result, wire, dbuf, asked>>
  BY DEF HostReadsText, ReadText, deviceVars, historyVars
<1>2. PICK S : /\ raw \in Seq(S) /\ rxq \in Seq(S) /\ wire \in Seq(S) /\ c \in S
               /\ Tail(rxq) \in Seq(S) /\ q \in Seq(S) /\ q # <<>>
               /\ Head(q) = c /\ Tail(q) = Tail(rxq) \o wire
  BY <1>1, Coming
<1>3. /\ asked \in Commands /\ InRange(asked) /\ IsText(raw) /\ pbuf = raw /\ sent = Payload(asked)
      /\ Written(asked) \/ Echoing(asked) \/ Answering(asked)
  BY <1>1 DEF PhaseInv
<1>4. Len(Payload(asked)) \in 1..3 /\ Len(Payload(asked)) < RX_CAP
  BY <1>3, CommandFits
<1>5. rxq' \o wire' = Tail(q)
  BY <1>1, <1>2
<1>6. Stream' = Stream
  <2>1. Append(raw, Head(q)) \o Tail(q) = raw \o q
    BY <1>2, CellMoves
  <2> QED
    BY <1>1, <1>2, <1>5, <2>1 DEF Stream
<1> HIDE DEF c, q
<1>7. /\ raw' \in Seq(S) /\ rxq' \in Seq(S) /\ wire' \in Seq(S) /\ IsText(raw')
  BY <1>1, <1>2, <1>3, TextGrows
<1>8. CASE Written(asked)
  <2>1. Len(raw) \in Nat /\ Len(raw) < Len(Payload(asked))
    BY <1>1, <1>3, <1>8, EchoAhead
  <2>2. rxFrame = raw
    BY <1>8 DEF Written
  <2>3. Len(raw) < RX_CAP /\ Len(raw) < MAX_FRAME
    BY <1>4, <2>1, RoomForCell, Zenon
  <2>4. rxFrame' = raw' /\ pbuf' = raw'
    BY <1>1, <1>3, <2>2, <2>3 DEF Feed
  <2>5. Written(asked)'
    BY <1>1, <1>6, <1>8, <2>4 DEF Written
  <2> QED
    BY <1>1, <1>3, <1>7, <2>4, <2>5 DEF PhaseInv
<1>9. CASE Echoing(asked)
  <2>1. PICK f : AnswerLine(f, asked) /\ Ahead(raw, q, Payload(asked), CR, f)
    BY <1>9 DEF Echoing, q
  <2>2. /\ Len(raw) \in Nat /\ Len(raw) < Len(Payload(asked))
        /\ Ahead(Append(raw, c), Tail(q), Payload(asked), CR, f)
    BY <1>1, <1>2, <2>1, AheadCell
  <2>3. rxFrame = raw
    BY <1>9 DEF Echoing
  <2>4. Len(raw) < RX_CAP /\ Len(raw) < MAX_FRAME
    BY <1>4, <2>2, RoomForCell, Zenon
  <2>5. rxFrame' = raw' /\ pbuf' = raw'
    BY <1>1, <1>3, <2>3, <2>4 DEF Feed
  <2>6. Ahead(raw', rxq' \o wire', Payload(asked), CR, f)
    BY <1>1, <1>5, <2>2
  <2>7. Echoing(asked)'
    BY <1>1, <1>9, <2>1, <2>5, <2>6 DEF Echoing
  <2> QED
    BY <1>1, <1>3, <1>7, <2>5, <2>7 DEF PhaseInv
<1>10. CASE Answering(asked)
  <2>1. Stream # <<>>
    <3>1. Len(raw \o q) = Len(raw) + Len(q) /\ Len(raw) \in Nat /\ Len(q) \in Nat /\ Len(q) # 0
      BY <1>2, ConcatProperties
    <3>2. Len(raw \o q) # 0
      BY <3>1
    <3>3. Len(<<>>) = 0
      OBVIOUS
    <3> QED
      BY <3>2, <3>3 DEF Stream, q
  <2>2. PICK text, t : Ahead(raw, q, text, t, <<>>) /\ Len(text) \in 1..3
    BY <1>10, <2>1, AnswerAhead DEF Answering, q
  <2>3. Len(raw) \in Nat /\ Len(raw) < Len(text)
    BY <1>1, <1>2, <2>2, AheadCell
  <2>4. Len(raw) < MAX_FRAME
    BY <2>2, <2>3, RoomForCell, Zenon
  <2>5. pbuf' = raw'
    BY <1>1, <1>3, <2>4 DEF Feed
  <2>6. Answering(asked)'
    BY <1>1, <1>6, <1>10 DEF Answering
  <2> QED
    BY <1>1, <1>3, <1>7, <2>5, <2>6 DEF PhaseInv
<1> QED
  BY <1>1, <1>3, <1>8, <1>9, <1>10

(* A terminator ends the echo, and send goes on, or the answer, and send
   returns it.                                                              *)
LEMMA ReadTermKeepsPhase ==
  ASSUME PhaseInv, HostReadsTerm
  PROVE  PhaseInv' /\ (RR!Next \/ UNCHANGED <<pc, asked, result>>)
<1> DEFINE c == Head(rxq)
           q == rxq \o wire
<1>1. /\ pc = "reading" /\ rxq # <<>> /\ IsTerm(c)
      /\ rxq' = Tail(rxq) /\ pbuf' = <<>> /\ raw' = <<>>
      /\ \/ /\ rxFrame' = <<>> /\ UNCHANGED <<pc, sent, result>>
         \/ /\ rxFrame # sent /\ pc' = "idle" /\ result' = Decode(pbuf)
      /\ UNCHANGED <<txq, wire, dbuf, asked>>
  BY DEF HostReadsTerm, ReadTerm, Return, Feed, deviceVars
<1>2. PICK S : /\ raw \in Seq(S) /\ rxq \in Seq(S) /\ wire \in Seq(S) /\ c \in S
               /\ Tail(rxq) \in Seq(S) /\ q \in Seq(S) /\ q # <<>>
               /\ Head(q) = c /\ Tail(q) = Tail(rxq) \o wire
  BY <1>1, Coming
<1>3. /\ asked \in Commands /\ InRange(asked) /\ pbuf = raw /\ sent = Payload(asked)
      /\ Written(asked) \/ Echoing(asked) \/ Answering(asked)
  BY <1>1 DEF PhaseInv
<1>4. ~Written(asked)
  BY <1>1, <1>3, EchoAhead
<1>5. rxq' \o wire' = Tail(q)
  BY <1>1, <1>2
<1>6. Stream' = Tail(q)
  <2>1. Tail(q) \in Seq(S)
    BY <1>2
  <2>2. <<>> \o Tail(q) = Tail(q)
    BY <2>1
  <2> QED
    BY <1>1, <1>5, <2>2 DEF Stream
<1> HIDE DEF c, q
<1>7. raw' \in Seq(S) /\ rxq' \in Seq(S) /\ wire' \in Seq(S) /\ IsText(raw') /\ pbuf' = raw'
  BY <1>1, <1>2, NothingIsText
<1>8. CASE Echoing(asked)
  <2>1. PICK f : AnswerLine(f, asked) /\ Ahead(raw, q, Payload(asked), CR, f)
    BY <1>8 DEF Echoing, q
  <2>2. raw = Payload(asked) /\ Tail(q) = f
    BY <1>1, <1>2, <2>1, AheadCell
  <2>3. rxFrame = sent
    BY <1>3, <1>8, <2>2 DEF Echoing
  <2>4. UNCHANGED <<pc, sent, result>>
    BY <1>1, <2>3
  <2>5. Answering(asked)'
    BY <1>1, <1>6, <1>8, <2>1, <2>2 DEF Echoing, Answering
  <2>6. PhaseInv'
    BY <1>1, <1>3, <1>7, <2>4, <2>5 DEF PhaseInv
  <2> QED
    BY <1>1, <2>4, <2>6
<1>9. CASE Answering(asked)
  <2>1. Stream # <<>>
    <3>1. Len(raw \o q) = Len(raw) + Len(q) /\ Len(raw) \in Nat /\ Len(q) \in Nat /\ Len(q) # 0
      BY <1>2, ConcatProperties
    <3>2. Len(raw \o q) # 0
      BY <3>1
    <3>3. Len(<<>>) = 0
      OBVIOUS
    <3> QED
      BY <3>2, <3>3 DEF Stream, q
  <2>2. PICK text, t : /\ Ahead(raw, q, text, t, <<>>)
                       /\ Decode(text) \in AnswerTo(asked)
    BY <1>9, <2>1, AnswerAhead DEF Answering, q
  <2>3. raw = text /\ Tail(q) = <<>>
    BY <1>1, <1>2, <2>2, AheadCell
  <2>4. Stream' = <<>> /\ txq' = <<>> /\ dbuf' = <<>>
    BY <1>1, <1>6, <1>9, <2>3 DEF Answering
  <2>5. CASE UNCHANGED <<pc, sent, result>>
    <3>1. Answering(asked)'
      BY <1>1, <2>4 DEF Answering, AnswerLine
    <3>2. PhaseInv'
      BY <1>1, <1>3, <1>7, <2>5, <3>1 DEF PhaseInv
    <3> QED
      BY <1>1, <2>5, <3>2
  <2>6. CASE pc' = "idle" /\ result' = Decode(pbuf)
    <3>1. PhaseInv'
      BY <1>7, <2>4, <2>6 DEF PhaseInv
    <3>2. RR!Reply
      BY <1>1, <1>3, <2>2, <2>3, <2>6 DEF RR!Reply
    <3> QED
      BY <3>1, <3>2 DEF RR!Next
  <2> QED
    BY <1>1, <2>5, <2>6
<1> QED
  BY <1>3, <1>4, <1>8, <1>9

-----------------------------------------------------------------------------
(* The steps of the rotator                                                 *)

(* What the rotator puts on the line for a command it has read.             *)
LEMMA ReplyAnswers ==
  ASSUME Newlines = FALSE, NEW cmd \in Commands, InRange(cmd),
         NEW r \in Firmware(DecodeCommand(Payload(cmd))), NEW sum \in BOOLEAN, NEW id
  PROVE  /\ AnswerLine(ReplyFrame(r, sum, id), cmd)
         /\ \E S : ReplyFrame(r, sum, id) \in Seq(S)
<1> DEFINE F == ReplyFrame(r, sum, id)
<1>1. CASE r = None
  <2>1. F = <<>>
    BY <1>1 DEF ReplyFrame
  <2> QED
    BY <2>1, NothingIsText DEF AnswerLine
<1>2. CASE r # None
  <2>1. IsReply(F, r, id)
    BY <1>2, AnswersFit, ReplySpoken
  <2>2. PICK text, t : Says(r, text, t, id) /\ F = Append(text, t)
    BY <2>1 DEF IsReply
  <2>3. r \in ResponsesTo(cmd)
    BY <1>2, CommandFits DEF Firmware
  <2>4. Decode(text) \in AnswerTo(cmd)
    BY <2>2, <2>3 DEF Says, AnswerTo
  <2>5. IsText(text) /\ Len(text) \in 1..3 /\ IsTerm(t)
    BY <2>2 DEF Says
  <2>6. PICK S : text \in Seq(S)
    BY <2>5 DEF IsText
  <2>7. Append(text, t) \in Seq(S \cup {t})
    BY <2>6
  <2> HIDE DEF F
  <2> QED
    BY <2>2, <2>4, <2>5, <2>7 DEF AnswerLine, F
<1> QED
  BY <1>1, <1>2

(* The rotator reads, and echoes, a byte of text.                           *)
LEMMA DeviceReadsText ==
  ASSUME PhaseInv, NEW sum \in Checksums, DeviceRead(sum), pc = "reading",
         Written(asked), ~IsTerm(Head(txq))
  PROVE  PhaseInv'
<1> DEFINE c == Head(txq)
<1>1. /\ wire' = wire \o EchoOf(c) /\ dbuf' = FeedCommand(dbuf, c).buf /\ txq' = Tail(txq)
      /\ UNCHANGED <<rxq, pbuf, pc, sent, rxFrame, raw, asked>>
  BY DEF DeviceRead, historyVars
<1>2. asked \in Commands /\ InRange(asked)
  BY DEF PhaseInv
<1>3. /\ Len(dbuf) < Len(Payload(asked)) /\ Len(dbuf) \in Nat /\ Len(Payload(asked)) \in Nat
      /\ Ahead(Append(dbuf, c), Tail(txq), Payload(asked), CR, <<>>)
  BY AheadCell DEF Written
<1>4. Len(Payload(asked)) <= MAX_CMD_FRAME
  BY <1>2, CommandFits
<1>5. dbuf' = Append(dbuf, c)
  <2>1. Len(dbuf) < MAX_CMD_FRAME
    BY <1>3, <1>4, CapacitiesAssumption
  <2> QED
    BY <1>1, <2>1 DEF FeedCommand
<1>6. PICK S : raw \in Seq(S) /\ rxq \in Seq(S) /\ wire \in Seq(S)
  BY DEF PhaseInv
<1>7. PICK T : dbuf \in Seq(T)
  BY DEF Written, Ahead
<1> DEFINE U == S \cup T \cup {c}
<1>8. /\ raw \in Seq(U) /\ rxq \in Seq(U) /\ wire \in Seq(U) /\ dbuf \in Seq(U) /\ c \in U
      /\ <<c>> \in Seq(U) /\ <<>> \in Seq(U)
  BY <1>6, <1>7
<1> HIDE DEF c, U
<1>9. EchoOf(c) \in Seq(U)
  BY <1>8 DEF EchoOf
<1>10. Stream' = Stream \o EchoOf(c) /\ wire' \in Seq(U) /\ Stream \in Seq(U)
  BY <1>1, <1>8, <1>9, StreamGrows
<1>11. Stream' = IF Echoes THEN dbuf' ELSE <<>>
  <2>1. CASE Echoes
    <3>1. dbuf \o <<c>> = Append(dbuf, c)
      BY <1>8
    <3>2. Stream = dbuf
      BY <2>1 DEF Written
    <3>3. EchoOf(c) = <<c>>
      BY <2>1 DEF EchoOf
    <3> QED
      BY <1>5, <1>10, <2>1, <3>1, <3>2, <3>3
  <2>2. CASE ~Echoes
    <3>1. Stream = <<>>
      BY <2>2 DEF Written
    <3>2. EchoOf(c) = <<>> /\ <<>> \o <<>> = <<>>
      BY <2>2 DEF EchoOf
    <3> QED
      BY <1>10, <2>2, <3>1, <3>2
  <2> QED
    BY <2>1, <2>2
<1>12. Ahead(dbuf', txq', Payload(asked), CR, <<>>)
  BY <1>1, <1>3, <1>5 DEF c
<1>13. rxFrame' = raw'
  BY <1>1 DEF Written
<1>14. Written(asked)'
  BY <1>1, <1>11, <1>12, <1>13 DEF Written
<1>15. raw' \in Seq(U) /\ rxq' \in Seq(U)
  BY <1>1, <1>8
<1>16. sent = Payload(asked) /\ IsText(raw) /\ pbuf = raw
  BY DEF PhaseInv
<1> QED
  BY <1>1, <1>2, <1>10, <1>14, <1>15, <1>16 DEF PhaseInv

(* The rotator reads the end of a command, and answers it or not.           *)
LEMMA DeviceReadsTerm ==
  ASSUME Newlines = FALSE, PhaseInv, NEW sum \in Checksums, DeviceRead(sum), pc = "reading",
         Written(asked), IsTerm(Head(txq))
  PROVE  PhaseInv'
<1> DEFINE c == Head(txq)
<1>1. /\ dbuf' = <<>> /\ txq' = Tail(txq)
      /\ UNCHANGED <<rxq, pbuf, pc, sent, rxFrame, raw, asked>>
  BY DEF DeviceRead, FeedCommand, historyVars
<1>2. asked \in Commands /\ InRange(asked)
  BY DEF PhaseInv
<1>3. dbuf = Payload(asked) /\ c = CR /\ Tail(txq) = <<>>
  BY AheadCell DEF Written
<1>4. PICK r, id : /\ r \in Firmware(FeedCommand(dbuf, c).out)
                   /\ wire' = wire \o EchoOf(c) \o ReplyFrame(r, sum, id)
  BY DEF DeviceRead
<1>5. FeedCommand(dbuf, c).out = DecodeCommand(Payload(asked))
  BY <1>3 DEF FeedCommand
<1> DEFINE F == ReplyFrame(r, sum, id)
           p == Payload(asked)
<1>6. AnswerLine(F, asked) /\ \E S : F \in Seq(S)
  BY <1>2, <1>4, <1>5, ReplyAnswers, SwitchesAssumption
<1>7. PICK S : raw \in Seq(S) /\ rxq \in Seq(S) /\ wire \in Seq(S)
  BY DEF PhaseInv
<1>8. PICK T : F \in Seq(T)
  BY <1>6
<1>9. IsText(p)
  BY <1>2, CommandFits
<1>10. PICK P : p \in Seq(P)
  BY <1>9 DEF IsText
<1> DEFINE U == S \cup T \cup P \cup {CR}
<1> HIDE DEF F, p
<1>11. /\ raw \in Seq(U) /\ rxq \in Seq(U) /\ wire \in Seq(U) /\ F \in Seq(U) /\ p \in Seq(U)
       /\ CR \in U /\ <<CR>> \in Seq(U) /\ <<>> \in Seq(U)
  BY <1>7, <1>8, <1>10
<1> HIDE DEF c, U
<1> DEFINE g == EchoOf(CR) \o F
<1>12. EchoOf(CR) \in Seq(U)
  BY <1>11 DEF EchoOf
<1>13. g \in Seq(U)
  BY <1>11, <1>12, ConcatProperties
<1>14. wire' = wire \o g
  <2>1. (wire \o EchoOf(CR)) \o F = wire \o (EchoOf(CR) \o F)
    BY <1>11, <1>12, ConcatAssociative, SMTT(60)
  <2> QED
    BY <1>3, <1>4, <2>1 DEF F
<1> HIDE DEF g
<1>15. Stream' = Stream \o g /\ wire' \in Seq(U) /\ Stream \in Seq(U)
  BY <1>1, <1>11, <1>13, <1>14, StreamGrows
<1>16. /\ sent = Payload(asked) /\ IsText(raw) /\ pbuf = raw /\ raw' \in Seq(U) /\ rxq' \in Seq(U)
       /\ txq' = <<>>
  BY <1>1, <1>3, <1>11 DEF PhaseInv
<1>17. CASE Echoes
  <2>1. Stream = p /\ EchoOf(CR) = <<CR>>
    BY <1>3, <1>17 DEF Written, EchoOf, p
  <2>2. p \o (<<CR>> \o F) = (p \o <<CR>>) \o F
    BY <1>11, ConcatAssociative, SMTT(60)
  <2>3. p \o <<CR>> = Append(p, CR)
    BY <1>11
  <2>4. Stream' = Append(p, CR) \o F
    BY <1>15, <2>1, <2>2, <2>3 DEF g
  <2> DEFINE q == rxq' \o wire'
  <2>5. q \in Seq(U)
    BY <1>15, <1>16, ConcatProperties
  <2>6. raw' \o q = Append(p, CR) \o F
    BY <2>4 DEF Stream
  <2>7. IsText(raw') /\ IsTerm(CR)
    BY <1>1, <1>16, WordTerms
  <2> HIDE DEF q
  <2>8. Ahead(raw', q, p, CR, F)
    BY <1>9, <1>11, <1>16, <2>5, <2>6, <2>7, Zenon DEF Ahead
  <2>9. rxFrame' = raw'
    BY <1>1 DEF Written
  <2>10. Echoing(asked)'
    BY <1>1, <1>6, <1>16, <2>8, <2>9 DEF Echoing, p, q
  <2> QED
    BY <1>1, <1>2, <1>15, <1>16, <2>10 DEF PhaseInv
<1>18. CASE ~Echoes
  <2>1. Stream = <<>> /\ EchoOf(CR) = <<>>
    BY <1>18 DEF Written, EchoOf
  <2>2. <<>> \o (<<>> \o F) = F
    BY <1>11
  <2>3. Stream' = F
    BY <1>15, <2>1, <2>2 DEF g
  <2>4. Answering(asked)'
    BY <1>1, <1>6, <1>16, <2>3 DEF Answering
  <2> QED
    BY <1>1, <1>2, <1>15, <1>16, <2>4 DEF PhaseInv
<1> QED
  BY <1>17, <1>18

LEMMA DeviceReadKeepsPhase ==
  ASSUME Newlines = FALSE, PhaseInv, NEW sum \in Checksums, DeviceRead(sum)
  PROVE  PhaseInv' /\ UNCHANGED <<pc, asked, result>>
<1>1. txq # <<>> /\ UNCHANGED <<pc, asked, result>>
  BY DEF DeviceRead, historyVars
<1>2. pc = "reading" /\ Written(asked)
  BY <1>1 DEF PhaseInv, Echoing, Answering
<1> QED
  BY <1>1, <1>2, DeviceReadsText, DeviceReadsTerm

-----------------------------------------------------------------------------
(* The refinement                                                           *)

(* Each step of the link is a step of the call it carries out, or none.     *)
LEMMA LinkStep ==
  ASSUME Late = FALSE, WriteErrors = FALSE, Newlines = FALSE,
         PhaseInv, [LinkNext]_linkVars
  PROVE  PhaseInv' /\ [RR!Next]_(RR!vars)
<1>1. UNCHANGED <<pc, asked, result>> => UNCHANGED RR!vars
  BY DEF RR!vars
<1>2. ASSUME NEW cmd \in Commands, HostSend(cmd) PROVE PhaseInv' /\ RR!Next
  BY <1>2, SendKeepsPhase
<1>3. CASE HostReadsText
  BY <1>1, <1>3, ReadTextKeepsPhase
<1>4. CASE HostReadsTerm
  BY <1>1, <1>4, ReadTermKeepsPhase
<1>5. CASE HostGivesUp
  BY <1>5, GivesUpKeepsPhase
<1>6. ASSUME NEW sum \in Checksums, DeviceRead(sum)
      PROVE  PhaseInv' /\ UNCHANGED <<pc, asked, result>>
  BY <1>6, DeviceReadKeepsPhase
<1>7. CASE Deliver
  BY <1>1, <1>7, DeliverKeepsPhase
<1>8. CASE UNCHANGED linkVars
  BY <1>1, <1>8, SamePhase DEF linkVars, vars, deviceVars, historyVars
<1> QED
  BY <1>1, <1>2, <1>3, <1>4, <1>5, <1>6, <1>7, <1>8 DEF LinkNext, HostReads

(* Session::send to a rotator that answers in time and ends its lines with one
   terminator, whether it echoes what it reads or not, is a call: refused, or
   answered with one of the answers to this very command, or failed.        *)
THEOREM LinkImplementsRequestReply ==
  ASSUME Late = FALSE, WriteErrors = FALSE, Newlines = FALSE
  PROVE  LinkSpec => RR!Init /\ [][RR!Next]_(RR!vars)
<1>1. LinkInit => RR!Init
  BY DEF LinkInit, Init, RR!Init
<1>2. PhaseInv /\ [LinkNext]_linkVars => PhaseInv' /\ [RR!Next]_(RR!vars)
  BY LinkStep
<1> QED
  BY <1>1, <1>2, InitPhaseInv, PTL DEF LinkSpec

=============================================================================
