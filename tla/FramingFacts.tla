---------------------------- MODULE FramingFacts ----------------------------
(* What the proofs about the parsers and the session use of Framing.        *)
EXTENDS Framing, SequenceTheorems, FiniteSetTheorems, TLAPS

(* A cell appended to a sequence is appended to each of its tails.          *)
LEMMA AppendToTail ==
  ASSUME NEW S, NEW s \in Seq(S), NEW c \in S, NEW n \in 0..Len(s)
  PROVE  SubSeq(Append(s, c), n + 1, Len(s) + 1) = Append(SubSeq(s, n + 1, Len(s)), c)
<1> DEFINE lhs == SubSeq(Append(s, c), n + 1, Len(s) + 1)
           rhs == Append(SubSeq(s, n + 1, Len(s)), c)
<1>1. /\ Append(s, c) \in Seq(S) /\ Len(Append(s, c)) = Len(s) + 1
  OBVIOUS
<1>2. SubSeq(s, n + 1, Len(s)) \in Seq(S) /\ Len(SubSeq(s, n + 1, Len(s))) = Len(s) - n
  OBVIOUS
<1>3. lhs \in Seq(S) /\ Len(lhs) = Len(s) + 1 - n
  BY <1>1
<1>4. rhs \in Seq(S) /\ Len(rhs) = Len(s) - n + 1
  BY <1>2
<1>5. ASSUME NEW i \in 1..Len(lhs) PROVE lhs[i] = rhs[i]
  BY <1>1, <1>2, <1>3, <1>4
<1> QED
  <2> HIDE DEF lhs, rhs
  <2>1. lhs = rhs
    BY <1>3, <1>4, <1>5, SeqEqual
  <2> QED
    BY <2>1 DEF lhs, rhs

(* Decode returns a response or a parse error, whatever it is given.        *)
LEMMA DecodeTag ==
  ASSUME NEW s
  PROVE  Decode(s).tag \in {"Ok", "Parse"}
<1>1. \A p : DecodePayload(p).tag \in {"Ok", "Parse"}
  BY DEF DecodePayload, Ok, ParseError
<1> QED
  BY <1>1 DEF Decode, Ok, ParseError

(* A step of Parser::feed keeps its buffer a sequence within its array.     *)
LEMMA FeedType ==
  ASSUME NEW S, NEW buf \in Seq(S), NEW c \in S, Len(buf) <= MAX_FRAME
  PROVE  /\ Feed(buf, c).buf \in Seq(S)
         /\ Len(Feed(buf, c).buf) <= MAX_FRAME
         /\ Feed(buf, c).out.tag \in {"None", "Ok", "Parse"}
  BY DecodeTag, CapacitiesAssumption DEF Feed, None, ParseError

(* A byte of text leaves the buffer a tail of the line it extends.          *)
LEMMA FeedKeepsTail ==
  ASSUME NEW S, NEW line \in Seq(S), NEW buf, NEW c \in S,
         ~IsTerm(c), KeepsTail(buf, line, MAX_FRAME)
  PROVE  KeepsTail(Feed(buf, c).buf, Append(line, c), MAX_FRAME)
<1>1. PICK n \in 0..Len(line) : /\ buf = SubSeq(line, n + 1, Len(line))
                                /\ Len(line) <= MAX_FRAME => n = 0
  BY DEF KeepsTail
<1>2. Len(Append(line, c)) = Len(line) + 1 /\ Len(buf) = Len(line) - n
  BY <1>1
<1>3. CASE Len(buf) < MAX_FRAME
  <2>1. Feed(buf, c).buf = SubSeq(Append(line, c), n + 1, Len(line) + 1)
    BY <1>1, <1>3, AppendToTail DEF Feed
  <2>2. n \in 0..Len(Append(line, c))
    BY <1>2
  <2>3. Feed(buf, c).buf = SubSeq(Append(line, c), n + 1, Len(Append(line, c)))
    BY <1>2, <2>1
  <2>4. Len(Append(line, c)) <= MAX_FRAME => n = 0
    BY <1>1, <1>2, CapacitiesAssumption
  <2> QED
    BY <2>2, <2>3, <2>4, Zenon DEF KeepsTail
<1>4. CASE ~(Len(buf) < MAX_FRAME)
  <2>1. Feed(buf, c).buf = <<>>
    BY <1>4 DEF Feed
  <2>2. SubSeq(Append(line, c), Len(line) + 2, Len(line) + 1) = <<>>
    OBVIOUS
  <2>3. Len(line) + 1 > MAX_FRAME
    BY <1>1, <1>2, <1>4, CapacitiesAssumption
  <2> DEFINE m == Len(line) + 1
  <2>4. /\ m \in 0..Len(Append(line, c))
        /\ Feed(buf, c).buf = SubSeq(Append(line, c), m + 1, Len(Append(line, c)))
        /\ Len(Append(line, c)) <= MAX_FRAME => m = 0
    BY <1>2, <2>1, <2>2, <2>3, CapacitiesAssumption
  <2> HIDE DEF m
  <2> QED
    BY <2>4, Zenon DEF KeepsTail
<1> QED
  BY <1>3, <1>4

(* An empty buffer is a tail of an empty line.                              *)
LEMMA EmptyKeepsTail ==
  ASSUME NEW cap \in Nat
  PROVE  KeepsTail(<<>>, <<>>, cap)
  BY DEF KeepsTail

-----------------------------------------------------------------------------
(* Searching a sequence                                                     *)

LEMMA FirstOfNone ==
  ASSUME NEW s, NEW Ks, \A i \in 1..Len(s) : s[i].k \notin Ks
  PROVE  FirstOf(s, Ks) = 0
  BY DEF FirstOf, SelectInSeq

LEMMA FirstOfIs ==
  ASSUME NEW s, NEW Ks, Len(s) \in Nat, NEW i \in 1..Len(s), s[i].k \in Ks,
         \A j \in 1..Len(s) : j < i => s[j].k \notin Ks
  PROVE  FirstOf(s, Ks) = i
<1> DEFINE I == {j \in 1..Len(s) : s[j].k \in Ks}
<1>1. i \in I /\ \A j \in I : i =< j
  OBVIOUS
<1>2. \A m : m \in I /\ (\A j \in I : m =< j) => m = i
  BY <1>1
<1>3. Min(I) = i
  BY <1>1, <1>2, Zenon DEF Min
<1>4. FirstOf(s, Ks) = IF I # {} THEN Min(I) ELSE 0
  BY DEF FirstOf, SelectInSeq
<1> HIDE DEF I
<1> QED
  BY <1>1, <1>3, <1>4

LEMMA LastOfNone ==
  ASSUME NEW s, NEW Ks, \A i \in 1..Len(s) : s[i].k \notin Ks
  PROVE  LastOf(s, Ks) = 0
  BY DEF LastOf, SelectLastInSeq

LEMMA LastOfIs ==
  ASSUME NEW s, NEW Ks, Len(s) \in Nat, NEW i \in 1..Len(s), s[i].k \in Ks,
         \A j \in 1..Len(s) : j > i => s[j].k \notin Ks
  PROVE  LastOf(s, Ks) = i
<1> DEFINE I == {j \in 1..Len(s) : s[j].k \in Ks}
<1>1. i \in I /\ \A j \in I : i >= j
  OBVIOUS
<1>2. \A m : m \in I /\ (\A j \in I : m >= j) => m = i
  BY <1>1
<1>3. Max(I) = i
  BY <1>1, <1>2, Zenon DEF Max
<1>4. LastOf(s, Ks) = IF I # {} THEN Max(I) ELSE 0
  BY DEF LastOf, SelectLastInSeq
<1> HIDE DEF I
<1> QED
  BY <1>1, <1>3, <1>4

(* Text has no terminator, so nothing of it is trimmed.                     *)
IsText(s) == (\E S : s \in Seq(S)) /\ \A i \in 1..Len(s) : ~IsTerm(s[i])

LEMMA NothingToTrim ==
  ASSUME NEW s, IsText(s), s # <<>>
  PROVE  SubSeq(s, 1, SelectLastInSeq(s, LAMBDA c : ~IsTerm(c))) = s
<1>1. PICK S : s \in Seq(S)
  BY DEF IsText
<1> DEFINE I == {j \in 1..Len(s) : ~IsTerm(s[j])}
<1>2. Len(s) \in Nat /\ Len(s) \in 1..Len(s)
  BY <1>1
<1>3. I = 1..Len(s)
  BY DEF IsText
<1>4. SelectLastInSeq(s, LAMBDA c : ~IsTerm(c)) = IF I # {} THEN Max(I) ELSE 0
  BY DEF SelectLastInSeq
<1> HIDE DEF I
<1>5. \A m : m \in I /\ (\A j \in I : m >= j) => m = Len(s)
  BY <1>2, <1>3
<1>6. Len(s) \in I /\ \A j \in I : Len(s) >= j
  BY <1>2, <1>3
<1>7. Max(I) = Len(s)
  BY <1>5, <1>6, Zenon DEF Max
<1>8. I # {}
  BY <1>6
<1> QED
  BY <1>1, <1>4, <1>7, <1>8

-----------------------------------------------------------------------------
(* The checksum is a byte, whatever it is of.                               *)
LEMMA ParityIsBit ==
  ASSUME NEW s, NEW i, IsFiniteSet(DOMAIN s) PROVE Parity(s, i) \in 0..1
<1> DEFINE J == {j \in DOMAIN s : Bit(s[j], i) = 1}
<1>1. Cardinality(J) \in Nat
  BY FS_Subset, FS_CardinalityType
<1>2. \A n \in Nat : n % 2 \in 0..1
  OBVIOUS
<1>3. Parity(s, i) = Cardinality(J) % 2
  BY DEF Parity
<1> HIDE DEF J
<1> QED
  BY <1>1, <1>2, <1>3

LEMMA XorIsByte == ASSUME NEW s, IsFiniteSet(DOMAIN s) PROVE XorAll(s) \in 0..255
<1>1. \A i : Parity(s, i) \in 0..1
  BY ParityIsBit
<1> QED
  BY <1>1 DEF XorAll

LEMMA ChecksumIsByte ==
  ASSUME NEW S, NEW cells \in Seq(S) PROVE XorChecksum(cells) \in 0..255
<1> DEFINE f == [i \in DOMAIN cells |-> XorAll(<<Label(cells[i])>> \o Chars(cells[i]))]
<1>1. DOMAIN f = 1..Len(cells) /\ Len(cells) \in Nat
  OBVIOUS
<1>2. IsFiniteSet(1..Len(cells))
  BY <1>1, FS_Interval
<1>3. XorChecksum(cells) = XorAll(f)
  BY DEF XorChecksum
<1> HIDE DEF f
<1> QED
  BY <1>1, <1>2, <1>3, XorIsByte

(* A line without a checksum is decoded as it stands.                       *)
NoStar(s) == \A i \in 1..Len(s) : s[i].k # "*#"

LEMMA DecodePlain ==
  ASSUME NEW s, IsText(s), s # <<>>, NoStar(s) PROVE Decode(s) = DecodePayload(s)
<1>1. LastOf(s, {"*#"}) = 0
  BY LastOfNone DEF NoStar
<1> QED
  BY <1>1, NothingToTrim DEF Decode

(* A line with a checksum is decoded without it, if it is the right one.    *)
LEMMA DecodeStarred ==
  ASSUME NEW s, IsText(s), NoStar(s), NEW c, c.k = "*#"
  PROVE  Decode(Append(s, c)) = IF c.v \notin 0..255 THEN ParseError("InvalidUtf8")
                                ELSE IF c.v # XorChecksum(s) THEN ParseError("BadChecksum")
                                ELSE DecodePayload(s)
<1> DEFINE a == Append(s, c)
           n == Len(s) + 1
<1>1. PICK S : s \in Seq(S)
  BY DEF IsText
<1>2. s \in Seq(S \cup {c}) /\ c \in S \cup {c} /\ n \in Nat
  BY <1>1
<1>3. ~IsTerm(c)
  BY DEF IsTerm
<1>4. /\ a \in Seq(S \cup {c}) /\ Len(a) = n /\ a[n] = c /\ a # <<>>
      /\ \A i \in 1..Len(s) : a[i] = s[i]
      /\ SubSeq(a, 1, n - 1) = s
  BY <1>2
<1> HIDE DEF a
<1>5. IsText(a)
  <2> SUFFICES ASSUME NEW i \in 1..Len(a) PROVE ~IsTerm(a[i])
    BY <1>4 DEF IsText
  <2>1. i = n \/ i \in 1..Len(s)
    BY <1>2, <1>4
  <2> QED
    BY <1>3, <1>4, <2>1, Zenon DEF IsText
<1>6. LastOf(a, {"*#"}) = n
  <2>1. n \in 1..Len(a) /\ a[n].k \in {"*#"} /\ \A j \in 1..Len(a) : ~(j > n)
    BY <1>2, <1>4
  <2> QED
    BY <1>2, <1>4, <2>1, LastOfIs
<1>7. n # 0
  BY <1>1
<1> HIDE DEF n
<1>8. Decode(a) = IF c.v \notin 0..255 THEN ParseError("InvalidUtf8")
                  ELSE IF c.v # XorChecksum(s) THEN ParseError("BadChecksum")
                  ELSE DecodePayload(s)
  BY <1>4, <1>5, <1>6, <1>7, NothingToTrim DEF Decode
<1> QED
  BY <1>8 DEF a

LEMMA DecodeSummed ==
  ASSUME NEW s, IsText(s), NoStar(s)
  PROVE  Decode(Append(s, Cell("*#", XorChecksum(s)))) = DecodePayload(s)
<1>1. PICK S : s \in Seq(S)
  BY DEF IsText
<1>2. Cell("*#", XorChecksum(s)).k = "*#" /\ Cell("*#", XorChecksum(s)).v = XorChecksum(s)
  BY DEF Cell
<1>3. XorChecksum(s) \in 0..255
  BY <1>1, ChecksumIsByte
<1> QED
  BY <1>2, <1>3, DecodeStarred

(* The text of a frame, and the checksum and the terminator behind it.      *)
LEMMA FrontOfFrame ==
  ASSUME NEW s, IsText(s), NEW t
  PROVE  Front(Append(s, t)) = s /\ Last(Append(s, t)) = t /\ Len(Append(s, t)) = Len(s) + 1
<1>1. PICK S : s \in Seq(S)
  BY DEF IsText
<1>2. s \in Seq(S \cup {t}) /\ t \in S \cup {t}
  BY <1>1
<1> QED
  BY <1>2 DEF Front, Last

LEMMA FrontOfSummed ==
  ASSUME NEW s, IsText(s), NEW c, NEW t
  PROVE  /\ Front(s \o <<c, t>>) = Append(s, c)
         /\ Last(s \o <<c, t>>) = t
         /\ Len(s \o <<c, t>>) = Len(s) + 2
<1> DEFINE a == s \o <<c, t>>
           f == SubSeq(a, 1, Len(s) + 1)
           g == Append(s, c)
<1>1. PICK S : s \in Seq(S)
  BY DEF IsText
<1> DEFINE T == S \cup {c, t}
<1>2. s \in Seq(T) /\ c \in T /\ t \in T /\ <<c, t>> \in Seq(T) /\ Len(s) \in Nat
  BY <1>1
<1>3. Len(<<c, t>>) = 2 /\ <<c, t>>[1] = c /\ <<c, t>>[2] = t
  OBVIOUS
<1> HIDE DEF T
<1>4. /\ a \in Seq(T) /\ Len(a) = Len(s) + 2
      /\ \A i \in 1..Len(s) : a[i] = s[i]
      /\ a[Len(s) + 1] = c /\ a[Len(s) + 2] = t
  BY <1>2, <1>3
<1> HIDE DEF a
<1>5. f \in Seq(T) /\ Len(f) = Len(s) + 1 /\ \A i \in 1..(Len(s) + 1) : f[i] = a[i]
  BY <1>2, <1>4
<1>6. /\ g \in Seq(T) /\ Len(g) = Len(s) + 1 /\ g[Len(s) + 1] = c
      /\ \A i \in 1..Len(s) : g[i] = s[i]
  BY <1>2
<1> HIDE DEF f, g
<1>7. \A i \in 1..Len(f) : f[i] = g[i]
  <2> SUFFICES ASSUME NEW i \in 1..(Len(s) + 1) PROVE f[i] = g[i]
    BY <1>5
  <2>1. i = Len(s) + 1 \/ i \in 1..Len(s)
    BY <1>2
  <2> QED
    BY <1>4, <1>5, <1>6, <2>1
<1>8. f = g
  BY <1>5, <1>6, <1>7, SeqEqual
<1>9. Len(a) - 1 = Len(s) + 1
  BY <1>2, <1>4
<1>10. Front(a) = g /\ Last(a) = t
  BY <1>4, <1>8, <1>9 DEF Front, Last, f
<1> QED
  BY <1>4, <1>10 DEF a, g

-----------------------------------------------------------------------------
(* What the encoder of responses writes is what the decoder reads           *)

LEMMA OneCellIsText ==
  ASSUME NEW c, ~IsTerm(c)
  PROVE  IsText(<<c>>) /\ Len(<<c>>) = 1 /\ <<c>>[1] = c /\ <<c>> # <<>>
<1> DEFINE s == <<c>>
<1>1. s \in Seq({c}) /\ Len(s) = 1 /\ s[1] = c /\ s # <<>>
  OBVIOUS
<1>2. \A i \in 1..Len(s) : i = 1
  BY <1>1
<1> HIDE DEF s
<1>3. IsText(s)
  BY <1>1, <1>2, Zenon DEF IsText
<1> QED
  BY <1>1, <1>3 DEF s

LEMMA TwoCellsAreText ==
  ASSUME NEW c, NEW d, ~IsTerm(c), ~IsTerm(d)
  PROVE  /\ IsText(<<c, d>>) /\ Len(<<c, d>>) = 2 /\ <<c, d>>[1] = c /\ <<c, d>>[2] = d
         /\ <<c, d>> # <<>>
<1> DEFINE s == <<c, d>>
<1>1. s \in Seq({c, d}) /\ Len(s) = 2 /\ s[1] = c /\ s[2] = d /\ s # <<>>
  OBVIOUS
<1>2. \A i \in 1..Len(s) : i = 1 \/ i = 2
  BY <1>1
<1> HIDE DEF s
<1>3. IsText(s)
  BY <1>1, <1>2, Zenon DEF IsText
<1> QED
  BY <1>1, <1>3 DEF s

(* The responses whose numbers their frames have room for.                  *)
ThreeDigitNumbers == 0..999

Representable(r) ==
  \/ r = Ack \/ r = DeviceError
  \/ \E az, el \in ThreeDigitNumbers : r = [kind |-> "Position", az |-> az, el |-> el]
  \/ \E kind \in {"AzimuthPosition", "ElevationPosition"} :
       \E deg \in ThreeDigitNumbers : r = [kind |-> kind, deg |-> deg]
  \/ \E deg \in 1..6 : r = [kind |-> "Status", deg |-> deg]
  \/ \E kind \in {"StatusRegister", "ErrorRegister"} :
       \E deg : FitsU16(deg) /\ r = [kind |-> kind, deg |-> deg]
  \/ \E register, value :
       /\ FitsU16(register)
       /\ r = [kind |-> "ConfigValue", register |-> register, value |-> value]

LEMMA ThreeDigitsFit == ASSUME NEW n \in ThreeDigitNumbers PROVE FitsU16(n)
  BY DEF ThreeDigitNumbers, FitsU16

LEMMA Keep3Keeps == ASSUME NEW n \in ThreeDigitNumbers PROVE Keep3(n) = n
<1>1. n % 1000 = n /\ ~(n < 0)
  BY DEF ThreeDigitNumbers
<1> QED
  BY <1>1 DEF Keep3

(* A response is coded when the decoder makes of the text of its frame what
   the encoder was given.                                                   *)
Coded(r, text) ==
  /\ IsText(text) /\ NoStar(text) /\ text # <<>> /\ Len(text) <= 2
  /\ DecodePayload(text) = Ok(r)
  /\ \E c : IsTerm(c) /\ EncodeResponse(r) = Append(text, c)

(* Tuples written out.                                                      *)
LEMMA AppendToOne == ASSUME NEW c, NEW d PROVE Append(<<c>>, d) = <<c, d>>
<1> DEFINE a == Append(<<c>>, d)
           b == <<c, d>>
<1>1. <<c>> \in Seq({c, d}) /\ d \in {c, d} /\ Len(<<c>>) = 1
  OBVIOUS
<1>2. a \in Seq({c, d}) /\ Len(a) = 2 /\ a[1] = c /\ a[2] = d
  BY <1>1
<1>3. b \in Seq({c, d}) /\ Len(b) = 2 /\ b[1] = c /\ b[2] = d
  OBVIOUS
<1> HIDE DEF a, b
<1>4. \A i \in 1..Len(a) : i = 1 \/ i = 2
  BY <1>2
<1>5. \A i \in 1..Len(a) : a[i] = b[i]
  BY <1>2, <1>3, <1>4
<1>6. a = b
  BY <1>2, <1>3, <1>5, SeqEqual
<1> QED
  BY <1>6 DEF a, b

LEMMA AppendToTwo == ASSUME NEW c, NEW e, NEW d PROVE Append(<<c, e>>, d) = <<c, e, d>>
<1> DEFINE a == Append(<<c, e>>, d)
           b == <<c, e, d>>
<1>1. <<c, e>> \in Seq({c, d, e}) /\ d \in {c, d, e} /\ Len(<<c, e>>) = 2
  OBVIOUS
<1>2. a \in Seq({c, d, e}) /\ Len(a) = 3 /\ a[1] = c /\ a[2] = e /\ a[3] = d
  BY <1>1
<1>3. b \in Seq({c, d, e}) /\ Len(b) = 3 /\ b[1] = c /\ b[2] = e /\ b[3] = d
  OBVIOUS
<1> HIDE DEF a, b
<1>4. \A i \in 1..Len(a) : i = 1 \/ i = 2 \/ i = 3
  BY <1>2
<1>5. \A i \in 1..Len(a) : a[i] = b[i]
  BY <1>2, <1>3, <1>4
<1>6. a = b
  BY <1>2, <1>3, <1>5, SeqEqual
<1> QED
  BY <1>6 DEF a, b

LEMMA CodedOne ==
  ASSUME NEW r, NEW c, NEW d, ~IsTerm(c), c.k # "*#", IsTerm(d),
         EncodeResponse(r) = <<c, d>>, DecodePayload(<<c>>) = Ok(r)
  PROVE  \E text : Coded(r, text)
<1>1. NoStar(<<c>>)
  <2>1. \A i \in 1..Len(<<c>>) : <<c>>[i] = c
    OBVIOUS
  <2> QED
    BY <2>1, Zenon DEF NoStar
<1>2. Append(<<c>>, d) = <<c, d>>
  BY AppendToOne
<1>3. Len(<<c>>) <= 2
  OBVIOUS
<1>4. Coded(r, <<c>>)
  BY <1>1, <1>2, <1>3, OneCellIsText, Zenon DEF Coded
<1> QED
  BY <1>4

LEMMA CodedTwo ==
  ASSUME NEW r, NEW c, NEW e, NEW d, ~IsTerm(c), ~IsTerm(e), c.k # "*#", e.k # "*#", IsTerm(d),
         EncodeResponse(r) = <<c, e, d>>, DecodePayload(<<c, e>>) = Ok(r)
  PROVE  \E text : Coded(r, text)
<1>1. NoStar(<<c, e>>)
  <2>1. \A i \in 1..Len(<<c, e>>) : <<c, e>>[i] = c \/ <<c, e>>[i] = e
    OBVIOUS
  <2> QED
    BY <2>1, Zenon DEF NoStar
<1>2. Append(<<c, e>>, d) = <<c, e, d>>
  BY AppendToTwo
<1>3. Len(<<c, e>>) <= 2
  OBVIOUS
<1>4. Coded(r, <<c, e>>)
  BY <1>1, <1>2, <1>3, TwoCellsAreText, Zenon DEF Coded
<1> QED
  BY <1>4

LEMMA WordTerms == IsTerm(CR) /\ IsTerm(LF) /\ \A k, v : IsTerm(Cell(k, v)) <=> k \in {"cr", "lf"}
  BY DEF IsTerm, CR, LF, Word, Cell

LEMMA FirstOfFirst ==
  ASSUME NEW s, NEW Ks, Len(s) \in Nat \ {0}, s[1].k \in Ks PROVE FirstOf(s, Ks) = 1
<1>1. 1 \in 1..Len(s) /\ Len(s) \in Nat /\ \A j \in 1..Len(s) : j < 1 => s[j].k \notin Ks
  OBVIOUS
<1> QED
  BY <1>1, FirstOfIs, Zenon

LEMMA FirstOfSecond ==
  ASSUME NEW s, NEW Ks, Len(s) = 2, s[1].k \notin Ks, s[2].k \in Ks PROVE FirstOf(s, Ks) = 2
<1>1. 2 \in 1..Len(s) /\ Len(s) \in Nat /\ \A j \in 1..Len(s) : j < 2 => s[j].k \notin Ks
  OBVIOUS
<1> QED
  BY <1>1, FirstOfIs, Zenon

LEMMA TwoIsNotLess ==
  ASSUME NEW s, Len(s) = 2 PROVE s \notin {<<>>, <<Word("?")>>, <<Word("+")>>}
<1>1. Len(<<>>) = 0 /\ \A x : Len(<<x>>) = 1
  OBVIOUS
<1>2. Len(s) # Len(<<>>) /\ \A x : Len(s) # Len(<<x>>)
  BY <1>1
<1> QED
  BY <1>2, Zenon

LEMMA OneAndTwo == 1 \in Nat \ {0} /\ 2 \in Nat \ {0} /\ 1 # 0 /\ 2 # 0 /\ 2 # 1
  OBVIOUS

LEMMA PositionOf ==
  ASSUME NEW s, Len(s) = 2, s[1].k = "AZ=#", s[2].k = " EL=#"
  PROVE  DecodePayload(s) = Ok([kind |-> "Position", az |-> s[1].v, el |-> s[2].v])
<1>1. s \notin {<<>>, <<Word("?")>>, <<Word("+")>>}
  BY TwoIsNotLess, Zenon
<1>2. 2 \in Nat \ {0} /\ 1 # 0 /\ 2 # 0
  BY OneAndTwo, Zenon
<1>3. FirstOf(s, {"AZ=#"}) = 1
  BY <1>2, FirstOfFirst, Zenon
<1>4. FirstOf(s, {" EL=#", "EL=#"}) = 2
  <2>1. s[2].k \in {" EL=#", "EL=#"} /\ s[1].k \notin {" EL=#", "EL=#"}
    BY Zenon
  <2> QED
    BY <2>1, FirstOfSecond, Zenon
<1> QED
  BY <1>1, <1>2, <1>3, <1>4, Zenon DEF DecodePayload

(* The labels of the numbers in a frame are not terminators.                *)
LEMMA TextKinds ==
  \A v : /\ ~IsTerm(Cell("AZ#", v)) /\ ~IsTerm(Cell("EL#", v)) /\ ~IsTerm(Cell("ST=#", v))
        /\ ~IsTerm(Cell("GS#", v)) /\ ~IsTerm(Cell("GE#", v)) /\ ~IsTerm(Cell("CR#", v))
        /\ ~IsTerm(Cell(".#", v)) /\ ~IsTerm(Cell(",#", v))
        /\ ~IsTerm(Cell("AZ=#", v)) /\ ~IsTerm(Cell(" EL=#", v))
<1>1. ASSUME NEW k, NEW v, k # "cr", k # "lf" PROVE ~IsTerm(Cell(k, v))
  BY <1>1 DEF IsTerm, Cell
<1>2. ASSUME NEW v
      PROVE  /\ ~IsTerm(Cell("AZ#", v)) /\ ~IsTerm(Cell("EL#", v)) /\ ~IsTerm(Cell("ST=#", v))
             /\ ~IsTerm(Cell("GS#", v)) /\ ~IsTerm(Cell("GE#", v)) /\ ~IsTerm(Cell("CR#", v))
             /\ ~IsTerm(Cell(".#", v)) /\ ~IsTerm(Cell("AZ=#", v))
  BY <1>1
<1>3. ASSUME NEW v PROVE ~IsTerm(Cell(" EL=#", v))
  BY <1>1, Zenon
<1>4. ASSUME NEW v PROVE ~IsTerm(Cell(",#", v))
  BY <1>1, Zenon
<1> QED
  BY <1>2, <1>3, <1>4, Zenon

LEMMA PositionDecodes ==
  ASSUME NEW c, NEW d, c.k = "AZ=#", d.k = " EL=#"
  PROVE  DecodePayload(<<c, d>>) = Ok([kind |-> "Position", az |-> c.v, el |-> d.v])
<1>1. Len(<<c, d>>) = 2 /\ <<c, d>>[1] = c /\ <<c, d>>[2] = d
  OBVIOUS
<1> QED
  BY <1>1, PositionOf, Zenon

(* The other forms are told apart by their first cell.                      *)
LEMMA OthersDecode ==
  ASSUME NEW s, s # <<>>, s # <<Word("?")>>, s # <<Word("+")>>,
         \A i \in 1..Len(s) : s[i].k # "AZ=#"
  PROVE  DecodePayload(s) =
           IF IsFloat(s, {"AZ=#", "AZ#"}) THEN Ok([kind |-> "AzimuthPosition", deg |-> s[1].v])
           ELSE IF IsFloat(s, {"EL=#", "EL#"}) THEN Ok([kind |-> "ElevationPosition", deg |-> s[1].v])
           ELSE IF Len(s) = 1 /\ s[1].k = "ST=#" /\ s[1].v \in 1..6
                THEN Ok([kind |-> "Status", deg |-> s[1].v])
           ELSE IF IsNumber(s, "GS#") THEN Ok([kind |-> "StatusRegister", deg |-> s[1].v])
           ELSE IF IsNumber(s, "GE#") THEN Ok([kind |-> "ErrorRegister", deg |-> s[1].v])
           ELSE IF Len(s) = 2 /\ IsNumber(<<s[1]>>, "CR#") /\ s[2].k = ",#"
                THEN Ok([kind |-> "ConfigValue", register |-> s[1].v, value |-> s[2].v])
           ELSE ParseError("UnknownCommand")
<1>1. FirstOf(s, {"AZ=#"}) = 0
  BY FirstOfNone
<1> QED
  BY <1>1, Zenon DEF DecodePayload

(* A line of one or two cells that begins with a label.                     *)
LEMMA OneLabelled ==
  ASSUME NEW c, c.k \notin {"?", "+", "AZ=#"}
  PROVE  /\ <<c>> # <<>> /\ <<c>> # <<Word("?")>> /\ <<c>> # <<Word("+")>>
         /\ \A i \in 1..Len(<<c>>) : <<c>>[i].k # "AZ=#"
         /\ <<c>>[1] = c /\ Len(<<c>>) = 1
<1>1. <<c>>[1] = c /\ Len(<<c>>) = 1 /\ \A i \in 1..Len(<<c>>) : <<c>>[i] = c
  OBVIOUS
<1>2. \A x : <<c>> = <<x>> => c = x
  OBVIOUS
<1>3. Word("?").k = "?" /\ Word("+").k = "+"
  BY DEF Word, Cell
<1> QED
  BY <1>1, <1>2, <1>3

LEMMA TwoLabelled ==
  ASSUME NEW c, NEW d, c.k # "AZ=#", d.k # "AZ=#"
  PROVE  /\ <<c, d>> # <<>> /\ <<c, d>> # <<Word("?")>> /\ <<c, d>> # <<Word("+")>>
         /\ \A i \in 1..Len(<<c, d>>) : <<c, d>>[i].k # "AZ=#"
         /\ <<c, d>>[1] = c /\ <<c, d>>[2] = d /\ Len(<<c, d>>) = 2
<1> DEFINE s == <<c, d>>
<1>1. s[1] = c /\ s[2] = d /\ Len(s) = 2 /\ \A i \in 1..Len(s) : s[i] = c \/ s[i] = d
  OBVIOUS
<1>2. Len(<<>>) = 0 /\ \A x : Len(<<x>>) = 1
  OBVIOUS
<1> HIDE DEF s
<1>3. \A i \in 1..Len(s) : s[i].k # "AZ=#"
  BY <1>1, Zenon
<1>4. s # <<>> /\ s # <<Word("?")>> /\ s # <<Word("+")>>
  BY <1>1, <1>2
<1> QED
  BY <1>1, <1>3, <1>4 DEF s

LEMMA FloatDecodes ==
  ASSUME NEW c, NEW d, FitsU16(c.v), d.k = ".#"
  PROVE  /\ c.k = "AZ#" => DecodePayload(<<c, d>>) = Ok([kind |-> "AzimuthPosition", deg |-> c.v])
         /\ c.k = "EL#" => DecodePayload(<<c, d>>) = Ok([kind |-> "ElevationPosition", deg |-> c.v])
<1>1. ASSUME c.k \in {"AZ#", "EL#"}
      PROVE  /\ <<c, d>> # <<>> /\ <<c, d>> # <<Word("?")>> /\ <<c, d>> # <<Word("+")>>
             /\ \A i \in 1..Len(<<c, d>>) : <<c, d>>[i].k # "AZ=#"
             /\ <<c, d>>[1] = c /\ <<c, d>>[2] = d /\ Len(<<c, d>>) = 2
  <2>1. c.k # "AZ=#" /\ d.k # "AZ=#"
    BY <1>1
  <2> QED
    BY <2>1, TwoLabelled, Zenon
<1>2. ASSUME c.k = "AZ#"
      PROVE  DecodePayload(<<c, d>>) = Ok([kind |-> "AzimuthPosition", deg |-> c.v])
  <2>1. IsFloat(<<c, d>>, {"AZ=#", "AZ#"})
    BY <1>1, <1>2, Zenon DEF IsFloat
  <2> QED
    BY <1>1, <1>2, <2>1, OthersDecode, Zenon
<1>3. ASSUME c.k = "EL#"
      PROVE  DecodePayload(<<c, d>>) = Ok([kind |-> "ElevationPosition", deg |-> c.v])
  <2>1. IsFloat(<<c, d>>, {"EL=#", "EL#"}) /\ ~IsFloat(<<c, d>>, {"AZ=#", "AZ#"})
    BY <1>1, <1>3, Zenon DEF IsFloat
  <2> QED
    BY <1>1, <1>3, <2>1, OthersDecode, Zenon
<1> QED
  BY <1>2, <1>3

LEMMA NumberDecodes ==
  ASSUME NEW c
  PROVE  /\ c.k = "ST=#" /\ c.v \in 1..6
              => DecodePayload(<<c>>) = Ok([kind |-> "Status", deg |-> c.v])
         /\ c.k = "GS#" /\ FitsU16(c.v)
              => DecodePayload(<<c>>) = Ok([kind |-> "StatusRegister", deg |-> c.v])
         /\ c.k = "GE#" /\ FitsU16(c.v)
              => DecodePayload(<<c>>) = Ok([kind |-> "ErrorRegister", deg |-> c.v])
<1>1. ASSUME c.k \in {"ST=#", "GS#", "GE#"}
      PROVE  /\ <<c>> # <<>> /\ <<c>> # <<Word("?")>> /\ <<c>> # <<Word("+")>>
             /\ \A i \in 1..Len(<<c>>) : <<c>>[i].k # "AZ=#"
             /\ <<c>>[1] = c /\ Len(<<c>>) = 1
  <2>1. c.k \notin {"?", "+", "AZ=#"}
    BY <1>1
  <2> QED
    BY <2>1, OneLabelled, Zenon
<1>2. ASSUME c.k \in {"ST=#", "GS#", "GE#"}
      PROVE  ~IsFloat(<<c>>, {"AZ=#", "AZ#"}) /\ ~IsFloat(<<c>>, {"EL=#", "EL#"})
  BY <1>1, <1>2, Zenon DEF IsFloat
<1>3. ASSUME c.k = "ST=#", c.v \in 1..6
      PROVE  DecodePayload(<<c>>) = Ok([kind |-> "Status", deg |-> c.v])
  <2>1. c.k \in {"ST=#", "GS#", "GE#"} /\ Len(<<c>>) = 1 /\ <<c>>[1] = c
    BY <1>3, <1>1, Zenon
  <2>2. /\ ~IsFloat(<<c>>, {"AZ=#", "AZ#"}) /\ ~IsFloat(<<c>>, {"EL=#", "EL#"})
        /\ <<c>>[1].k = "ST=#" /\ <<c>>[1].v \in 1..6
    BY <1>2, <1>3, <2>1, Zenon
  <2> QED
    BY <1>1, <2>1, <2>2, OthersDecode, Zenon
<1>4. ASSUME c.k = "GS#", FitsU16(c.v)
      PROVE  DecodePayload(<<c>>) = Ok([kind |-> "StatusRegister", deg |-> c.v])
  <2>1. c.k \in {"ST=#", "GS#", "GE#"} /\ c.k # "ST=#" /\ IsNumber(<<c>>, "GS#")
    BY <1>4, <1>1, Zenon DEF IsNumber
  <2> QED
    BY <1>1, <1>2, <2>1, OthersDecode, Zenon
<1>5. ASSUME c.k = "GE#", FitsU16(c.v)
      PROVE  DecodePayload(<<c>>) = Ok([kind |-> "ErrorRegister", deg |-> c.v])
  <2>1. /\ c.k \in {"ST=#", "GS#", "GE#"} /\ c.k # "ST=#" /\ IsNumber(<<c>>, "GE#")
        /\ ~IsNumber(<<c>>, "GS#")
    BY <1>5, <1>1, Zenon DEF IsNumber
  <2> QED
    BY <1>1, <1>2, <2>1, OthersDecode, Zenon
<1> QED
  BY <1>3, <1>4, <1>5, Zenon

LEMMA ConfigDecodes ==
  ASSUME NEW c, NEW d, c.k = "CR#", FitsU16(c.v), d.k = ",#"
  PROVE  DecodePayload(<<c, d>>) = Ok([kind |-> "ConfigValue", register |-> c.v, value |-> d.v])
<1>1. c.k # "AZ=#" /\ d.k # "AZ=#"
  OBVIOUS
<1>2. /\ <<c, d>> # <<>> /\ <<c, d>> # <<Word("?")>> /\ <<c, d>> # <<Word("+")>>
      /\ \A i \in 1..Len(<<c, d>>) : <<c, d>>[i].k # "AZ=#"
      /\ <<c, d>>[1] = c /\ <<c, d>>[2] = d /\ Len(<<c, d>>) = 2
  BY <1>1, TwoLabelled, Zenon
<1>3. <<c>>[1] = c /\ Len(<<c>>) = 1
  OBVIOUS
<1>4. ~IsFloat(<<c, d>>, {"AZ=#", "AZ#"}) /\ ~IsFloat(<<c, d>>, {"EL=#", "EL#"})
  BY <1>2, Zenon DEF IsFloat
<1>5. 2 # 1
  BY OneAndTwo, Zenon
<1>6. IsNumber(<<<<c, d>>[1]>>, "CR#") /\ ~IsNumber(<<c, d>>, "GS#") /\ ~IsNumber(<<c, d>>, "GE#")
  BY <1>2, <1>3, <1>5, Zenon DEF IsNumber
<1>7. <<c, d>>[1].k # "ST=#" /\ <<c, d>>[2].k = ",#"
  BY <1>2, Zenon
<1> QED
  BY <1>2, <1>4, <1>6, <1>7, OthersDecode, Zenon

(* What the device writes is what the host reads.                           *)
LEMMA ResponseCoded ==
  ASSUME NEW r, Representable(r) PROVE \E text : Coded(r, text)
<1>1. CASE r = Ack
  <2>1. EncodeResponse(r) = <<Word("+"), CR>>
    BY <1>1 DEF EncodeResponse, Ack
  <2>2. <<Word("+")>> # <<Word("?")>>
    BY DEF Word, Cell
  <2>3. DecodePayload(<<Word("+")>>) = Ok(r)
    BY <1>1, <2>2 DEF DecodePayload
  <2>4. ~IsTerm(Word("+")) /\ Word("+").k # "*#"
    BY DEF IsTerm, Word, Cell
  <2> QED
    BY <2>1, <2>3, <2>4, WordTerms, CodedOne, Zenon
<1>2. CASE r = DeviceError
  <2>1. EncodeResponse(r) = <<Word("?"), CR>>
    BY <1>2 DEF EncodeResponse, DeviceError
  <2>2. DecodePayload(<<Word("?")>>) = Ok(r)
    BY <1>2 DEF DecodePayload
  <2>3. ~IsTerm(Word("?")) /\ Word("?").k # "*#"
    BY DEF IsTerm, Word, Cell
  <2> QED
    BY <2>1, <2>2, <2>3, WordTerms, CodedOne, Zenon
<1>3. ASSUME NEW az \in ThreeDigitNumbers, NEW el \in ThreeDigitNumbers, r = [kind |-> "Position", az |-> az, el |-> el]
      PROVE  \E text : Coded(r, text)
  <2> DEFINE c == Cell("AZ=#", az)
             d == Cell(" EL=#", el)
  <2>1. Keep3(az) = az /\ Keep3(el) = el
    BY Keep3Keeps, Zenon
  <2>2. r.kind = "Position" /\ r.az = az /\ r.el = el
    BY <1>3
  <2>3. EncodeResponse(r) = <<c, d, CR>>
    BY <2>1, <2>2, Zenon DEF EncodeResponse
  <2>4. c.k = "AZ=#" /\ d.k = " EL=#" /\ c.v = az /\ d.v = el
    BY Zenon DEF Cell
  <2>5. ~IsTerm(c) /\ ~IsTerm(d)
    BY TextKinds, Zenon
  <2> HIDE DEF c, d
  <2>6. DecodePayload(<<c, d>>) = Ok(r)
    BY <1>3, <2>4, PositionDecodes, Zenon
  <2>7. c.k # "*#" /\ d.k # "*#"
    BY <2>4, Zenon
  <2> QED
    BY <2>3, <2>5, <2>6, <2>7, WordTerms, CodedTwo, Zenon
<1>4. ASSUME NEW deg \in ThreeDigitNumbers, r = [kind |-> "AzimuthPosition", deg |-> deg]
      PROVE  \E text : Coded(r, text)
  <2> DEFINE c == Cell("AZ#", deg)
             d == Cell(".#", 0)
  <2>1. Keep3(deg) = deg /\ r.kind = "AzimuthPosition" /\ r.deg = deg
    BY <1>4, Keep3Keeps
  <2>2. EncodeResponse(r) = <<c, d, LF>>
    BY <2>1, Zenon DEF EncodeResponse
  <2>3. c.k = "AZ#" /\ d.k = ".#" /\ c.v = deg /\ FitsU16(c.v)
    BY ThreeDigitsFit DEF Cell
  <2>4. ~IsTerm(c) /\ ~IsTerm(d)
    BY TextKinds, Zenon
  <2> HIDE DEF c, d
  <2>5. DecodePayload(<<c, d>>) = Ok(r)
    BY <1>4, <2>3, FloatDecodes, Zenon
  <2>6. c.k # "*#" /\ d.k # "*#"
    BY <2>3, Zenon
  <2> QED
    BY <2>2, <2>4, <2>5, <2>6, WordTerms, CodedTwo, Zenon
<1>5. ASSUME NEW deg \in ThreeDigitNumbers, r = [kind |-> "ElevationPosition", deg |-> deg]
      PROVE  \E text : Coded(r, text)
  <2> DEFINE c == Cell("EL#", deg)
             d == Cell(".#", 0)
  <2>1. Keep3(deg) = deg /\ r.kind = "ElevationPosition" /\ r.deg = deg
    BY <1>5, Keep3Keeps
  <2>2. EncodeResponse(r) = <<c, d, LF>>
    BY <2>1, Zenon DEF EncodeResponse
  <2>3. c.k = "EL#" /\ d.k = ".#" /\ c.v = deg /\ FitsU16(c.v)
    BY ThreeDigitsFit DEF Cell
  <2>4. ~IsTerm(c) /\ ~IsTerm(d)
    BY TextKinds, Zenon
  <2> HIDE DEF c, d
  <2>5. DecodePayload(<<c, d>>) = Ok(r)
    BY <1>5, <2>3, FloatDecodes, Zenon
  <2>6. c.k # "*#" /\ d.k # "*#"
    BY <2>3, Zenon
  <2> QED
    BY <2>2, <2>4, <2>5, <2>6, WordTerms, CodedTwo, Zenon
<1>6. ASSUME NEW deg \in 1..6, r = [kind |-> "Status", deg |-> deg]
      PROVE  \E text : Coded(r, text)
  <2> DEFINE c == Cell("ST=#", deg)
  <2>1. r.kind = "Status" /\ r.deg = deg
    BY <1>6
  <2>2. EncodeResponse(r) = <<c, CR>>
    BY <2>1, Zenon DEF EncodeResponse
  <2>3. c.k = "ST=#" /\ c.v = deg /\ c.v \in 1..6
    BY DEF Cell
  <2>4. ~IsTerm(c)
    BY TextKinds, Zenon
  <2> HIDE DEF c
  <2>5. DecodePayload(<<c>>) = Ok(r)
    BY <1>6, <2>3, NumberDecodes, Zenon
  <2>6. c.k # "*#"
    BY <2>3, Zenon
  <2> QED
    BY <2>2, <2>4, <2>5, <2>6, WordTerms, CodedOne, Zenon
<1>7. ASSUME NEW deg, FitsU16(deg), r = [kind |-> "StatusRegister", deg |-> deg]
      PROVE  \E text : Coded(r, text)
  <2> DEFINE c == Cell("GS#", deg)
  <2>1. r.kind = "StatusRegister" /\ r.deg = deg
    BY <1>7
  <2>2. EncodeResponse(r) = <<c, LF>>
    BY <2>1, Zenon DEF EncodeResponse
  <2>3. c.k = "GS#" /\ c.v = deg /\ FitsU16(c.v)
    BY <1>7, Zenon DEF Cell
  <2>4. ~IsTerm(c)
    BY TextKinds, Zenon
  <2> HIDE DEF c
  <2>5. DecodePayload(<<c>>) = Ok(r)
    BY <1>7, <2>3, NumberDecodes, Zenon
  <2>6. c.k # "*#"
    BY <2>3, Zenon
  <2> QED
    BY <2>2, <2>4, <2>5, <2>6, WordTerms, CodedOne, Zenon
<1>8. ASSUME NEW deg, FitsU16(deg), r = [kind |-> "ErrorRegister", deg |-> deg]
      PROVE  \E text : Coded(r, text)
  <2> DEFINE c == Cell("GE#", deg)
  <2>1. r.kind = "ErrorRegister" /\ r.deg = deg
    BY <1>8
  <2>2. EncodeResponse(r) = <<c, LF>>
    BY <2>1, Zenon DEF EncodeResponse
  <2>3. c.k = "GE#" /\ c.v = deg /\ FitsU16(c.v)
    BY <1>8, Zenon DEF Cell
  <2>4. ~IsTerm(c)
    BY TextKinds, Zenon
  <2> HIDE DEF c
  <2>5. DecodePayload(<<c>>) = Ok(r)
    BY <1>8, <2>3, NumberDecodes, Zenon
  <2>6. c.k # "*#"
    BY <2>3, Zenon
  <2> QED
    BY <2>2, <2>4, <2>5, <2>6, WordTerms, CodedOne, Zenon
<1>9. ASSUME NEW register, NEW value, FitsU16(register),
             r = [kind |-> "ConfigValue", register |-> register, value |-> value]
      PROVE  \E text : Coded(r, text)
  <2> DEFINE c == Cell("CR#", register)
             d == Cell(",#", value)
  <2>1. r.kind = "ConfigValue" /\ r.register = register /\ r.value = value
    BY <1>9
  <2>2. EncodeResponse(r) = <<c, d, LF>>
    BY <2>1, Zenon DEF EncodeResponse
  <2>3. c.k = "CR#" /\ d.k = ",#" /\ c.v = register /\ d.v = value /\ FitsU16(c.v)
    BY <1>9, Zenon DEF Cell
  <2>4. ~IsTerm(c) /\ ~IsTerm(d)
    BY TextKinds, Zenon
  <2> HIDE DEF c, d
  <2>5. DecodePayload(<<c, d>>) = Ok(r)
    BY <1>9, <2>3, ConfigDecodes, Zenon
  <2>6. c.k # "*#" /\ d.k # "*#"
    BY <2>3, Zenon
  <2> QED
    BY <2>2, <2>4, <2>5, <2>6, WordTerms, CodedTwo, Zenon
<1> QED
  BY <1>1, <1>2, <1>3, <1>4, <1>5, <1>6, <1>7, <1>8, <1>9, Zenon DEF Representable

-----------------------------------------------------------------------------
(* What the encoder of commands writes is what decode_command reads         *)

LEMMA OneNoStar == ASSUME NEW c, c.k # "*#" PROVE NoStar(<<c>>)
<1>1. \A i \in 1..Len(<<c>>) : <<c>>[i] = c
  OBVIOUS
<1> QED
  BY <1>1, Zenon DEF NoStar

LEMMA TwoNoStar == ASSUME NEW c, NEW d, c.k # "*#", d.k # "*#" PROVE NoStar(<<c, d>>)
<1>1. \A i \in 1..Len(<<c, d>>) : <<c, d>>[i] = c \/ <<c, d>>[i] = d
  OBVIOUS
<1> QED
  BY <1>1, Zenon DEF NoStar

LEMMA ThreeNoStar ==
  ASSUME NEW c, NEW d, NEW e, c.k # "*#", d.k # "*#", e.k # "*#" PROVE NoStar(<<c, d, e>>)
<1>1. \A i \in 1..Len(<<c, d, e>>) :
        <<c, d, e>>[i] = c \/ <<c, d, e>>[i] = d \/ <<c, d, e>>[i] = e
  OBVIOUS
<1> QED
  BY <1>1, Zenon DEF NoStar

LEMMA ThreeCellsAreText ==
  ASSUME NEW c, NEW d, NEW e, ~IsTerm(c), ~IsTerm(d), ~IsTerm(e)
  PROVE  /\ IsText(<<c, d, e>>) /\ Len(<<c, d, e>>) = 3 /\ <<c, d, e>> # <<>>
         /\ <<c, d, e>>[1] = c /\ <<c, d, e>>[2] = d /\ <<c, d, e>>[3] = e
<1> DEFINE s == <<c, d, e>>
<1>1. s \in Seq({c, d, e}) /\ Len(s) = 3 /\ s[1] = c /\ s[2] = d /\ s[3] = e /\ s # <<>>
  OBVIOUS
<1>2. \A i \in 1..Len(s) : i = 1 \/ i = 2 \/ i = 3
  BY <1>1
<1> HIDE DEF s
<1>3. IsText(s)
  BY <1>1, <1>2, Zenon DEF IsText
<1> QED
  BY <1>1, <1>3 DEF s

(* A frame without a checksum is read as it stands.                         *)
LEMMA DecodeBare ==
  ASSUME NEW s, NoStar(s), s # <<>>
  PROVE  DecodeCommand(s) = IF Len(s) = 1 /\ Keyword(s[1].k) # None THEN Keyword(s[1].k)
                            ELSE IF DecodeFixed(s) # None THEN DecodeFixed(s)
                            ELSE TryParseEasycomm(s)
<1>1. LastOf(s, {"*#"}) = 0
  BY LastOfNone DEF NoStar
<1> QED
  BY <1>1, Zenon DEF DecodeCommand

(* A checksum is cut off.                                                   *)
LEMMA DecodeCommandSummed ==
  ASSUME NEW s, IsText(s), NoStar(s), NEW sum
  PROVE  DecodeCommand(Append(s, Cell("*#", sum))) = DecodeCommand(s)
<1> DEFINE c == Cell("*#", sum)
           a == Append(s, c)
           n == Len(s) + 1
<1>1. PICK S : s \in Seq(S)
  BY DEF IsText
<1>2. s \in Seq(S \cup {c}) /\ c \in S \cup {c} /\ n \in Nat /\ n # 0
  BY <1>1
<1>3. c.k = "*#"
  BY DEF Cell
<1> HIDE DEF c
<1>4. /\ a \in Seq(S \cup {c}) /\ Len(a) = n /\ a[n] = c
      /\ SubSeq(a, 1, n - 1) = s
  BY <1>2
<1> HIDE DEF a
<1>5. LastOf(a, {"*#"}) = n
  <2>1. n \in 1..Len(a) /\ a[n].k \in {"*#"} /\ \A j \in 1..Len(a) : ~(j > n)
    BY <1>2, <1>3, <1>4
  <2> QED
    BY <1>2, <1>4, <2>1, LastOfIs
<1>6. LastOf(s, {"*#"}) = 0
  BY LastOfNone DEF NoStar
<1> HIDE DEF n
<1>7. DecodeCommand(a) = DecodeCommand(s)
  BY <1>2, <1>4, <1>5, <1>6, Zenon DEF DecodeCommand
<1> QED
  BY <1>7 DEF a, c

(* What begins like none of the answers is none of them.                    *)
AnswerLabels == {"AZ=#", "AZ#", "EL=#", "EL#", "ST=#", "GS#", "GE#"}

LEMMA UnlikeAnswers ==
  ASSUME NEW s, s # <<>>, s # <<Word("?")>>, s # <<Word("+")>>,
         \A i \in 1..Len(s) : s[i].k # "AZ=#",
         s[1].k \notin AnswerLabels, Len(s) = 2 => s[1].k # "CR#"
  PROVE  DecodePayload(s) = ParseError("UnknownCommand")
<1>1. ~IsFloat(s, {"AZ=#", "AZ#"}) /\ ~IsFloat(s, {"EL=#", "EL#"})
  BY Zenon DEF IsFloat, AnswerLabels
<1>2. /\ ~IsNumber(s, "GS#") /\ ~IsNumber(s, "GE#") /\ s[1].k # "ST=#"
  BY Zenon DEF IsNumber, AnswerLabels
<1>3. ~(Len(s) = 2 /\ IsNumber(<<s[1]>>, "CR#"))
  <2>1. <<s[1]>>[1] = s[1]
    OBVIOUS
  <2> QED
    BY <2>1, Zenon DEF IsNumber
<1> QED
  BY <1>1, <1>2, <1>3, OthersDecode, Zenon

(* The same, told from the labels alone.                                    *)
Unanswering(s) ==
  /\ Len(s) \in Nat /\ Len(s) # 0
  /\ \A i \in 1..Len(s) : s[i].k # "AZ=#"
  /\ s[1].k \notin AnswerLabels \cup {"?", "+"}
  /\ Len(s) = 2 => s[1].k # "CR#"

LEMMA NoAnswerRead ==
  ASSUME NEW s, Unanswering(s) PROVE DecodePayload(s) = ParseError("UnknownCommand")
<1>1. s # <<>>
  <2>1. Len(<<>>) = 0
    OBVIOUS
  <2> QED
    BY <2>1, Zenon DEF Unanswering
<1>2. s # <<Word("?")>> /\ s # <<Word("+")>>
  <2>1. Word("?").k = "?" /\ Word("+").k = "+" /\ \A x : <<x>>[1] = x
    BY DEF Word, Cell
  <2> QED
    BY <2>1, Zenon DEF Unanswering
<1>3. s[1].k \notin AnswerLabels
  BY Zenon DEF Unanswering
<1> QED
  BY <1>1, <1>2, <1>3, UnlikeAnswers, Zenon DEF Unanswering

(* A command is spoken by a text that the device takes for it, and that the
   host, should it be echoed, takes for no answer, KeepAlive excepted.      *)
Spoken(cmd, text) ==
  /\ IsText(text) /\ NoStar(text) /\ Len(text) \in 1..3 /\ text # <<>>
  /\ DecodeCommand(text) = cmd
  /\ cmd.op # "KeepAlive" => Unanswering(text)

LEMMA SpokenOne ==
  ASSUME NEW cmd, NEW c, ~IsTerm(c), c.k \notin {"*#", "?", "+"}, c.k \notin AnswerLabels,
         \/ Keyword(c.k) = cmd /\ cmd # None
         \/ Keyword(c.k) = None /\ DecodeFixed(<<c>>) = cmd /\ cmd # None
         \/ Keyword(c.k) = None /\ DecodeFixed(<<c>>) = None /\ TryParseEasycomm(<<c>>) = cmd
  PROVE  Spoken(cmd, <<c>>)
<1>1. IsText(<<c>>) /\ Len(<<c>>) = 1 /\ <<c>>[1] = c /\ <<c>> # <<>>
  BY OneCellIsText, Zenon
<1>2. NoStar(<<c>>)
  BY OneNoStar
<1>3. DecodeCommand(<<c>>) = cmd
  BY <1>1, <1>2, DecodeBare, Zenon
<1>4. c.k \notin {"?", "+", "AZ=#"} /\ c.k \notin AnswerLabels \cup {"?", "+"}
  BY DEF AnswerLabels
<1>5. Unanswering(<<c>>)
  <2>1. \A i \in 1..Len(<<c>>) : <<c>>[i].k # "AZ=#"
    BY <1>4, OneLabelled, Zenon
  <2> QED
    BY <1>1, <1>4, <2>1, OneAndTwo, Zenon DEF Unanswering
<1>6. Len(<<c>>) \in 1..3
  OBVIOUS
<1> QED
  BY <1>1, <1>2, <1>3, <1>5, <1>6, Zenon DEF Spoken

LEMMA SpokenTwo ==
  ASSUME NEW cmd, NEW c, NEW d, ~IsTerm(c), ~IsTerm(d), c.k # "*#", d.k # "*#",
         c.k \notin AnswerLabels, c.k \notin {"?", "+", "CR#"}, d.k # "AZ=#",
         \/ DecodeFixed(<<c, d>>) = cmd /\ cmd # None
         \/ DecodeFixed(<<c, d>>) = None /\ TryParseEasycomm(<<c, d>>) = cmd
  PROVE  Spoken(cmd, <<c, d>>)
<1>1. IsText(<<c, d>>) /\ Len(<<c, d>>) = 2 /\ <<c, d>>[1] = c /\ <<c, d>> # <<>>
  BY TwoCellsAreText, Zenon
<1>2. NoStar(<<c, d>>)
  BY TwoNoStar
<1>3. DecodeCommand(<<c, d>>) = cmd
  BY <1>1, <1>2, DecodeBare, OneAndTwo, Zenon
<1>4. c.k # "AZ=#" /\ c.k \notin AnswerLabels \cup {"?", "+"}
  BY DEF AnswerLabels
<1>5. Unanswering(<<c, d>>)
  <2>1. \A i \in 1..Len(<<c, d>>) : <<c, d>>[i].k # "AZ=#"
    BY <1>4, TwoLabelled, Zenon
  <2>2. 2 \in Nat /\ 2 # 0
    BY OneAndTwo, Zenon
  <2> QED
    BY <1>1, <1>4, <2>1, <2>2, Zenon DEF Unanswering
<1>6. Len(<<c, d>>) \in 1..3
  OBVIOUS
<1> QED
  BY <1>1, <1>2, <1>3, <1>5, <1>6, Zenon DEF Spoken

LEMMA SpokenThree ==
  ASSUME NEW cmd, NEW c, NEW d, NEW e, ~IsTerm(c), ~IsTerm(d), ~IsTerm(e),
         c.k # "*#", d.k # "*#", e.k # "*#",
         c.k \notin AnswerLabels, c.k \notin {"?", "+"}, d.k # "AZ=#", e.k # "AZ=#",
         DecodeFixed(<<c, d, e>>) = cmd /\ cmd # None
  PROVE  Spoken(cmd, <<c, d, e>>)
<1> DEFINE s == <<c, d, e>>
<1>1. /\ IsText(s) /\ Len(s) = 3 /\ s[1] = c /\ s[2] = d /\ s[3] = e /\ s # <<>>
  BY ThreeCellsAreText, Zenon
<1>2. NoStar(s)
  BY ThreeNoStar
<1> HIDE DEF s
<1>3. Len(s) # 1 /\ Len(s) # 2 /\ Len(s) \in 1..3
  BY <1>1
<1>4. DecodeFixed(s) = cmd
  BY DEF s
<1>5. DecodeCommand(s) = cmd
  BY <1>1, <1>2, <1>3, <1>4, DecodeBare, Zenon
<1>6. Unanswering(s)
  <2>1. \A i \in 1..Len(s) : s[i].k # "AZ=#"
    <3>1. \A i \in 1..Len(s) : i = 1 \/ i = 2 \/ i = 3
      BY <1>1
    <3>2. c.k # "AZ=#"
      BY DEF AnswerLabels
    <3> QED
      BY <1>1, <3>1, <3>2, Zenon
  <2>2. s[1].k \notin AnswerLabels \cup {"?", "+"}
    BY <1>1, Zenon
  <2>3. Len(s) \in Nat /\ Len(s) # 0
    BY <1>1
  <2> QED
    BY <1>3, <2>1, <2>2, <2>3, Zenon DEF Unanswering
<1>7. Spoken(cmd, s)
  BY <1>1, <1>2, <1>3, <1>5, <1>6, Zenon DEF Spoken
<1> QED
  BY <1>7 DEF s

(* The commands whose numbers their frames have room for, but for
   QueryStatus, which has the frame of GetStatusRegister.                   *)
SignedThreeDigits == -999..999

Words ==
  {"QueryPosition", "QueryAzimuth", "QueryElevation", "Stop", "KeepAlive",
   "GetStatusRegister", "GetErrorRegister", "Reset", "Park"}

Carried(cmd) ==
  \/ \E az : az <= 360 /\ cmd = [op |-> "Azimuth", az |-> az]
  \/ \E el : el <= 180 /\ cmd = [op |-> "Elevation", el |-> el]
  \/ \E az, el : az <= 360 /\ el <= 180 /\ cmd = [op |-> "AzimuthElevation", az |-> az, el |-> el]
  \/ \E az, el \in SignedThreeDigits : cmd = [op |-> "Offset", az |-> az, el |-> el]
  \/ \E op \in {"VelocityLeft", "VelocityRight", "VelocityUp", "VelocityDown"} :
       \E speed : cmd = [op |-> op, speed |-> speed]
  \/ \E register : FitsU16(register) /\ cmd = [op |-> "ReadConfig", register |-> register]
  \/ \E register, value :
       /\ FitsU16(register)
       /\ cmd = [op |-> "WriteConfig", register |-> register, value |-> value]
  \/ \E op \in Words : cmd = [op |-> op]

LEMMA SignedKeeps == ASSUME NEW n \in SignedThreeDigits PROVE Keep3(n) = n
<1>1. CASE n < 0
  <2>1. -n \in 1..999 /\ -(-n) = n
    BY <1>1 DEF SignedThreeDigits
  <2>2. \A m \in 1..999 : m % 1000 = m
    OBVIOUS
  <2>3. (-n) % 1000 = -n
    BY <2>1, <2>2
  <2> QED
    BY <1>1, <2>1, <2>3 DEF Keep3
<1>2. CASE ~(n < 0)
  <2>1. n \in 0..999
    BY <1>2 DEF SignedThreeDigits
  <2>2. n % 1000 = n
    BY <2>1
  <2> QED
    BY <1>2, <2>2 DEF Keep3
<1> QED
  BY <1>1, <1>2

LEMMA CommandsAreNotNone ==
  /\ \A o : [op |-> o] # None
  /\ \A o, x : [op |-> o, az |-> x] # None /\ [op |-> o, el |-> x] # None
  /\ \A o, x, y : [op |-> o, az |-> x, el |-> y] # None
  BY DEF None

(* The labels of the numbers in a command are not terminators.              *)
LEMMA CommandKinds ==
  \A v : /\ ~IsTerm(Cell("A#", v)) /\ ~IsTerm(Cell("E#", v)) /\ ~IsTerm(Cell("W#", v))
         /\ ~IsTerm(Cell(" #", v)) /\ ~IsTerm(Cell("+-#", v)) /\ ~IsTerm(Cell("VL#", v))
         /\ ~IsTerm(Cell("VR#", v)) /\ ~IsTerm(Cell("VU#", v)) /\ ~IsTerm(Cell("VD#", v))
         /\ ~IsTerm(Cell("CR#", v)) /\ ~IsTerm(Cell("CW#", v)) /\ ~IsTerm(Cell(",#", v))
<1>1. ASSUME NEW k, NEW v, k # "cr", k # "lf" PROVE ~IsTerm(Cell(k, v))
  BY <1>1 DEF IsTerm, Cell
<1>2. ASSUME NEW v
      PROVE  /\ ~IsTerm(Cell("A#", v)) /\ ~IsTerm(Cell("E#", v)) /\ ~IsTerm(Cell("W#", v))
             /\ ~IsTerm(Cell("+-#", v)) /\ ~IsTerm(Cell("VL#", v))
             /\ ~IsTerm(Cell("VR#", v)) /\ ~IsTerm(Cell("VU#", v)) /\ ~IsTerm(Cell("VD#", v))
             /\ ~IsTerm(Cell("CR#", v)) /\ ~IsTerm(Cell("CW#", v))
  BY <1>1
<1>3. ASSUME NEW v PROVE ~IsTerm(Cell(" #", v))
  BY <1>1, Zenon
<1>4. ASSUME NEW v PROVE ~IsTerm(Cell(",#", v))
  BY <1>1, Zenon
<1> QED
  BY <1>2, <1>3, <1>4, Zenon

LEMMA CellFields == \A k, v : Cell(k, v).k = k /\ Cell(k, v).v = v
  BY DEF Cell

LEMMA AzimuthSpoken ==
  ASSUME NEW az, az <= 360, NEW cmd, cmd = [op |-> "Azimuth", az |-> az]
  PROVE  Spoken(cmd, Payload(cmd))
<1> DEFINE c == Cell("A#", az)
<1>1. Payload(cmd) = <<c>>
  <2>1. cmd.op = "Azimuth" /\ cmd.az = az
    OBVIOUS
  <2> QED
    BY <2>1, Zenon DEF Payload
<1>2. c.k = "A#" /\ c.v = az /\ ~IsTerm(c)
  BY CellFields, CommandKinds, Zenon
<1> HIDE DEF c
<1>3. <<c>>[1] = c /\ Len(<<c>>) = 1
  OBVIOUS
<1>4. Keyword(c.k) = None
  BY <1>2, Zenon DEF Keyword
<1>5. DecodeFixed(<<c>>) = cmd
  BY <1>2, <1>3, Zenon DEF DecodeFixed
<1>6. cmd # None
  BY CommandsAreNotNone, Zenon
<1>7. c.k \notin {"*#", "?", "+"} /\ c.k \notin AnswerLabels
  BY <1>2 DEF AnswerLabels
<1> QED
  BY <1>1, <1>2, <1>4, <1>5, <1>6, <1>7, SpokenOne, Zenon

LEMMA ElevationSpoken ==
  ASSUME NEW el, el <= 180, NEW cmd, cmd = [op |-> "Elevation", el |-> el]
  PROVE  Spoken(cmd, Payload(cmd))
<1> DEFINE c == Cell("E#", el)
<1>1. Payload(cmd) = <<c>>
  <2>1. cmd.op = "Elevation" /\ cmd.el = el
    OBVIOUS
  <2> QED
    BY <2>1, Zenon DEF Payload
<1>2. c.k = "E#" /\ c.v = el /\ ~IsTerm(c)
  BY CellFields, CommandKinds, Zenon
<1> HIDE DEF c
<1>3. <<c>>[1] = c /\ Len(<<c>>) = 1
  OBVIOUS
<1>4. Keyword(c.k) = None
  BY <1>2, Zenon DEF Keyword
<1>5. DecodeFixed(<<c>>) = cmd
  BY <1>2, <1>3, Zenon DEF DecodeFixed
<1>6. cmd # None
  BY CommandsAreNotNone, Zenon
<1>7. c.k \notin {"*#", "?", "+"} /\ c.k \notin AnswerLabels
  BY <1>2 DEF AnswerLabels
<1> QED
  BY <1>1, <1>2, <1>4, <1>5, <1>6, <1>7, SpokenOne, Zenon

LEMMA BothSpoken ==
  ASSUME NEW az, az <= 360, NEW el, el <= 180,
         NEW cmd, cmd = [op |-> "AzimuthElevation", az |-> az, el |-> el]
  PROVE  Spoken(cmd, Payload(cmd))
<1> DEFINE c == Cell("W#", az)
           d == Cell(" #", el)
<1>1. Payload(cmd) = <<c, d>>
  <2>1. cmd.op = "AzimuthElevation" /\ cmd.az = az /\ cmd.el = el
    OBVIOUS
  <2> QED
    BY <2>1, Zenon DEF Payload
<1>2. /\ c.k = "W#" /\ c.v = az /\ ~IsTerm(c)
      /\ d.k = " #" /\ d.v = el /\ ~IsTerm(d)
  BY CellFields, CommandKinds, Zenon
<1> HIDE DEF c, d
<1>3. <<c, d>>[1] = c /\ <<c, d>>[2] = d /\ Len(<<c, d>>) = 2
  BY TwoCellsAreText, <1>2, Zenon
<1>4. DecodeFixed(<<c, d>>) = cmd
  BY <1>2, <1>3, OneAndTwo, Zenon DEF DecodeFixed
<1>5. cmd # None
  BY CommandsAreNotNone, Zenon
<1>6. /\ c.k # "*#" /\ c.k \notin AnswerLabels /\ c.k \notin {"?", "+", "CR#"}
      /\ d.k # "*#" /\ d.k # "AZ=#"
  BY <1>2, Zenon DEF AnswerLabels
<1> QED
  BY <1>1, <1>2, <1>4, <1>5, <1>6, SpokenTwo, Zenon

LEMMA OffsetSpoken ==
  ASSUME NEW az \in SignedThreeDigits, NEW el \in SignedThreeDigits,
         NEW cmd, cmd = [op |-> "Offset", az |-> az, el |-> el]
  PROVE  Spoken(cmd, Payload(cmd))
<1> DEFINE c == Word("O")
           d == Cell("+-#", az)
           e == Cell("+-#", el)
<1>1. Payload(cmd) = <<c, d, e>>
  <2>1. cmd.op = "Offset" /\ cmd.az = az /\ cmd.el = el
    OBVIOUS
  <2>2. Keep3(az) = az /\ Keep3(el) = el
    BY SignedKeeps
  <2> QED
    BY <2>1, <2>2, Zenon DEF Payload
<1>2. /\ c.k = "O" /\ ~IsTerm(c)
      /\ d.k = "+-#" /\ d.v = az /\ ~IsTerm(d)
      /\ e.k = "+-#" /\ e.v = el /\ ~IsTerm(e)
  BY DEF Word, Cell, IsTerm
<1> HIDE DEF c, d, e
<1>3. /\ <<c, d, e>>[1] = c /\ <<c, d, e>>[2] = d /\ <<c, d, e>>[3] = e
      /\ Len(<<c, d, e>>) = 3 /\ 3 # 1 /\ 3 # 2
  OBVIOUS
<1>4. DecodeFixed(<<c, d, e>>) = cmd
  BY <1>2, <1>3, Zenon DEF DecodeFixed
<1>5. cmd # None
  BY CommandsAreNotNone, Zenon
<1>6. /\ c.k # "*#" /\ c.k \notin AnswerLabels /\ c.k \notin {"?", "+"}
      /\ d.k # "*#" /\ d.k # "AZ=#" /\ e.k # "*#" /\ e.k # "AZ=#"
  BY <1>2, Zenon DEF AnswerLabels
<1> QED
  BY <1>1, <1>2, <1>4, <1>5, <1>6, SpokenThree, Zenon

LEMMA VelocitySpoken ==
  ASSUME NEW op \in {"VelocityLeft", "VelocityRight", "VelocityUp", "VelocityDown"},
         NEW speed, NEW cmd, cmd = [op |-> op, speed |-> speed]
  PROVE  Spoken(cmd, Payload(cmd))
<1> DEFINE Vs == {"VL#", "VR#", "VU#", "VD#"}
<1>1. cmd.op = op /\ cmd.speed = speed
  OBVIOUS
<1>2. PICK k \in Vs : /\ Payload(cmd) = <<Cell(k, speed)>>
                      /\ \A f : f[1].k = k /\ Len(f) = 1 =>
                           TryParseEasycomm(f) = [op |-> op, speed |-> f[1].v]
  <2>1. CASE op = "VelocityLeft"
    <3>1. Payload(cmd) = <<Cell("VL#", speed)>>
      BY <1>1, <2>1, Zenon DEF Payload
    <3>2. \A f : f[1].k = "VL#" /\ Len(f) = 1 =>
                   TryParseEasycomm(f) = [op |-> op, speed |-> f[1].v]
      BY <2>1, Zenon DEF TryParseEasycomm
    <3> QED
      BY <3>1, <3>2, Zenon
  <2>2. CASE op = "VelocityRight"
    <3>1. Payload(cmd) = <<Cell("VR#", speed)>>
      BY <1>1, <2>2, Zenon DEF Payload
    <3>2. \A f : f[1].k = "VR#" /\ Len(f) = 1 =>
                   TryParseEasycomm(f) = [op |-> op, speed |-> f[1].v]
      BY <2>2, Zenon DEF TryParseEasycomm
    <3> QED
      BY <3>1, <3>2, Zenon
  <2>3. CASE op = "VelocityUp"
    <3>1. Payload(cmd) = <<Cell("VU#", speed)>>
      BY <1>1, <2>3, Zenon DEF Payload
    <3>2. \A f : f[1].k = "VU#" /\ Len(f) = 1 =>
                   TryParseEasycomm(f) = [op |-> op, speed |-> f[1].v]
      BY <2>3, Zenon DEF TryParseEasycomm
    <3> QED
      BY <3>1, <3>2, Zenon
  <2>4. CASE op = "VelocityDown"
    <3>1. Payload(cmd) = <<Cell("VD#", speed)>>
      BY <1>1, <2>4, Zenon DEF Payload
    <3>2. \A f : f[1].k = "VD#" /\ Len(f) = 1 =>
                   TryParseEasycomm(f) = [op |-> op, speed |-> f[1].v]
      BY <2>4, Zenon DEF TryParseEasycomm
    <3> QED
      BY <3>1, <3>2, Zenon
  <2> QED
    BY <2>1, <2>2, <2>3, <2>4
<1> DEFINE c == Cell(k, speed)
<1>3. c.k = k /\ c.v = speed
  BY CellFields, Zenon
<1>4. ~IsTerm(c)
  BY DEF Cell, IsTerm
<1> HIDE DEF c
<1>5. <<c>>[1] = c /\ Len(<<c>>) = 1
  OBVIOUS
<1>6. Keyword(c.k) = None
  BY <1>3, Zenon DEF Keyword
<1>7. DecodeFixed(<<c>>) = None
  BY <1>3, <1>5, Zenon DEF DecodeFixed
<1>8. TryParseEasycomm(<<c>>) = cmd
  BY <1>2, <1>3, <1>5, Zenon
<1>9. c.k \notin {"*#", "?", "+"} /\ c.k \notin AnswerLabels
  BY <1>3 DEF AnswerLabels
<1>10. Payload(cmd) = <<c>>
  BY <1>2 DEF c
<1> QED
  BY <1>4, <1>6, <1>7, <1>8, <1>9, <1>10, SpokenOne, Zenon

LEMMA ReadConfigSpoken ==
  ASSUME NEW register, FitsU16(register),
         NEW cmd, cmd = [op |-> "ReadConfig", register |-> register]
  PROVE  Spoken(cmd, Payload(cmd))
<1> DEFINE c == Cell("CR#", register)
<1>1. Payload(cmd) = <<c>>
  <2>1. cmd.op = "ReadConfig" /\ cmd.register = register
    OBVIOUS
  <2> QED
    BY <2>1, Zenon DEF Payload
<1>2. c.k = "CR#" /\ c.v = register /\ ~IsTerm(c)
  BY CellFields, CommandKinds, Zenon
<1> HIDE DEF c
<1>3. <<c>>[1] = c /\ Len(<<c>>) = 1
  OBVIOUS
<1>4. Keyword(c.k) = None
  BY <1>2, Zenon DEF Keyword
<1>5. DecodeFixed(<<c>>) = None
  BY <1>2, <1>3, Zenon DEF DecodeFixed
<1>6. TryParseEasycomm(<<c>>) = cmd
  BY <1>2, <1>3, Zenon DEF TryParseEasycomm, IsNumber
<1>7. c.k \notin {"*#", "?", "+"} /\ c.k \notin AnswerLabels
  BY <1>2 DEF AnswerLabels
<1> QED
  BY <1>1, <1>2, <1>4, <1>5, <1>6, <1>7, SpokenOne, Zenon

LEMMA WriteConfigSpoken ==
  ASSUME NEW register, FitsU16(register), NEW value,
         NEW cmd, cmd = [op |-> "WriteConfig", register |-> register, value |-> value]
  PROVE  Spoken(cmd, Payload(cmd))
<1> DEFINE c == Cell("CW#", register)
           d == Cell(",#", value)
<1>1. Payload(cmd) = <<c, d>>
  <2>1. cmd.op = "WriteConfig" /\ cmd.register = register /\ cmd.value = value
    OBVIOUS
  <2> QED
    BY <2>1, Zenon DEF Payload
<1>2. /\ c.k = "CW#" /\ c.v = register /\ ~IsTerm(c)
      /\ d.k = ",#" /\ d.v = value /\ ~IsTerm(d)
  BY CellFields, CommandKinds, Zenon
<1> HIDE DEF c, d
<1>3. <<c, d>>[1] = c /\ <<c, d>>[2] = d /\ Len(<<c, d>>) = 2
  BY TwoCellsAreText, <1>2, Zenon
<1>4. DecodeFixed(<<c, d>>) = None
  BY <1>2, <1>3, Zenon DEF DecodeFixed
<1>5. TryParseEasycomm(<<c, d>>) = cmd
  BY <1>2, <1>3, Zenon DEF TryParseEasycomm
<1>6. /\ c.k # "*#" /\ c.k \notin AnswerLabels /\ c.k \notin {"?", "+", "CR#"}
      /\ d.k # "*#" /\ d.k # "AZ=#"
  BY <1>2, Zenon DEF AnswerLabels
<1> QED
  BY <1>1, <1>2, <1>4, <1>5, <1>6, SpokenTwo, Zenon

LEMMA WordSpoken ==
  ASSUME NEW k, k \notin {"cr", "lf", "*#", "?", "+"}, k \notin AnswerLabels,
         NEW cmd, Keyword(k) = cmd, cmd # None, Payload(cmd) = <<Word(k)>>
  PROVE  Spoken(cmd, Payload(cmd))
<1>1. Word(k).k = k /\ ~IsTerm(Word(k))
  BY DEF Word, Cell, IsTerm
<1>2. Word(k).k \notin {"*#", "?", "+"} /\ Word(k).k \notin AnswerLabels
  BY <1>1
<1>3. Keyword(Word(k).k) = cmd
  BY <1>1
<1> QED
  BY <1>1, <1>2, <1>3, SpokenOne, Zenon

LEMMA KeepAliveSpoken ==
  ASSUME NEW cmd, cmd = [op |-> "KeepAlive"] PROVE Spoken(cmd, Payload(cmd))
<1> DEFINE c == Word("?")
<1>1. cmd.op = "KeepAlive" /\ cmd # None
  BY DEF None
<1>2. Payload(cmd) = <<c>>
  BY <1>1, Zenon DEF Payload
<1>3. c.k = "?" /\ ~IsTerm(c)
  BY DEF Word, Cell, IsTerm
<1> HIDE DEF c
<1>4. IsText(<<c>>) /\ Len(<<c>>) = 1 /\ <<c>>[1] = c /\ <<c>> # <<>>
  BY <1>3, OneCellIsText, Zenon
<1>5. NoStar(<<c>>)
  BY <1>3, OneNoStar
<1>6. Keyword(c.k) = cmd
  BY <1>3, Zenon DEF Keyword
<1>7. DecodeCommand(<<c>>) = cmd
  BY <1>1, <1>4, <1>5, <1>6, DecodeBare, Zenon
<1>8. Len(<<c>>) \in 1..3
  OBVIOUS
<1> QED
  BY <1>1, <1>2, <1>4, <1>5, <1>7, <1>8, Zenon DEF Spoken

LEMMA WordsSpoken ==
  ASSUME NEW op \in Words, NEW cmd, cmd = [op |-> op] PROVE Spoken(cmd, Payload(cmd))
<1>1. cmd.op = op
  OBVIOUS
<1>2. cmd # None
  BY CommandsAreNotNone, Zenon
<1>3. CASE op = "KeepAlive"
  BY <1>3, KeepAliveSpoken, Zenon
<1>4. CASE op \in {"QueryPosition", "QueryAzimuth", "QueryElevation", "Stop",
                   "GetStatusRegister", "GetErrorRegister", "Reset", "Park"}
  <2>1. PICK k \in {"C", "AZ", "EL", "S", "GS", "GE", "RESET", "PARK"} :
          Keyword(k) = cmd /\ Payload(cmd) = <<Word(k)>>
    <3>1. CASE op = "QueryPosition"
      <4>1. Keyword("C") = cmd
        BY <3>1, Zenon DEF Keyword
      <4>2. Payload(cmd) = <<Word("C")>>
        BY <1>1, <3>1, Zenon DEF Payload
      <4> QED
        BY <4>1, <4>2, Zenon
    <3>2. CASE op = "QueryAzimuth"
      <4>1. Keyword("AZ") = cmd
        BY <3>2, Zenon DEF Keyword
      <4>2. Payload(cmd) = <<Word("AZ")>>
        BY <1>1, <3>2, Zenon DEF Payload
      <4> QED
        BY <4>1, <4>2, Zenon
    <3>3. CASE op = "QueryElevation"
      <4>1. Keyword("EL") = cmd
        BY <3>3, Zenon DEF Keyword
      <4>2. Payload(cmd) = <<Word("EL")>>
        BY <1>1, <3>3, Zenon DEF Payload
      <4> QED
        BY <4>1, <4>2, Zenon
    <3>4. CASE op = "Stop"
      <4>1. Keyword("S") = cmd
        BY <3>4, Zenon DEF Keyword
      <4>2. Payload(cmd) = <<Word("S")>>
        BY <1>1, <3>4, Zenon DEF Payload
      <4> QED
        BY <4>1, <4>2, Zenon
    <3>5. CASE op = "GetStatusRegister"
      <4>1. Keyword("GS") = cmd
        BY <3>5, Zenon DEF Keyword
      <4>2. Payload(cmd) = <<Word("GS")>>
        BY <1>1, <3>5, Zenon DEF Payload
      <4> QED
        BY <4>1, <4>2, Zenon
    <3>6. CASE op = "GetErrorRegister"
      <4>1. Keyword("GE") = cmd
        BY <3>6, Zenon DEF Keyword
      <4>2. Payload(cmd) = <<Word("GE")>>
        BY <1>1, <3>6, Zenon DEF Payload
      <4> QED
        BY <4>1, <4>2, Zenon
    <3>7. CASE op = "Reset"
      <4>1. Keyword("RESET") = cmd
        BY <3>7, Zenon DEF Keyword
      <4>2. Payload(cmd) = <<Word("RESET")>>
        BY <1>1, <3>7, Zenon DEF Payload
      <4> QED
        BY <4>1, <4>2, Zenon
    <3>8. CASE op = "Park"
      <4>1. Keyword("PARK") = cmd
        BY <3>8, Zenon DEF Keyword
      <4>2. Payload(cmd) = <<Word("PARK")>>
        BY <1>1, <3>8, Zenon DEF Payload
      <4> QED
        BY <4>1, <4>2, Zenon
    <3> QED
      BY <1>4, <3>1, <3>2, <3>3, <3>4, <3>5, <3>6, <3>7, <3>8
  <2>2. k \notin {"cr", "lf", "*#", "?", "+"} /\ k \notin AnswerLabels
    BY DEF AnswerLabels
  <2> QED
    BY <1>2, <2>1, <2>2, WordSpoken, Zenon
<1> QED
  BY <1>3, <1>4 DEF Words

(* What the host writes is what the device reads.                           *)
LEMMA CommandSpoken ==
  ASSUME NEW cmd, Carried(cmd) PROVE Spoken(cmd, Payload(cmd))
<1>1. CASE \E az : az <= 360 /\ cmd = [op |-> "Azimuth", az |-> az]
  BY <1>1, AzimuthSpoken, Zenon
<1>2. CASE \E el : el <= 180 /\ cmd = [op |-> "Elevation", el |-> el]
  BY <1>2, ElevationSpoken, Zenon
<1>3. CASE \E az, el : /\ az <= 360 /\ el <= 180
                       /\ cmd = [op |-> "AzimuthElevation", az |-> az, el |-> el]
  BY <1>3, BothSpoken, Zenon
<1>4. CASE \E az, el \in SignedThreeDigits : cmd = [op |-> "Offset", az |-> az, el |-> el]
  BY <1>4, OffsetSpoken, Zenon
<1>5. CASE \E op \in {"VelocityLeft", "VelocityRight", "VelocityUp", "VelocityDown"} :
             \E speed : cmd = [op |-> op, speed |-> speed]
  BY <1>5, VelocitySpoken, Zenon
<1>6. CASE \E register :
             FitsU16(register) /\ cmd = [op |-> "ReadConfig", register |-> register]
  BY <1>6, ReadConfigSpoken, Zenon
<1>7. CASE \E register, value :
             /\ FitsU16(register)
             /\ cmd = [op |-> "WriteConfig", register |-> register, value |-> value]
  BY <1>7, WriteConfigSpoken, Zenon
<1>8. CASE \E op \in Words : cmd = [op |-> op]
  BY <1>8, WordsSpoken, Zenon
<1> QED
  BY <1>1, <1>2, <1>3, <1>4, <1>5, <1>6, <1>7, <1>8, Zenon DEF Carried

(* QueryStatus and GetStatusRegister have the same frame.                   *)
LEMMA StatusSpoken ==
  /\ Payload([op |-> "QueryStatus"]) = Payload([op |-> "GetStatusRegister"])
  /\ Spoken([op |-> "GetStatusRegister"], Payload([op |-> "QueryStatus"]))
<1>1. [op |-> "QueryStatus"].op = "QueryStatus" /\ [op |-> "GetStatusRegister"].op = "GetStatusRegister"
  OBVIOUS
<1>2. Payload([op |-> "QueryStatus"]) = Payload([op |-> "GetStatusRegister"])
  BY <1>1, Zenon DEF Payload
<1>3. "GetStatusRegister" \in Words
  BY DEF Words
<1> QED
  BY <1>2, <1>3, WordsSpoken, Zenon

-----------------------------------------------------------------------------
(* The commands that carry an angle, and the others.                        *)
LEMMA AzimuthInRange ==
  ASSUME NEW a, a <= 360 PROVE InRange([op |-> "Azimuth", az |-> a])
  BY DEF InRange

LEMMA ElevationInRange ==
  ASSUME NEW e, e <= 180 PROVE InRange([op |-> "Elevation", el |-> e])
  BY DEF InRange

LEMMA BothInRange ==
  ASSUME NEW a, NEW e, a <= 360, e <= 180
  PROVE  InRange([op |-> "AzimuthElevation", az |-> a, el |-> e])
  BY DEF InRange

LEMMA OthersInRange ==
  ASSUME NEW cmd, cmd.op \notin {"Azimuth", "Elevation", "AzimuthElevation"}
  PROVE  InRange(cmd)
  BY DEF InRange

(* Whatever a frame holds, what decode_command makes of it is in range.     *)
LEMMA DecodedInRange ==
  ASSUME NEW f, DecodeCommand(f) # None
  PROVE  InRange(DecodeCommand(f))
<1>1. ASSUME NEW k PROVE Keyword(k) # None => InRange(Keyword(k))
  BY DEF Keyword, InRange, None
<1>2. ASSUME NEW s PROVE DecodeFixed(s) # None => InRange(DecodeFixed(s))
  <2>1. CASE Len(s) = 1 /\ s[1].k = "A#" /\ s[1].v <= 360
    <3>1. DecodeFixed(s) = [op |-> "Azimuth", az |-> s[1].v]
      BY <2>1 DEF DecodeFixed
    <3> QED
      BY <2>1, <3>1, AzimuthInRange
  <2>2. CASE Len(s) = 1 /\ s[1].k = "E#" /\ s[1].v <= 180
    <3>1. DecodeFixed(s) = [op |-> "Elevation", el |-> s[1].v]
      BY <2>2 DEF DecodeFixed
    <3> QED
      BY <2>2, <3>1, ElevationInRange
  <2>3. CASE /\ Len(s) = 2
             /\ s[1].k = "W#" /\ s[1].v <= 360
             /\ s[2].k = " #" /\ s[2].v <= 180
    <3>1. DecodeFixed(s) = [op |-> "AzimuthElevation", az |-> s[1].v, el |-> s[2].v]
      BY <2>3 DEF DecodeFixed
    <3> QED
      BY <2>3, <3>1, BothInRange
  <2>4. CASE Len(s) = 3 /\ s[1].k = "O" /\ s[2].k = "+-#" /\ s[3].k = "+-#"
    <3>1. DecodeFixed(s) = [op |-> "Offset", az |-> s[2].v, el |-> s[3].v]
      BY <2>4 DEF DecodeFixed
    <3> QED
      BY <3>1, OthersInRange
  <2> QED
    BY <2>1, <2>2, <2>3, <2>4 DEF DecodeFixed
<1>3. ASSUME NEW s PROVE DecodeAxes(s) # None => InRange(DecodeAxes(s))
  <2> DEFINE space == FirstOf(s, {" #", " EL=#", " EL#", "SA SE"})
             left  == SubSeq(s, 1, space - 1)
             right == SubSeq(s, space, Len(s))
             combined == /\ space # 0
                         /\ IsFloat(left, {"AZ#"}) /\ left[1].v <= 360
                         /\ IsFloat(right, {" EL#"}) /\ right[1].v <= 180
             azimuth   == IsFloat(s, {"AZ#"}) /\ s[1].v <= 360
             elevation == IsFloat(s, {"EL#"}) /\ s[1].v <= 180
  <2>1. DecodeAxes(s) =
          IF combined THEN [op |-> "AzimuthElevation", az |-> left[1].v, el |-> right[1].v]
          ELSE IF azimuth THEN [op |-> "Azimuth", az |-> s[1].v]
          ELSE IF elevation THEN [op |-> "Elevation", el |-> s[1].v]
          ELSE None
    BY Zenon DEF DecodeAxes
  <2>2. combined => left[1].v <= 360 /\ right[1].v <= 180
    OBVIOUS
  <2>3. azimuth => s[1].v <= 360
    OBVIOUS
  <2>4. elevation => s[1].v <= 180
    OBVIOUS
  <2> HIDE DEF combined, azimuth, elevation, left, right
  <2> QED
    BY <2>1, <2>2, <2>3, <2>4, AzimuthInRange, ElevationInRange, BothInRange
<1>4. ASSUME NEW s PROVE TryParseEasycomm(s) # None => InRange(TryParseEasycomm(s))
  BY <1>3, OthersInRange DEF TryParseEasycomm
<1> QED
  BY <1>1, <1>2, <1>4 DEF DecodeCommand

-----------------------------------------------------------------------------
(* Every command and every response                                         *)

LEMMA KeepsThreeDigits == ASSUME NEW n \in Int PROVE Keep3(n) \in SignedThreeDigits
<1>1. \A m \in Nat : m % 1000 \in 0..999
  OBVIOUS
<1>2. CASE n < 0
  <2>1. (-n) % 1000 \in 0..999
    BY <1>1, <1>2
  <2> QED
    BY <1>2, <2>1 DEF Keep3, SignedThreeDigits
<1>3. CASE ~(n < 0)
  <2>1. n % 1000 \in 0..999
    BY <1>1, <1>3
  <2> QED
    BY <1>3, <2>1 DEF Keep3, SignedThreeDigits
<1> QED
  BY <1>2, <1>3

LEMMA KeptIsKept == ASSUME NEW n \in Int PROVE Keep3(Keep3(n)) = Keep3(n)
  BY KeepsThreeDigits, SignedKeeps

LEMMA U16Fits == \A n : n \in U16Values <=> FitsU16(n)
  BY DEF U16Values, FitsU16

LEMMA I16IsInt == I16Values \subseteq Int
  BY DEF I16Values

(* The forms of a command, each with its fields.                            *)
LEMMA CommandForms ==
  ASSUME NEW cmd \in AnyCommand
  PROVE  \/ \E az \in U16Values : cmd = [op |-> "Azimuth", az |-> az]
         \/ \E el \in U16Values : cmd = [op |-> "Elevation", el |-> el]
         \/ \E az, el \in U16Values : cmd = [op |-> "AzimuthElevation", az |-> az, el |-> el]
         \/ \E az, el \in I16Values : cmd = [op |-> "Offset", az |-> az, el |-> el]
         \/ \E op \in {"VelocityLeft", "VelocityRight", "VelocityUp", "VelocityDown"} :
              \E speed : cmd = [op |-> op, speed |-> speed]
         \/ \E register \in U16Values : cmd = [op |-> "ReadConfig", register |-> register]
         \/ \E register \in U16Values, value \in Int :
              cmd = [op |-> "WriteConfig", register |-> register, value |-> value]
         \/ \E op \in Words \cup {"QueryStatus"} : cmd = [op |-> op]
<1>1. CASE cmd \in [op : {"Azimuth"}, az : U16Values]
  <2>1. cmd = [op |-> "Azimuth", az |-> cmd.az] /\ cmd.az \in U16Values
    BY <1>1
  <2> QED
    BY <2>1, Zenon
<1>2. CASE cmd \in [op : {"Elevation"}, el : U16Values]
  <2>1. cmd = [op |-> "Elevation", el |-> cmd.el] /\ cmd.el \in U16Values
    BY <1>2
  <2> QED
    BY <2>1, Zenon
<1>3. CASE cmd \in [op : {"AzimuthElevation"}, az : U16Values, el : U16Values]
  <2>1. /\ cmd = [op |-> "AzimuthElevation", az |-> cmd.az, el |-> cmd.el]
        /\ cmd.az \in U16Values /\ cmd.el \in U16Values
    BY <1>3
  <2> QED
    BY <2>1, Zenon
<1>4. CASE cmd \in [op : {"Offset"}, az : I16Values, el : I16Values]
  <2>1. /\ cmd = [op |-> "Offset", az |-> cmd.az, el |-> cmd.el]
        /\ cmd.az \in I16Values /\ cmd.el \in I16Values
    BY <1>4
  <2> QED
    BY <2>1, Zenon
<1>5. CASE cmd \in [op : {"VelocityLeft", "VelocityRight", "VelocityUp", "VelocityDown"},
                    speed : Nat]
  <2>1. /\ cmd = [op |-> cmd.op, speed |-> cmd.speed]
        /\ cmd.op \in {"VelocityLeft", "VelocityRight", "VelocityUp", "VelocityDown"}
    BY <1>5
  <2> QED
    BY <2>1, Zenon
<1>6. CASE cmd \in [op : {"ReadConfig"}, register : U16Values]
  <2>1. cmd = [op |-> "ReadConfig", register |-> cmd.register] /\ cmd.register \in U16Values
    BY <1>6
  <2> QED
    BY <2>1, Zenon
<1>7. CASE cmd \in [op : {"WriteConfig"}, register : U16Values, value : Int]
  <2>1. /\ cmd = [op |-> "WriteConfig", register |-> cmd.register, value |-> cmd.value]
        /\ cmd.register \in U16Values /\ cmd.value \in Int
    BY <1>7
  <2> QED
    BY <2>1, Zenon
<1>8. CASE cmd \in [op : Words \cup {"QueryStatus"}]
  <2>1. cmd = [op |-> cmd.op] /\ cmd.op \in Words \cup {"QueryStatus"}
    BY <1>8
  <2> QED
    BY <2>1, Zenon
<1>9. {"QueryPosition", "QueryAzimuth", "QueryElevation", "QueryStatus", "Stop",
       "KeepAlive", "GetStatusRegister", "GetErrorRegister", "Reset", "Park"}
        = Words \cup {"QueryStatus"}
  BY DEF Words
<1> QED
  BY <1>1, <1>2, <1>3, <1>4, <1>5, <1>6, <1>7, <1>8, <1>9, Zenon DEF AnyCommand, CommandsOver

(* What the device makes of a command that is not its very self: QueryStatus
   has the frame of GetStatusRegister, and of an offset three digits are left. *)
LEMMA CommandHeard ==
  ASSUME NEW cmd \in AnyCommand, InRange(cmd)
  PROVE  \/ Carried(cmd)
         \/ cmd = [op |-> "QueryStatus"]
         \/ \E az, el \in I16Values :
              /\ cmd = [op |-> "Offset", az |-> az, el |-> el]
              /\ Payload(cmd) = Payload([op |-> "Offset", az |-> Keep3(az), el |-> Keep3(el)])
              /\ Carried([op |-> "Offset", az |-> Keep3(az), el |-> Keep3(el)])
<1>1. ASSUME NEW az, cmd = [op |-> "Azimuth", az |-> az] PROVE Carried(cmd)
  <2>1. az <= 360
    BY <1>1 DEF InRange
  <2> QED
    BY <1>1, <2>1, Zenon DEF Carried
<1>2. ASSUME NEW el, cmd = [op |-> "Elevation", el |-> el] PROVE Carried(cmd)
  <2>1. el <= 180
    BY <1>2 DEF InRange
  <2> QED
    BY <1>2, <2>1, Zenon DEF Carried
<1>3. ASSUME NEW az, NEW el, cmd = [op |-> "AzimuthElevation", az |-> az, el |-> el]
      PROVE  Carried(cmd)
  <2>1. az <= 360 /\ el <= 180
    BY <1>3 DEF InRange
  <2> QED
    BY <1>3, <2>1, Zenon DEF Carried
<1>4. ASSUME NEW az \in I16Values, NEW el \in I16Values,
             cmd = [op |-> "Offset", az |-> az, el |-> el]
      PROVE  /\ Payload(cmd) = Payload([op |-> "Offset", az |-> Keep3(az), el |-> Keep3(el)])
             /\ Carried([op |-> "Offset", az |-> Keep3(az), el |-> Keep3(el)])
  <2> DEFINE kept == [op |-> "Offset", az |-> Keep3(az), el |-> Keep3(el)]
  <2>1. az \in Int /\ el \in Int
    BY I16IsInt
  <2>2. Keep3(az) \in SignedThreeDigits /\ Keep3(el) \in SignedThreeDigits
    BY <2>1, KeepsThreeDigits
  <2>3. Keep3(Keep3(az)) = Keep3(az) /\ Keep3(Keep3(el)) = Keep3(el)
    BY <2>1, KeptIsKept
  <2>4. /\ cmd.op = "Offset" /\ cmd.az = az /\ cmd.el = el
        /\ kept.op = "Offset" /\ kept.az = Keep3(az) /\ kept.el = Keep3(el)
    BY <1>4
  <2>5. Carried(kept)
    BY <2>2, Zenon DEF Carried
  <2> HIDE DEF kept
  <2>6. Payload(cmd) = Payload(kept)
    BY <2>3, <2>4, Zenon DEF Payload
  <2> QED
    BY <2>5, <2>6 DEF kept
<1>5. CASE \E op \in {"VelocityLeft", "VelocityRight", "VelocityUp", "VelocityDown"} :
             \E speed : cmd = [op |-> op, speed |-> speed]
  BY <1>5, Zenon DEF Carried
<1>6. CASE \E register \in U16Values : cmd = [op |-> "ReadConfig", register |-> register]
  BY <1>6, U16Fits, Zenon DEF Carried
<1>7. CASE \E register \in U16Values, value \in Int :
             cmd = [op |-> "WriteConfig", register |-> register, value |-> value]
  BY <1>7, U16Fits, Zenon DEF Carried
<1>8. CASE \E op \in Words \cup {"QueryStatus"} : cmd = [op |-> op]
  BY <1>8, Zenon DEF Carried
<1> QED
  BY <1>1, <1>2, <1>3, <1>4, <1>5, <1>6, <1>7, <1>8, CommandForms, Zenon

(* The forms of a response whose angles have at most three digits.          *)
LEMMA RepresentableIf ==
  ASSUME NEW r \in AnyResponse,
         r.kind = "Position" => r.az \in ThreeDigitNumbers /\ r.el \in ThreeDigitNumbers,
         r.kind \in {"AzimuthPosition", "ElevationPosition"} => r.deg \in ThreeDigitNumbers
  PROVE  Representable(r)
<1>1. CASE r \in [kind : {"Ack", "Error"}]
  <2>1. r = [kind |-> "Ack"] \/ r = [kind |-> "Error"]
    BY <1>1
  <2> QED
    BY <2>1, Zenon DEF Representable, Ack, DeviceError
<1>2. CASE r \in [kind : {"Position"}, az : U16Values, el : U16Values]
  <2>1. /\ r = [kind |-> "Position", az |-> r.az, el |-> r.el] /\ r.kind = "Position"
        /\ r.az \in U16Values /\ r.el \in U16Values
    BY <1>2
  <2>2. r.az \in ThreeDigitNumbers /\ r.el \in ThreeDigitNumbers
    BY <2>1
  <2> QED
    BY <2>1, <2>2, Zenon DEF Representable
<1>3. CASE r \in [kind : {"AzimuthPosition", "ElevationPosition", "StatusRegister",
                          "ErrorRegister"}, deg : U16Values]
  <2>1. /\ r = [kind |-> r.kind, deg |-> r.deg] /\ r.deg \in U16Values
        /\ \/ r.kind \in {"AzimuthPosition", "ElevationPosition"}
           \/ r.kind \in {"StatusRegister", "ErrorRegister"}
    BY <1>3
  <2>2. r.kind \in {"AzimuthPosition", "ElevationPosition"} => r.deg \in ThreeDigitNumbers
    BY <2>1
  <2>3. FitsU16(r.deg)
    BY <2>1, U16Fits
  <2>4. CASE r.kind \in {"AzimuthPosition", "ElevationPosition"}
    <3>1. \E kind \in {"AzimuthPosition", "ElevationPosition"} :
            \E deg \in ThreeDigitNumbers : r = [kind |-> kind, deg |-> deg]
      BY <2>1, <2>2, <2>4, Zenon
    <3> QED
      BY <3>1, Zenon DEF Representable
  <2>5. CASE r.kind \in {"StatusRegister", "ErrorRegister"}
    <3>1. \E kind \in {"StatusRegister", "ErrorRegister"} :
            \E deg : FitsU16(deg) /\ r = [kind |-> kind, deg |-> deg]
      BY <2>1, <2>3, <2>5, Zenon
    <3> QED
      BY <3>1, Zenon DEF Representable
  <2> QED
    BY <2>1, <2>4, <2>5
<1>4. CASE r \in [kind : {"Status"}, deg : 1..6]
  <2>1. r = [kind |-> "Status", deg |-> r.deg] /\ r.deg \in 1..6
    BY <1>4
  <2> QED
    BY <2>1, Zenon DEF Representable
<1>5. CASE r \in [kind : {"ConfigValue"}, register : U16Values, value : Int]
  <2>1. /\ r = [kind |-> "ConfigValue", register |-> r.register, value |-> r.value]
        /\ r.register \in U16Values
    BY <1>5
  <2> QED
    BY <2>1, U16Fits, Zenon DEF Representable
<1> QED
  BY <1>1, <1>2, <1>3, <1>4, <1>5, Zenon DEF AnyResponse, ResponsesOver

(* What the device makes of the frame of a command.                         *)
HeardFor(heard, cmd) ==
  /\ Spoken(heard, Payload(cmd))
  /\ heard # None
  /\ heard.op = "KeepAlive" => cmd.op = "KeepAlive"
  /\ cmd.op \notin {"QueryStatus", "Offset"} => heard = cmd
  /\ cmd.op = "QueryStatus" => heard = [op |-> "GetStatusRegister"]
  /\ cmd.op = "Offset" => heard.op = "Offset"
  /\ Carried(cmd) => heard = cmd

LEMMA CarriedIsSome == ASSUME NEW cmd, Carried(cmd) PROVE cmd # None
<1>1. \A op, az, el : /\ [op |-> op] # None /\ [op |-> op, az |-> az] # None
                     /\ [op |-> op, el |-> el] # None /\ [op |-> op, az |-> az, el |-> el] # None
  BY DEF None
<1>2. \A op, n, m : /\ [op |-> op, speed |-> n] # None /\ [op |-> op, register |-> n] # None
                   /\ [op |-> op, register |-> n, value |-> m] # None
  BY DEF None
<1> QED
  BY <1>1, <1>2, Zenon DEF Carried

LEMMA PayloadHeard ==
  ASSUME NEW cmd \in AnyCommand, InRange(cmd) PROVE \E heard : HeardFor(heard, cmd)
<1>1. CASE Carried(cmd)
  <2>1. Spoken(cmd, Payload(cmd))
    BY <1>1, CommandSpoken
  <2>2. cmd.op # "QueryStatus"
    BY <1>1 DEF Carried, Words
  <2>3. cmd # None
    BY <1>1, CarriedIsSome
  <2> QED
    BY <2>1, <2>2, <2>3, Zenon DEF HeardFor
<1>2. CASE ~Carried(cmd) /\ cmd = [op |-> "QueryStatus"]
  <2> DEFINE heard == [op |-> "GetStatusRegister"]
  <2>1. heard.op = "GetStatusRegister" /\ cmd.op = "QueryStatus"
    BY <1>2
  <2>2. Spoken(heard, Payload(cmd))
    BY <1>2, StatusSpoken, Zenon
  <2>4. heard # None
    BY DEF None
  <2>3. HeardFor(heard, cmd)
    BY <1>2, <2>1, <2>2, <2>4, Zenon DEF HeardFor
  <2> QED
    BY <2>3, Zenon
<1>3. CASE ~Carried(cmd) /\ cmd # [op |-> "QueryStatus"]
  <2>1. PICK az, el :
          /\ cmd = [op |-> "Offset", az |-> az, el |-> el]
          /\ Payload(cmd) = Payload([op |-> "Offset", az |-> Keep3(az), el |-> Keep3(el)])
          /\ Carried([op |-> "Offset", az |-> Keep3(az), el |-> Keep3(el)])
    BY <1>3, CommandHeard, Zenon
  <2> DEFINE heard == [op |-> "Offset", az |-> Keep3(az), el |-> Keep3(el)]
  <2>2. heard.op = "Offset" /\ cmd.op = "Offset"
    BY <2>1
  <2>3. Spoken(heard, Payload(cmd))
    BY <2>1, CommandSpoken, Zenon
  <2>5. heard # None
    BY DEF None
  <2>4. HeardFor(heard, cmd)
    BY <1>3, <2>2, <2>3, <2>5, Zenon DEF HeardFor
  <2> QED
    BY <2>4, Zenon
<1> QED
  BY <1>1, <1>2, <1>3

(* Whether a text may be an answer, has a checksum or a terminator, is told
   from its labels.                                                         *)
SameLabels(s, t) == Len(t) = Len(s) /\ \A i \in 1..Len(s) : t[i].k = s[i].k

LEMMA UnansweringLabels ==
  ASSUME NEW s, NEW t, SameLabels(s, t), Unanswering(s) PROVE Unanswering(t)
<1>1. 1 \in 1..Len(s)
  BY DEF Unanswering
<1>2. t[1].k = s[1].k
  BY <1>1 DEF SameLabels
<1> QED
  BY <1>2, Zenon DEF SameLabels, Unanswering

LEMMA NoStarLabels ==
  ASSUME NEW s, NEW t, SameLabels(s, t), NoStar(s) PROVE NoStar(t)
  BY Zenon DEF SameLabels, NoStar

LEMMA TextLabels ==
  ASSUME NEW s, NEW t, SameLabels(s, t), IsText(s), NEW T, t \in Seq(T) PROVE IsText(t)
  BY Zenon DEF SameLabels, IsText, IsTerm

-----------------------------------------------------------------------------
(* What is decoded from any text                                            *)

(* A set of natural numbers has a least element, and below a bound a
   greatest.                                                                *)
LEMMA LeastOf ==
  ASSUME NEW I, I \subseteq Nat, I # {} PROVE Min(I) \in I /\ \A i \in I : Min(I) =< i
<1> DEFINE R == OpToRel(<, Nat)
<1>1. IsWellFoundedOn(R, Nat)
  BY NatLessThanWellFounded
<1>2. ASSUME NEW x \in Nat, NEW y \in Nat, y < x PROVE <<y, x>> \in R
  BY <1>2 DEF OpToRel
<1> HIDE DEF R
<1>3. PICK x \in I : \A y \in I : ~(<<y, x>> \in R)
  BY <1>1, WFMin
<1>4. ASSUME NEW y \in I PROVE x =< y
  <2>1. x \in Nat /\ y \in Nat /\ ~(y < x)
    BY <1>2, <1>3
  <2> QED
    BY <2>1
<1> QED
  BY <1>4, Zenon DEF Min

LEMMA GreatestOf ==
  ASSUME NEW n \in Nat, NEW I, I \subseteq 1..n, I # {} PROVE Max(I) \in I
<1> DEFINE J == {m \in 0..n : n - m \in I}
<1>1. PICK i \in I : TRUE
  OBVIOUS
<1>2. i \in 1..n
  OBVIOUS
<1>3. n - i \in 0..n /\ n - (n - i) = i
  BY <1>2
<1>4. n - i \in J /\ J \subseteq Nat
  BY <1>1, <1>3
<1> DEFINE m == Min(J)
<1>5. m \in J /\ \A k \in J : m =< k
  BY <1>4, LeastOf
<1> HIDE DEF m
<1>6. m \in 0..n /\ n - m \in I
  BY <1>5
<1>7. ASSUME NEW j \in I PROVE n - m >= j
  <2>1. j \in 1..n /\ n - j \in 0..n /\ n - (n - j) = j
    OBVIOUS
  <2>2. n - j \in J
    BY <2>1
  <2>3. m =< n - j
    BY <1>5, <2>2
  <2> QED
    BY <1>6, <2>1, <2>3
<1> HIDE DEF J
<1> QED
  BY <1>6, <1>7, Zenon DEF Max

(* What is searched for is found, if anything is.                           *)
LEMMA FirstOfFound ==
  ASSUME NEW S, NEW s \in Seq(S), NEW Ks, FirstOf(s, Ks) # 0
  PROVE  FirstOf(s, Ks) \in 1..Len(s) /\ s[FirstOf(s, Ks)].k \in Ks
<1> DEFINE I == {j \in 1..Len(s) : s[j].k \in Ks}
<1>1. FirstOf(s, Ks) = IF I # {} THEN Min(I) ELSE 0
  BY DEF FirstOf, SelectInSeq
<1>2. I \subseteq Nat
  OBVIOUS
<1>3. \A j \in I : j \in 1..Len(s) /\ s[j].k \in Ks
  OBVIOUS
<1> HIDE DEF I
<1>4. I # {} /\ FirstOf(s, Ks) = Min(I)
  BY <1>1
<1>5. Min(I) \in I
  BY <1>2, <1>4, LeastOf
<1> QED
  BY <1>3, <1>4, <1>5

LEMMA LastOfFound ==
  ASSUME NEW S, NEW s \in Seq(S), NEW Ks
  PROVE  /\ LastOf(s, Ks) \in 0..Len(s)
         /\ LastOf(s, Ks) # 0 => s[LastOf(s, Ks)].k \in Ks
<1> DEFINE I == {j \in 1..Len(s) : s[j].k \in Ks}
<1>1. LastOf(s, Ks) = IF I # {} THEN Max(I) ELSE 0
  BY DEF LastOf, SelectLastInSeq
<1>2. I \subseteq 1..Len(s) /\ Len(s) \in Nat
  OBVIOUS
<1>3. \A j \in I : j \in 1..Len(s) /\ s[j].k \in Ks
  OBVIOUS
<1> HIDE DEF I
<1>4. CASE I = {}
  BY <1>1, <1>2, <1>4
<1>5. CASE I # {}
  <2>1. Max(I) \in I
    BY <1>2, <1>5, GreatestOf
  <2>2. LastOf(s, Ks) = Max(I)
    BY <1>1, <1>5
  <2>3. LastOf(s, Ks) \in 1..Len(s) /\ s[LastOf(s, Ks)].k \in Ks
    BY <1>3, <2>1, <2>2
  <2> QED
    BY <1>2, <2>3
<1> QED
  BY <1>4, <1>5

(* The checksum of nothing.                                                 *)
LEMMA NothingSummed == XorChecksum(<<>>) = 0
<1> DEFINE f == [i \in DOMAIN <<>> |-> XorAll(<<Label((<<>>)[i])>> \o Chars((<<>>)[i]))]
<1>1. DOMAIN <<>> = {}
  OBVIOUS
<1>2. DOMAIN f = {}
  BY <1>1
<1>3. XorChecksum(<<>>) = XorAll(f)
  BY DEF XorChecksum
<1> HIDE DEF f
<1>4. ASSUME NEW i PROVE Parity(f, i) = 0
  <2>1. {j \in DOMAIN f : Bit(f[j], i) = 1} = {}
    BY <1>2
  <2>2. Parity(f, i) = 0 % 2
    BY <2>1, FS_EmptySet DEF Parity
  <2> QED
    BY <2>2
<1> QED
  BY <1>3, <1>4 DEF XorAll

(* An answer is decoded from all of a text, or from the part of it that the
   last checksum is of.                                                     *)
LEMMA DecodedPart ==
  ASSUME NEW S, NEW s \in Seq(S), IsText(s), NEW r, Decode(s) = Ok(r)
  PROVE  \E p \in Seq(S) :
           /\ DecodePayload(p) = Ok(r)
           /\ \/ p = s /\ s # <<>>
              \/ \E i \in 1..Len(s) : s[i].k = "*#" /\ s[i].v = XorChecksum(p)
<1> DEFINE star == LastOf(s, {"*#"})
           p    == IF star = 0 THEN s ELSE SubSeq(s, 1, star - 1)
<1>1. \A e : ParseError(e) # Ok(r)
  BY DEF ParseError, Ok
<1>2. s # <<>>
  BY <1>1, Zenon DEF Decode
<1>3. SubSeq(s, 1, SelectLastInSeq(s, LAMBDA c : ~IsTerm(c))) = s
  BY <1>2, NothingToTrim
<1>4. /\ DecodePayload(p) = Ok(r)
      /\ star = 0 \/ s[star].v = XorChecksum(p)
  <2>1. Decode(s) = IF s = <<>> THEN ParseError("UnexpectedEof")
                    ELSE IF s = <<>> THEN Ok(Ack)
                    ELSE IF star # 0 /\ s[star].v \notin 0..255 THEN ParseError("InvalidUtf8")
                    ELSE IF star # 0 /\ s[star].v # XorChecksum(p) THEN ParseError("BadChecksum")
                    ELSE DecodePayload(p)
    BY <1>3, Zenon DEF Decode
  <2> HIDE DEF star, p
  <2> QED
    BY <1>1, <1>2, <2>1, Zenon
<1>5. star \in 0..Len(s) /\ (star # 0 => s[star].k = "*#")
  BY LastOfFound
<1> HIDE DEF star
<1>6. p \in Seq(S)
  <2>1. CASE star = 0
    BY <2>1
  <2>2. CASE star # 0
    <3>1. star - 1 \in 0..Len(s)
      BY <1>5, <2>2
    <3>2. SubSeq(s, 1, star - 1) \in Seq(S)
      BY <3>1
    <3> QED
      BY <2>2, <3>2
  <2> QED
    BY <2>1, <2>2
<1>7. CASE star = 0
  <2>1. p = s
    BY <1>7
  <2> QED
    BY <1>2, <1>4, <2>1
<1>8. CASE star # 0
  <2>1. star \in 1..Len(s)
    BY <1>5, <1>8
  <2> HIDE DEF p
  <2> QED
    BY <1>4, <1>5, <1>6, <1>8, <2>1
<1> QED
  BY <1>7, <1>8

AzKinds == {"AZ=#"}
ElKinds == {" EL=#", "EL=#"}

(* The forms of decode(), as far as the proofs tell them apart.             *)
LEMMA DecodedForms ==
  ASSUME NEW p
  PROVE  \/ DecodePayload(p) = Ok(Ack) /\ p \in {<<>>, <<Word("+")>>}
         \/ /\ FirstOf(p, AzKinds) # 0 /\ FirstOf(p, ElKinds) # 0
            /\ DecodePayload(p) = Ok([kind |-> "Position", az |-> p[FirstOf(p, AzKinds)].v,
                                      el |-> p[FirstOf(p, ElKinds)].v])
         \/ \E q : DecodePayload(p) = Ok(q) /\ q.kind \notin {"Ack", "Position"}
         \/ \E e : DecodePayload(p) = ParseError(e)
<1> DEFINE Other(q) == q.kind \notin {"Ack", "Position"}
<1>1. /\ Other(DeviceError)
      /\ \A x : /\ Other([kind |-> "AzimuthPosition", deg |-> x])
                /\ Other([kind |-> "ElevationPosition", deg |-> x])
                /\ Other([kind |-> "Status", deg |-> x])
                /\ Other([kind |-> "StatusRegister", deg |-> x])
                /\ Other([kind |-> "ErrorRegister", deg |-> x])
      /\ \A x, y : Other([kind |-> "ConfigValue", register |-> x, value |-> y])
  BY DEF DeviceError
<1> HIDE DEF Other
<1>2. \/ DecodePayload(p) = Ok(Ack) /\ p \in {<<>>, <<Word("+")>>}
      \/ /\ FirstOf(p, AzKinds) # 0 /\ FirstOf(p, ElKinds) # 0
         /\ DecodePayload(p) = Ok([kind |-> "Position", az |-> p[FirstOf(p, AzKinds)].v,
                                   el |-> p[FirstOf(p, ElKinds)].v])
      \/ \E q : DecodePayload(p) = Ok(q) /\ Other(q)
      \/ \E e : DecodePayload(p) = ParseError(e)
  BY <1>1, Zenon DEF DecodePayload, AzKinds, ElKinds
<1> QED
  BY <1>2 DEF Other

LEMMA OkDiffers ==
  /\ \A a, b : Ok(a) = Ok(b) => a = b
  /\ \A a, e : Ok(a) # ParseError(e)
  BY DEF Ok, ParseError

(* A position is read from two cells.                                       *)
LEMMA DecodedPosition ==
  ASSUME NEW S, NEW s \in Seq(S), IsText(s), NEW r, Decode(s) = Ok(r), r.kind = "Position"
  PROVE  \E c, d \in S : /\ c.k \in AzKinds /\ d.k \in ElKinds
                         /\ r = [kind |-> "Position", az |-> c.v, el |-> d.v]
<1>1. PICK p \in Seq(S) : DecodePayload(p) = Ok(r)
  BY DecodedPart
<1> DEFINE i == FirstOf(p, AzKinds)
           j == FirstOf(p, ElKinds)
<1>2. r # Ack
  BY DEF Ack
<1>3. i # 0 /\ j # 0 /\ r = [kind |-> "Position", az |-> p[i].v, el |-> p[j].v]
  BY <1>1, <1>2, DecodedForms, OkDiffers
<1>4. i \in 1..Len(p) /\ p[i].k \in AzKinds /\ j \in 1..Len(p) /\ p[j].k \in ElKinds
  BY <1>3, FirstOfFound
<1> HIDE DEF i, j
<1>5. p[i] \in S /\ p[j] \in S
  BY <1>4
<1> QED
  BY <1>3, <1>4, <1>5

=============================================================================
