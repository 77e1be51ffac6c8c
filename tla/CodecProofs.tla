---------------------------- MODULE CodecProofs ----------------------------
(* What one end of the line writes the other end reads, whatever the numbers
   in it, and what a damaged digit does.                                    *)
EXTENDS Codec, FramingFacts

(* The frame as it was sent.                                                *)
Plain == IF IsCommand(msg) THEN EncodeInto(msg) ELSE EncodeResponse(msg)

SummedFrame ==
  IF IsCommand(msg) THEN EncodeWithChecksum(msg)
  ELSE Front(Plain) \o <<Cell("*#", XorChecksum(Front(Plain))), Last(Plain)>>

Sent == IF checked THEN SummedFrame ELSE Plain

(* One digit of a three-digit number of a frame has changed.                *)
Digit(v, place) == (v \div 10^place) % 10

DamagedAt(f, g, i, place, d) ==
  /\ f[i].k \in ThreeDigits /\ f[i].v >= 0
  /\ d # Digit(f[i].v, place)
  /\ g = [f EXCEPT ![i] = Cell(@.k, @.v + (d - Digit(f[i].v, place)) * 10^place)]

DamagedFrom(f, g) ==
  \E i \in DOMAIN f, place \in 0..2, d \in 0..9 : DamagedAt(f, g, i, place, d)

(* The inductive invariant: what is on the line is the frame of the message,
   or that frame with one digit changed; and what was received is what the
   other end makes of it.                                                   *)
MessageInv ==
  \/ msg = None /\ frame = <<>> /\ got = None /\ damaged = FALSE
  \/ msg \in AnyCommand /\ InRange(msg)
  \/ msg \in AnyResponse

FrameInv ==
  msg # None => /\ damaged = FALSE => frame = Sent
                /\ damaged = TRUE  => DamagedFrom(Sent, frame)

GotInv ==
  /\ IsCommand(msg)  => got \in {None, Ok(DecodeCommand(Front(frame)))}
  /\ IsResponse(msg) => got \in {None, Decode(Front(frame))}

CodecInv ==
  /\ checked \in BOOLEAN /\ damaged \in BOOLEAN
  /\ MessageInv /\ FrameInv /\ GotInv

-----------------------------------------------------------------------------
(* A message is a command or a response, and not both.                      *)
LEMMA CommandIs ==
  ASSUME NEW cmd \in AnyCommand PROVE IsCommand(cmd) /\ ~IsResponse(cmd) /\ cmd # None
<1>1. "op" \in DOMAIN cmd /\ "kind" \notin DOMAIN cmd
  <2>1. ASSUME NEW K, cmd \in [op : K] PROVE "op" \in DOMAIN cmd /\ "kind" \notin DOMAIN cmd
    BY <2>1
  <2>2. ASSUME NEW K, NEW A, \/ cmd \in [op : K, az : A] \/ cmd \in [op : K, el : A]
                             \/ cmd \in [op : K, az : A, el : A]
        PROVE  "op" \in DOMAIN cmd /\ "kind" \notin DOMAIN cmd
    BY <2>2
  <2>3. ASSUME NEW K, NEW S, cmd \in [op : K, speed : S]
        PROVE  "op" \in DOMAIN cmd /\ "kind" \notin DOMAIN cmd
    BY <2>3
  <2>4. ASSUME NEW K, NEW R, NEW V,
               cmd \in [op : K, register : R] \/ cmd \in [op : K, register : R, value : V]
        PROVE  "op" \in DOMAIN cmd /\ "kind" \notin DOMAIN cmd
    BY <2>4
  <2> QED
    BY <2>1, <2>2, <2>3, <2>4, Zenon DEF AnyCommand, CommandsOver
<1>2. IsCommand(cmd) /\ ~IsResponse(cmd)
  BY <1>1, Zenon DEF IsResponse, IsCommand
<1>3. ~IsCommand(None)
  BY DEF IsCommand, None
<1> QED
  BY <1>2, <1>3, Zenon

LEMMA ResponseIs == ASSUME NEW r \in AnyResponse PROVE IsResponse(r) /\ ~IsCommand(r) /\ r # None
<1>1. "kind" \in DOMAIN r /\ "op" \notin DOMAIN r
  <2>1. ASSUME NEW K, r \in [kind : K] PROVE "kind" \in DOMAIN r /\ "op" \notin DOMAIN r
    BY <2>1
  <2>2. ASSUME NEW K, NEW A, r \in [kind : K, az : A, el : A]
        PROVE  "kind" \in DOMAIN r /\ "op" \notin DOMAIN r
    BY <2>2
  <2>3. ASSUME NEW K, NEW D, r \in [kind : K, deg : D]
        PROVE  "kind" \in DOMAIN r /\ "op" \notin DOMAIN r
    BY <2>3
  <2>4. ASSUME NEW K, NEW R, NEW V, r \in [kind : K, register : R, value : V]
        PROVE  "kind" \in DOMAIN r /\ "op" \notin DOMAIN r
    BY <2>4
  <2> QED
    BY <2>1, <2>2, <2>3, <2>4, Zenon DEF AnyResponse, ResponsesOver
<1>2. IsResponse(r) /\ ~IsCommand(r)
  BY <1>1, Zenon DEF IsResponse, IsCommand
<1>3. ~IsResponse(None)
  BY DEF IsResponse, None
<1> QED
  BY <1>2, <1>3, Zenon

LEMMA NoneIsNeither == ~IsCommand(None) /\ ~IsResponse(None)
  BY DEF IsCommand, IsResponse, None

-----------------------------------------------------------------------------
LEMMA InitCodec == Init => CodecInv
  BY NoneIsNeither DEF Init, CodecInv, MessageInv, FrameInv, GotInv

LEMMA CommandKeeps ==
  ASSUME CodecInv, NEW cmd \in Commands, SendCommand(cmd) PROVE CodecInv'
<1>1. cmd \in AnyCommand /\ msg' = cmd /\ InRange(msg')
  BY MessagesAssumption DEF SendCommand
<1>2. IsCommand(msg') /\ ~IsResponse(msg')
  BY <1>1, CommandIs
<1>3. got = None /\ damaged = FALSE /\ got' = got /\ damaged' = damaged /\ checked' = checked
  BY CommandIs, ResponseIs DEF SendCommand, CodecInv, MessageInv
<1>4. frame' = Sent'
  BY <1>1, <1>2, <1>3 DEF SendCommand, Sent, SummedFrame, Plain
<1> QED
  BY <1>1, <1>2, <1>3, <1>4 DEF CodecInv, MessageInv, FrameInv, GotInv

LEMMA ResponseKeeps ==
  ASSUME CodecInv, NEW r \in Responses, SendResponse(r) PROVE CodecInv'
<1>1. r \in AnyResponse /\ msg' = r
  BY MessagesAssumption DEF SendResponse
<1>2. IsResponse(msg') /\ ~IsCommand(msg')
  BY <1>1, ResponseIs
<1>3. got = None /\ damaged = FALSE /\ got' = got /\ damaged' = damaged /\ checked' = checked
  BY CommandIs, ResponseIs DEF SendResponse, CodecInv, MessageInv
<1>4. frame' = Sent'
  BY <1>1, <1>2, <1>3 DEF SendResponse, Sent, SummedFrame, Plain
<1> QED
  BY <1>1, <1>2, <1>3, <1>4 DEF CodecInv, MessageInv, FrameInv, GotInv

LEMMA DamageKeeps ==
  ASSUME CodecInv, NEW i \in DOMAIN frame, NEW place \in 0..2, NEW d \in 0..9, Damage(i, place, d)
  PROVE  CodecInv'
<1>1. /\ msg' = msg /\ checked' = checked /\ got' = got /\ got = None
      /\ msg # None /\ damaged = FALSE /\ damaged' = TRUE
  BY DEF Damage, CodecInv
<1>2. Sent' = Sent /\ frame = Sent
  BY <1>1 DEF Sent, SummedFrame, Plain, CodecInv, FrameInv
<1>3. DamagedAt(frame, frame', i, place, d)
  BY Zenon DEF Damage, DamagedAt, Digit
<1>4. DamagedFrom(Sent', frame')
  BY <1>2, <1>3, Zenon DEF DamagedFrom
<1>5. FrameInv'
  BY <1>1, <1>4 DEF FrameInv
<1> QED
  BY <1>1, <1>5 DEF CodecInv, MessageInv, GotInv

LEMMA ReceiveKeeps == ASSUME CodecInv, Receive PROVE CodecInv'
<1>1. msg' = msg /\ frame' = frame /\ checked' = checked /\ damaged' = damaged
  BY DEF Receive
<1>2. FrameInv' /\ MessageInv'
  <2>1. Sent' = Sent
    BY <1>1 DEF Sent, SummedFrame, Plain
  <2>2. msg # None
    BY NoneIsNeither DEF Receive
  <2> QED
    BY <1>1, <2>1, <2>2 DEF CodecInv, FrameInv, MessageInv
<1>3. GotInv'
  <2>1. ~(IsCommand(msg) /\ IsResponse(msg))
    BY CommandIs, ResponseIs, NoneIsNeither DEF CodecInv, MessageInv
  <2> QED
    BY <1>1, <2>1 DEF Receive, GotInv
<1> QED
  BY <1>1, <1>2, <1>3 DEF CodecInv

LEMMA NextCodec == CodecInv /\ [Next]_vars => CodecInv'
<1> SUFFICES ASSUME CodecInv, [Next]_vars PROVE CodecInv'
  OBVIOUS
<1>1. CASE UNCHANGED vars
  BY <1>1 DEF vars, CodecInv, MessageInv, FrameInv, GotInv, Sent, SummedFrame, Plain
<1>2. ASSUME NEW cmd \in Commands, SendCommand(cmd) PROVE CodecInv'
  BY <1>2, CommandKeeps
<1>3. ASSUME NEW r \in Responses, SendResponse(r) PROVE CodecInv'
  BY <1>3, ResponseKeeps
<1>4. ASSUME NEW i \in DOMAIN frame, NEW place \in 0..2, NEW d \in 0..9, Damage(i, place, d)
      PROVE  CodecInv'
  BY <1>4, DamageKeeps
<1>5. CASE Receive
  BY <1>5, ReceiveKeeps
<1> QED
  BY <1>1, <1>2, <1>3, <1>4, <1>5 DEF Next

LEMMA CodecInvariant == Spec => []CodecInv
  BY InitCodec, NextCodec, PTL DEF Spec

-----------------------------------------------------------------------------
(* Commands                                                                 *)

LEMMA CarriedIf ==
  ASSUME NEW cmd \in AnyCommand, InRange(cmd), cmd.op # "QueryStatus", ThreeDigitOffset(cmd)
  PROVE  Carried(cmd)
<1>1. ASSUME NEW az \in I16Values, NEW el \in I16Values,
             cmd = [op |-> "Offset", az |-> az, el |-> el]
      PROVE  Carried(cmd)
  <2>1. cmd.op = "Offset" /\ cmd.az = az /\ cmd.el = el
    BY <1>1
  <2>2. Magnitude(az) <= 999 /\ Magnitude(el) <= 999
    BY <2>1 DEF ThreeDigitOffset
  <2>3. \A n \in Int : Magnitude(n) <= 999 => n \in SignedThreeDigits
    BY DEF Magnitude, SignedThreeDigits
  <2>4. az \in SignedThreeDigits /\ el \in SignedThreeDigits
    BY <2>2, <2>3, I16IsInt
  <2> QED
    BY <1>1, <2>4, Zenon DEF Carried
<1>2. cmd # [op |-> "QueryStatus"]
  OBVIOUS
<1> QED
  BY <1>1, <1>2, CommandHeard, Zenon

(* The text of a command, as it was sent.                                   *)
LEMMA SentCommand ==
  ASSUME CodecInv, IsCommand(msg)
  PROVE  /\ msg \in AnyCommand /\ InRange(msg) /\ msg # None
         /\ IsText(Payload(msg)) /\ NoStar(Payload(msg)) /\ Payload(msg) # <<>>
         /\ checked => Sent = Payload(msg) \o <<Cell("*#", XorChecksum(Payload(msg))), CR>>
         /\ ~checked => Sent = Append(Payload(msg), CR)
<1>1. msg \in AnyCommand /\ InRange(msg) /\ msg # None
  BY NoneIsNeither, ResponseIs DEF CodecInv, MessageInv
<1>2. PICK heard : HeardFor(heard, msg)
  BY <1>1, PayloadHeard
<1>3. IsText(Payload(msg)) /\ NoStar(Payload(msg)) /\ Payload(msg) # <<>>
  BY <1>2, Zenon DEF HeardFor, Spoken
<1>4. /\ checked => Sent = Payload(msg) \o <<Cell("*#", XorChecksum(Payload(msg))), CR>>
      /\ ~checked => Sent = Append(Payload(msg), CR)
  BY Zenon DEF Sent, SummedFrame, Plain, EncodeInto, EncodeWithChecksum
<1> QED
  BY <1>1, <1>3, <1>4

(* The device hears the command that was sent, whatever the numbers in it,
   with a checksum or without.                                              *)
THEOREM CodecCommandRoundTrip == Spec => []CommandRoundTrip
<1>1. CodecInv => CommandRoundTrip
  <2> SUFFICES ASSUME CodecInv, Received, ~damaged, IsCommand(msg),
                      msg.op # "QueryStatus", ThreeDigitOffset(msg)
               PROVE  got = Ok(msg)
    BY DEF CommandRoundTrip
  <2>1. damaged = FALSE /\ checked \in BOOLEAN
    BY DEF CodecInv
  <2>2. frame = Sent
    BY <2>1, SentCommand DEF CodecInv, FrameInv
  <2>3. Spoken(msg, Payload(msg))
    BY SentCommand, CarriedIf, CommandSpoken
  <2>4. DecodeCommand(Payload(msg)) = msg /\ IsText(Payload(msg)) /\ NoStar(Payload(msg))
    BY <2>3, Zenon DEF Spoken
  <2>5. DecodeCommand(Front(frame)) = msg
    <3>1. CASE ~checked
      BY <2>2, <2>4, <3>1, SentCommand, FrontOfFrame
    <3>2. CASE checked
      <4>1. Front(frame) = Append(Payload(msg), Cell("*#", XorChecksum(Payload(msg))))
        BY <2>2, <2>4, <3>2, SentCommand, FrontOfSummed
      <4> QED
        BY <2>4, <4>1, DecodeCommandSummed
    <3> QED
      BY <3>1, <3>2
  <2> QED
    BY <2>5 DEF CodecInv, GotInv, Received
<1> QED
  BY <1>1, CodecInvariant, PTL

(* None of the commands that get through has an angle out of range, damaged
   or not.                                                                  *)
THEOREM CodecHeardInRange == Spec => []HeardInRange
<1>1. CodecInv => HeardInRange
  <2> SUFFICES ASSUME CodecInv, Received, IsCommand(msg), got # Ok(None)
               PROVE  InRange(got.resp)
    BY DEF HeardInRange
  <2>1. got = Ok(DecodeCommand(Front(frame)))
    BY DEF CodecInv, GotInv, Received
  <2>2. got.resp = DecodeCommand(Front(frame)) /\ DecodeCommand(Front(frame)) # None
    BY <2>1 DEF Ok
  <2> QED
    BY <2>2, DecodedInRange
<1> QED
  BY <1>1, CodecInvariant, PTL

-----------------------------------------------------------------------------
(* Responses                                                                *)

LEMMA SentResponse ==
  ASSUME CodecInv, IsResponse(msg), Representable(msg)
  PROVE  \E text, t :
           /\ IsText(text) /\ NoStar(text) /\ text # <<>>
           /\ DecodePayload(text) = Ok(msg)
           /\ checked => Sent = text \o <<Cell("*#", XorChecksum(text)), t>>
           /\ ~checked => Sent = Append(text, t)
<1>1. PICK text : Coded(msg, text)
  BY ResponseCoded
<1>2. PICK t : EncodeResponse(msg) = Append(text, t)
  BY <1>1, Zenon DEF Coded
<1>3. IsText(text) /\ NoStar(text) /\ text # <<>> /\ DecodePayload(text) = Ok(msg)
  BY <1>1, Zenon DEF Coded
<1>4. ~IsCommand(msg)
  BY CommandIs, NoneIsNeither, ResponseIs DEF CodecInv, MessageInv
<1>5. Plain = Append(text, t)
  BY <1>2, <1>4, Zenon DEF Plain
<1>6. Front(Plain) = text /\ Last(Plain) = t
  BY <1>3, <1>5, FrontOfFrame
<1>7. /\ checked => Sent = text \o <<Cell("*#", XorChecksum(text)), t>>
      /\ ~checked => Sent = Append(text, t)
  BY <1>4, <1>5, <1>6, Zenon DEF Sent, SummedFrame
<1> QED
  BY <1>3, <1>7, Zenon

(* An angle or a register is a natural number. *)
LEMMA U16IsNat == \A n \in U16Values : n \in Nat /\ n < 100000
<1>1. \A top \in Nat : \A n \in 0..top : n \in Nat /\ n < top + 1
  OBVIOUS
<1>2. 65535 \in Nat /\ 65535 + 1 < 100000
  BY SMTT(60)
<1>3. \A n \in U16Values : n \in Nat /\ n < 65535 + 1
  BY <1>1, <1>2, SMTT(60) DEF U16Values
<1> QED
  BY <1>2, <1>3, SMTT(60)

LEMMA ThreeDigitsRepresentable ==
  ASSUME NEW r \in AnyResponse, ThreeDigitAngles(r) PROVE Representable(r)
<1>1. ASSUME NEW n \in U16Values, n <= 999 PROVE n \in ThreeDigitNumbers
  <2>1. n \in Int /\ 0 <= n
    BY U16IsNat
  <2> QED
    BY <1>1, <2>1 DEF ThreeDigitNumbers
<1>2. r.kind = "Position" => r.az \in U16Values /\ r.el \in U16Values
  BY DEF AnyResponse, ResponsesOver
<1>3. r.kind \in {"AzimuthPosition", "ElevationPosition"} => r.deg \in U16Values
  BY DEF AnyResponse, ResponsesOver
<1>4. /\ r.kind = "Position" => r.az \in ThreeDigitNumbers /\ r.el \in ThreeDigitNumbers
      /\ r.kind \in {"AzimuthPosition", "ElevationPosition"} => r.deg \in ThreeDigitNumbers
  BY <1>1, <1>2, <1>3 DEF ThreeDigitAngles
<1> QED
  BY <1>4, RepresentableIf

(* The host hears the response that was sent, with a checksum or without,
   if its angles have at most three digits.                                 *)
THEOREM CodecResponseRoundTrip == Spec => []ResponseRoundTrip
<1>1. CodecInv => ResponseRoundTrip
  <2> SUFFICES ASSUME CodecInv, Received, ~damaged, IsResponse(msg), ThreeDigitAngles(msg)
               PROVE  got = Ok(msg)
    BY DEF ResponseRoundTrip
  <2>1. damaged = FALSE /\ checked \in BOOLEAN /\ msg \in AnyResponse /\ msg # None
    BY CommandIs, NoneIsNeither, ResponseIs DEF CodecInv, MessageInv
  <2>2. frame = Sent
    BY <2>1 DEF CodecInv, FrameInv
  <2>3. PICK text, t :
           /\ IsText(text) /\ NoStar(text) /\ text # <<>>
           /\ DecodePayload(text) = Ok(msg)
           /\ checked => Sent = text \o <<Cell("*#", XorChecksum(text)), t>>
           /\ ~checked => Sent = Append(text, t)
    BY <2>1, SentResponse, ThreeDigitsRepresentable
  <2>4. Decode(Front(frame)) = Ok(msg)
    <3>1. CASE ~checked
      <4>1. Front(frame) = text
        BY <2>2, <2>3, <3>1, FrontOfFrame
      <4> QED
        BY <2>3, <4>1, DecodePlain
    <3>2. CASE checked
      <4>1. Front(frame) = Append(text, Cell("*#", XorChecksum(text)))
        BY <2>2, <2>3, <3>2, FrontOfSummed
      <4> QED
        BY <2>3, <4>1, DecodeSummed
    <3> QED
      BY <3>1, <3>2
  <2> QED
    BY <2>4 DEF CodecInv, GotInv, Received
<1> QED
  BY <1>1, CodecInvariant, PTL

-----------------------------------------------------------------------------
(* Echoes                                                                   *)

LEMMA DamageIs ==
  ASSUME NEW S, NEW f \in Seq(S), NEW g, NEW i \in 1..Len(f), NEW place, NEW d,
         DamagedAt(f, g, i, place, d)
  PROVE  /\ \E T : g \in Seq(T)
         /\ SameLabels(f, g)
         /\ g[i] = Cell(f[i].k, f[i].v + (d - Digit(f[i].v, place)) * 10^place)
         /\ \A j \in 1..Len(f) : j # i => g[j] = f[j]
<1> DEFINE c == Cell(f[i].k, f[i].v + (d - Digit(f[i].v, place)) * 10^place)
<1>1. g = [f EXCEPT ![i] = c]
  BY Zenon DEF DamagedAt
<1>2. c.k = f[i].k
  BY CellFields, Zenon
<1> HIDE DEF c
<1>3. /\ g \in Seq(S \cup {c}) /\ Len(g) = Len(f) /\ g[i] = c
      /\ \A j \in 1..Len(f) : j # i => g[j] = f[j]
  BY <1>1
<1>4. \A j \in 1..Len(f) : g[j].k = f[j].k
  BY <1>2, <1>3
<1>5. SameLabels(f, g)
  BY <1>3, <1>4 DEF SameLabels
<1> QED
  BY <1>3, <1>5, Zenon DEF c

LEMMA FrontLabels ==
  ASSUME NEW S, NEW p \in Seq(S), NEW t, NEW T, NEW g \in Seq(T), SameLabels(Append(p, t), g)
  PROVE  SameLabels(p, Front(g)) /\ Front(g) \in Seq(T)
<1> DEFINE f == Append(p, t)
<1>1. p \in Seq(S \cup {t}) /\ t \in S \cup {t} /\ Len(p) \in Nat
  OBVIOUS
<1>2. Len(f) = Len(p) + 1 /\ \A i \in 1..Len(p) : f[i] = p[i]
  BY <1>1
<1> HIDE DEF f
<1>3. Len(g) = Len(p) + 1 /\ \A i \in 1..Len(p) : g[i].k = p[i].k
  BY <1>1, <1>2 DEF SameLabels, f
<1>4. /\ Front(g) \in Seq(T) /\ Len(Front(g)) = Len(p)
      /\ \A i \in 1..Len(p) : Front(g)[i] = g[i]
  BY <1>1, <1>3 DEF Front
<1> QED
  BY <1>3, <1>4 DEF SameLabels

LEMMA FrontSplit ==
  ASSUME NEW S, NEW p \in Seq(S), NEW x, NEW t, NEW T, NEW g \in Seq(T),
         SameLabels(p \o <<x, t>>, g)
  PROVE  LET q == SubSeq(g, 1, Len(p)) IN
         /\ Front(g) = Append(q, g[Len(p) + 1])
         /\ g[Len(p) + 1].k = x.k /\ g[Len(p) + 2].k = t.k
         /\ q \in Seq(T) /\ SameLabels(p, q)
         /\ \A i \in 1..Len(p) : q[i] = g[i]
         /\ Len(g) = Len(p) + 2
<1> DEFINE f == p \o <<x, t>>
           q == SubSeq(g, 1, Len(p))
           n == Len(p)
<1>1. /\ p \in Seq(S \cup {x, t}) /\ <<x, t>> \in Seq(S \cup {x, t}) /\ n \in Nat
      /\ Len(<<x, t>>) = 2 /\ <<x, t>>[1] = x /\ <<x, t>>[2] = t
  OBVIOUS
<1>2. Len(f) = n + 2 /\ (\A i \in 1..n : f[i] = p[i]) /\ f[n + 1] = x /\ f[n + 2] = t
  BY <1>1
<1> HIDE DEF f
<1>3. /\ Len(g) = n + 2 /\ \A i \in 1..n : g[i].k = p[i].k
      /\ g[n + 1].k = x.k /\ g[n + 2].k = t.k
  BY <1>1, <1>2 DEF SameLabels, f
<1>4. q \in Seq(T) /\ Len(q) = n /\ (\A i \in 1..n : q[i] = g[i])
  BY <1>1, <1>3
<1>5. g[n + 1] \in T
  BY <1>1, <1>3
<1>6. Front(g) = Append(q, g[n + 1])
  <2> DEFINE a == Front(g)
             b == Append(q, g[n + 1])
  <2> HIDE DEF q
  <2>1. /\ a \in Seq(T) /\ Len(a) = n + 1
        /\ \A i \in 1..(n + 1) : a[i] = g[i]
    BY <1>1, <1>3 DEF Front
  <2>2. /\ b \in Seq(T) /\ Len(b) = n + 1 /\ b[n + 1] = g[n + 1]
        /\ \A i \in 1..n : b[i] = q[i]
    BY <1>4, <1>5
  <2> HIDE DEF a, b
  <2>3. \A i \in 1..Len(a) : a[i] = b[i]
    <3> SUFFICES ASSUME NEW i \in 1..(n + 1) PROVE a[i] = b[i]
      BY <2>1
    <3>1. i = n + 1 \/ i \in 1..n
      BY <1>1
    <3> QED
      BY <1>4, <2>1, <2>2, <3>1
  <2>4. a = b
    BY <2>1, <2>2, <2>3, SeqEqual
  <2> QED
    BY <2>4 DEF a, b
<1>7. SameLabels(p, q)
  BY <1>3, <1>4 DEF SameLabels
<1> QED
  BY <1>3, <1>4, <1>6, <1>7

(* Whatever happens to the numbers of a command, its echo is no answer.     *)
LEMMA NoAnswerStarred ==
  ASSUME NEW q, IsText(q), NoStar(q), Unanswering(q), NEW c, c.k = "*#"
  PROVE  Decode(Append(q, c)).tag = "Parse"
<1>1. DecodePayload(q) = ParseError("UnknownCommand")
  BY NoAnswerRead
<1>2. \A e : ParseError(e).tag = "Parse"
  BY DEF ParseError
<1> QED
  BY <1>1, <1>2, DecodeStarred

LEMMA SentIsSeq ==
  ASSUME CodecInv, IsCommand(msg)
  PROVE  (\E S : Sent \in Seq(S)) /\ \E S : Payload(msg) \in Seq(S)
<1>1. PICK S : Payload(msg) \in Seq(S)
  BY SentCommand DEF IsText
<1> DEFINE c == Cell("*#", XorChecksum(Payload(msg)))
           T == S \cup {c, CR}
<1>2. Payload(msg) \in Seq(T) /\ <<c, CR>> \in Seq(T) /\ CR \in T
  BY <1>1
<1>3. checked => Sent = Payload(msg) \o <<c, CR>>
  BY SentCommand
<1>4. ~checked => Sent = Append(Payload(msg), CR)
  BY SentCommand
<1> HIDE DEF T, c
<1>5. Payload(msg) \o <<c, CR>> \in Seq(T) /\ Append(Payload(msg), CR) \in Seq(T)
  BY <1>2
<1>6. Sent \in Seq(T)
  BY <1>3, <1>4, <1>5, Zenon
<1> QED
  BY <1>1, <1>6, Zenon

(* An echo that Session does not suppress is never taken for an answer, even
   with a wrong digit in it; only that of KeepAlive is.                     *)
THEOREM CodecEchoIsNoAnswer == Spec => []EchoIsNoAnswer
<1>1. CodecInv => EchoIsNoAnswer
  <2> SUFFICES ASSUME CodecInv, IsCommand(msg), msg.op # "KeepAlive"
               PROVE  Decode(Front(frame)).tag = "Parse"
    BY DEF EchoIsNoAnswer
  <2> DEFINE p == Payload(msg)
  <2>1. PICK heard : HeardFor(heard, msg)
    BY SentCommand, PayloadHeard
  <2>2. IsText(p) /\ NoStar(p) /\ Unanswering(p)
    BY <2>1, Zenon DEF HeardFor, Spoken
  <2>3. (\E T : frame \in Seq(T)) /\ SameLabels(Sent, frame)
    <3>1. CASE damaged = FALSE
      <4>1. frame = Sent
        BY <3>1, SentCommand DEF CodecInv, FrameInv
      <4> QED
        BY <4>1, SentIsSeq DEF SameLabels
    <3>2. CASE damaged = TRUE
      <4>1. DamagedFrom(Sent, frame)
        BY <3>2, SentCommand DEF CodecInv, FrameInv
      <4>2. PICK S : Sent \in Seq(S)
        BY SentIsSeq
      <4>3. PICK i, place, d : i \in DOMAIN Sent /\ DamagedAt(Sent, frame, i, place, d)
        BY <4>1, Zenon DEF DamagedFrom
      <4>4. i \in 1..Len(Sent)
        BY <4>2, <4>3
      <4> QED
        BY <4>2, <4>3, <4>4, DamageIs
    <3> QED
      BY <3>1, <3>2 DEF CodecInv
  <2>4. PICK T : frame \in Seq(T)
    BY <2>3
  <2>5. PICK S : p \in Seq(S)
    BY <2>2 DEF IsText
  <2> HIDE DEF p
  <2>6. CASE ~checked
    <3>1. Sent = Append(p, CR)
      BY <2>6, SentCommand DEF p
    <3>2. SameLabels(p, Front(frame)) /\ Front(frame) \in Seq(T)
      BY <2>3, <2>4, <2>5, <3>1, FrontLabels
    <3>3. IsText(Front(frame)) /\ NoStar(Front(frame)) /\ Unanswering(Front(frame))
      BY <2>2, <3>2, TextLabels, NoStarLabels, UnansweringLabels
    <3>4. Front(frame) # <<>>
      <4>1. Len(<<>>) = 0
        OBVIOUS
      <4> QED
        BY <3>3, <4>1, Zenon DEF Unanswering
    <3>5. Decode(Front(frame)) = ParseError("UnknownCommand")
      BY <3>3, <3>4, DecodePlain, NoAnswerRead
    <3> QED
      BY <3>5 DEF ParseError
  <2>7. CASE checked
    <3> DEFINE q == SubSeq(frame, 1, Len(p))
               c == frame[Len(p) + 1]
    <3>1. Sent = p \o <<Cell("*#", XorChecksum(p)), CR>>
      BY <2>7, SentCommand DEF p
    <3>2. /\ Front(frame) = Append(q, c) /\ c.k = Cell("*#", XorChecksum(p)).k
          /\ q \in Seq(T) /\ SameLabels(p, q)
      BY <2>3, <2>4, <2>5, <3>1, FrontSplit
    <3> HIDE DEF q, c
    <3>3. IsText(q) /\ NoStar(q) /\ Unanswering(q)
      BY <2>2, <3>2, TextLabels, NoStarLabels, UnansweringLabels
    <3>4. c.k = "*#"
      BY <3>2, CellFields, Zenon
    <3> QED
      BY <3>2, <3>3, <3>4, NoAnswerStarred, Zenon
  <2> QED
    BY <2>6, <2>7
<1> QED
  BY <1>1, CodecInvariant, PTL

-----------------------------------------------------------------------------
(* The checksum finds a wrong digit                                         *)

LEMMA OddOrEven == ASSUME NEW n \in Nat PROVE n % 2 \in 0..1
OBVIOUS

LEMMA EightPlaces == ASSUME NEW i \in 0..7
  PROVE i = 0 \/ i = 1 \/ i = 2 \/ i = 3 \/ i = 4 \/ i = 5 \/ i = 6 \/ i = 7
OBVIOUS

LEMMA BitsAre ==
  ASSUME NEW n \in Nat
  PROVE /\ Bit(n, 0) = n % 2 /\ Bit(n, 1) = (n \div 2) % 2 /\ Bit(n, 2) = (n \div 4) % 2
        /\ Bit(n, 3) = (n \div 8) % 2 /\ Bit(n, 4) = (n \div 16) % 2
        /\ Bit(n, 5) = (n \div 32) % 2 /\ Bit(n, 6) = (n \div 64) % 2
        /\ Bit(n, 7) = (n \div 128) % 2
<1>1. /\ 2^0 = 1 /\ 2^1 = 2 /\ 2^2 = 4 /\ 2^3 = 8 /\ 2^4 = 16 /\ 2^5 = 32
      /\ 2^6 = 64 /\ 2^7 = 128
  OBVIOUS
<1>2. n \div 1 = n
  OBVIOUS
<1> QED
  BY <1>1, <1>2 DEF Bit

LEMMA BitIsBit == ASSUME NEW n \in Nat, NEW i \in 0..7 PROVE Bit(n, i) \in 0..1
<1>1. 2^i \in Nat \ {0}
  <2>1. /\ 2^0 \in Nat \ {0} /\ 2^1 \in Nat \ {0} /\ 2^2 \in Nat \ {0} /\ 2^3 \in Nat \ {0}
        /\ 2^4 \in Nat \ {0} /\ 2^5 \in Nat \ {0} /\ 2^6 \in Nat \ {0} /\ 2^7 \in Nat \ {0}
    OBVIOUS
  <2> QED
    BY <2>1, EightPlaces, Zenon
<1>2. \A k \in Nat \ {0} : n \div k \in Nat
  OBVIOUS
<1>3. n \div 2^i \in Nat
  BY <1>1, <1>2, Zenon
<1> QED
  BY <1>3, OddOrEven, Zenon DEF Bit

LEMMA ByteOfBits ==
  ASSUME NEW n \in 0..255
  PROVE  n = Bit(n, 0) + 2 * (Bit(n, 1) + 2 * (Bit(n, 2) + 2 * (Bit(n, 3)
             + 2 * (Bit(n, 4) + 2 * (Bit(n, 5) + 2 * (Bit(n, 6) + 2 * Bit(n, 7)))))))
<1>1. n \in Nat /\ n < 256
  OBVIOUS
<1> DEFINE half1 == n \div 2  half2 == n \div 4  half3 == n \div 8  half4 == n \div 16
           half5 == n \div 32  half6 == n \div 64  half7 == n \div 128
<1>2. /\ half1 \in Nat /\ half2 \in Nat /\ half3 \in Nat /\ half4 \in Nat /\ half5 \in Nat /\ half6 \in Nat
      /\ half7 \in Nat
  BY <1>1
<1>3. /\ half2 = half1 \div 2 /\ half3 = half2 \div 2 /\ half4 = half3 \div 2 /\ half5 = half4 \div 2
      /\ half6 = half5 \div 2 /\ half7 = half6 \div 2 /\ half7 \div 2 = 0
  BY <1>1
<1>4. /\ Bit(n, 0) = n % 2 /\ Bit(n, 1) = half1 % 2 /\ Bit(n, 2) = half2 % 2
      /\ Bit(n, 3) = half3 % 2 /\ Bit(n, 4) = half4 % 2 /\ Bit(n, 5) = half5 % 2
      /\ Bit(n, 6) = half6 % 2 /\ Bit(n, 7) = half7 % 2
  BY <1>1, BitsAre, ZenonT(60)
<1>5. half1 = n \div 2
  OBVIOUS
<1> HIDE DEF half1, half2, half3, half4, half5, half6, half7
<1>6. /\ n - (n % 2) = 2 * (n \div 2)
      /\ half1 - (half1 % 2) = 2 * (half1 \div 2) /\ half2 - (half2 % 2) = 2 * (half2 \div 2)
      /\ half3 - (half3 % 2) = 2 * (half3 \div 2) /\ half4 - (half4 % 2) = 2 * (half4 \div 2)
      /\ half5 - (half5 % 2) = 2 * (half5 \div 2) /\ half6 - (half6 % 2) = 2 * (half6 \div 2)
      /\ half7 - (half7 % 2) = 2 * (half7 \div 2)
  BY <1>1, <1>2
<1>7. /\ n - Bit(n, 0) = 2 * half1
      /\ half1 - Bit(n, 1) = 2 * half2 /\ half2 - Bit(n, 2) = 2 * half3
      /\ half3 - Bit(n, 3) = 2 * half4 /\ half4 - Bit(n, 4) = 2 * half5
      /\ half5 - Bit(n, 5) = 2 * half6 /\ half6 - Bit(n, 6) = 2 * half7
      /\ half7 - Bit(n, 7) = 2 * 0
  BY <1>3, <1>4, <1>5, <1>6, Zenon
<1>10. /\ Bit(n, 0) \in Int /\ Bit(n, 1) \in Int /\ Bit(n, 2) \in Int /\ Bit(n, 3) \in Int
       /\ Bit(n, 4) \in Int /\ Bit(n, 5) \in Int /\ Bit(n, 6) \in Int /\ Bit(n, 7) \in Int
  BY <1>1, <1>2, <1>4
<1> QED
  BY <1>1, <1>2, <1>7, <1>10

LEMMA BytesDiffer ==
  ASSUME NEW m \in 0..255, NEW n \in 0..255, m # n PROVE \E i \in 0..7 : Bit(m, i) # Bit(n, i)
<1> SUFFICES ASSUME \A i \in 0..7 : Bit(m, i) = Bit(n, i) PROVE FALSE
  OBVIOUS
<1>1. /\ Bit(m, 0) = Bit(n, 0) /\ Bit(m, 1) = Bit(n, 1) /\ Bit(m, 2) = Bit(n, 2)
      /\ Bit(m, 3) = Bit(n, 3) /\ Bit(m, 4) = Bit(n, 4) /\ Bit(m, 5) = Bit(n, 5)
      /\ Bit(m, 6) = Bit(n, 6) /\ Bit(m, 7) = Bit(n, 7)
  OBVIOUS
<1>2. m = Bit(m, 0) + 2 * (Bit(m, 1) + 2 * (Bit(m, 2) + 2 * (Bit(m, 3)
            + 2 * (Bit(m, 4) + 2 * (Bit(m, 5) + 2 * (Bit(m, 6) + 2 * Bit(m, 7)))))))
  BY ByteOfBits
<1>3. n = Bit(n, 0) + 2 * (Bit(n, 1) + 2 * (Bit(n, 2) + 2 * (Bit(n, 3)
            + 2 * (Bit(n, 4) + 2 * (Bit(n, 5) + 2 * (Bit(n, 6) + 2 * Bit(n, 7)))))))
  BY ByteOfBits
<1>4. m = n
  BY <1>1, <1>2, <1>3
<1> QED
  BY <1>4

(* One bit more or less changes the parity.                                 *)
LEMMA ParityFlips ==
  ASSUME NEW s, NEW t, IsFiniteSet(DOMAIN s), DOMAIN t = DOMAIN s, NEW j \in DOMAIN s,
         \A k \in DOMAIN s : k # j => t[k] = s[k],
         NEW i, Bit(s[j], i) = 1, Bit(t[j], i) # 1
  PROVE  Parity(s, i) # Parity(t, i)
<1> DEFINE J == {k \in DOMAIN s : Bit(s[k], i) = 1}
           K == {k \in DOMAIN t : Bit(t[k], i) = 1}
<1>1. J = K \cup {j} /\ j \notin K
  OBVIOUS
<1>2. IsFiniteSet(K) /\ Cardinality(K) \in Nat
  <2>1. K \subseteq DOMAIN s
    OBVIOUS
  <2> QED
    BY <2>1, FS_Subset, FS_CardinalityType
<1>3. Parity(s, i) = Cardinality(J) % 2 /\ Parity(t, i) = Cardinality(K) % 2
  BY DEF Parity
<1> HIDE DEF J, K
<1>4. Cardinality(J) = Cardinality(K) + 1
  BY <1>1, <1>2, FS_AddElement
<1>5. \A n \in Nat : (n + 1) % 2 # n % 2
  OBVIOUS
<1> QED
  BY <1>2, <1>3, <1>4, <1>5

(* A number has one set of bits.                                            *)
NumberOf(a) ==
  a[0] + 2 * a[1] + 4 * a[2] + 8 * a[3] + 16 * a[4] + 32 * a[5] + 64 * a[6] + 128 * a[7]

LEMMA NumbersOfBits ==
  ASSUME NEW a \in [0..7 -> 0..1], NEW b \in [0..7 -> 0..1], NumberOf(a) = NumberOf(b)
  PROVE  a = b
<1>1. \A k \in 0..7 : a[k] \in 0..1 /\ b[k] \in 0..1
  OBVIOUS
<1>2. /\ a[0] \in 0..1 /\ a[1] \in 0..1 /\ a[2] \in 0..1 /\ a[3] \in 0..1
      /\ a[4] \in 0..1 /\ a[5] \in 0..1 /\ a[6] \in 0..1 /\ a[7] \in 0..1
  BY <1>1
<1>3. /\ b[0] \in 0..1 /\ b[1] \in 0..1 /\ b[2] \in 0..1 /\ b[3] \in 0..1
      /\ b[4] \in 0..1 /\ b[5] \in 0..1 /\ b[6] \in 0..1 /\ b[7] \in 0..1
  BY <1>1
<1>4. a[0] + 2 * a[1] + 4 * a[2] + 8 * a[3] + 16 * a[4] + 32 * a[5] + 64 * a[6] + 128 * a[7]
      = b[0] + 2 * b[1] + 4 * b[2] + 8 * b[3] + 16 * b[4] + 32 * b[5] + 64 * b[6] + 128 * b[7]
  BY DEF NumberOf
<1>5. a[7] = b[7]
  BY <1>2, <1>3, <1>4
<1>6. a[6] = b[6]
  BY <1>2, <1>3, <1>4, <1>5
<1>7. a[5] = b[5]
  BY <1>2, <1>3, <1>4, <1>5, <1>6
<1>8. a[4] = b[4]
  BY <1>2, <1>3, <1>4, <1>5, <1>6, <1>7
<1>9. a[3] = b[3] /\ a[2] = b[2] /\ a[1] = b[1] /\ a[0] = b[0]
  BY <1>2, <1>3, <1>4, <1>5, <1>6, <1>7, <1>8
<1>10. \A k \in 0..7 : a[k] = b[k]
  BY <1>5, <1>6, <1>7, <1>8, <1>9, EightPlaces, ZenonT(60)
<1> QED
  BY <1>10

LEMMA ParitiesTell ==
  ASSUME NEW s, NEW t, IsFiniteSet(DOMAIN s), IsFiniteSet(DOMAIN t),
         NEW i \in 0..7, Parity(s, i) # Parity(t, i)
  PROVE  XorAll(s) # XorAll(t)
<1> DEFINE a == [k \in 0..7 |-> Parity(s, k)]
           b == [k \in 0..7 |-> Parity(t, k)]
<1>1. \A k \in 0..7 : Parity(s, k) \in 0..1 /\ Parity(t, k) \in 0..1
  BY ParityIsBit
<1>2. a \in [0..7 -> 0..1] /\ b \in [0..7 -> 0..1]
  BY <1>1
<1>3. NumberOf(a) = XorAll(s) /\ NumberOf(b) = XorAll(t)
  BY DEF NumberOf, XorAll
<1>4. a[i] # b[i]
  OBVIOUS
<1> HIDE DEF a, b
<1>5. a # b
  BY <1>4
<1> QED
  BY <1>2, <1>3, <1>5, NumbersOfBits

(* One byte that differs makes the xor of all bytes differ.                 *)
LEMMA XorDiffers ==
  ASSUME NEW s, NEW t, IsFiniteSet(DOMAIN s), DOMAIN t = DOMAIN s, NEW j \in DOMAIN s,
         \A k \in DOMAIN s : k # j => t[k] = s[k],
         s[j] \in 0..255, t[j] \in 0..255, s[j] # t[j]
  PROVE  XorAll(s) # XorAll(t)
<1>1. PICK i \in 0..7 : Bit(s[j], i) # Bit(t[j], i)
  BY BytesDiffer, Zenon
<1>2. Bit(s[j], i) \in 0..1 /\ Bit(t[j], i) \in 0..1
  <2>1. s[j] \in Nat /\ t[j] \in Nat
    OBVIOUS
  <2> QED
    BY <2>1, BitIsBit
<1>3. \/ Bit(s[j], i) = 1 /\ Bit(t[j], i) # 1
      \/ Bit(t[j], i) = 1 /\ Bit(s[j], i) # 1
  BY <1>1, <1>2
<1>4. Parity(s, i) # Parity(t, i)
  <2>1. CASE Bit(s[j], i) = 1 /\ Bit(t[j], i) # 1
    BY <2>1, ParityFlips
  <2>2. CASE Bit(t[j], i) = 1 /\ Bit(s[j], i) # 1
    <3>1. \A k \in DOMAIN t : k # j => s[k] = t[k]
      OBVIOUS
    <3>2. j \in DOMAIN t /\ IsFiniteSet(DOMAIN t)
      OBVIOUS
    <3>3. Parity(t, i) # Parity(s, i)
      BY <2>2, <3>1, <3>2, ParityFlips
    <3> QED
      BY <3>3
  <2> QED
    BY <1>3, <2>1, <2>2
<1> QED
  BY <1>4, ParitiesTell

-----------------------------------------------------------------------------
(* The angles of a response: its numbers that are written with three digits *)
AngleLabels == {"AZ=#", " EL=#", "AZ#", "EL#"}

Angle(c) == c.k \in ThreeDigits => c.k \in AngleLabels /\ c.v \in ThreeDigitNumbers

Angles(s) == \A i \in 1..Len(s) : Angle(s[i])

LEMMA AngleCells ==
  \A v \in ThreeDigitNumbers : /\ Angle(Cell("AZ=#", v)) /\ Angle(Cell(" EL=#", v))
                               /\ Angle(Cell("AZ#", v)) /\ Angle(Cell("EL#", v))
<1>1. /\ "AZ=#" \in AngleLabels /\ " EL=#" \in AngleLabels
      /\ "AZ#" \in AngleLabels /\ "EL#" \in AngleLabels
  BY Zenon DEF AngleLabels
<1> QED
  BY <1>1, CellFields, ZenonT(60) DEF Angle

LEMMA OtherCells ==
  \A v : /\ Angle(Cell(".#", v)) /\ Angle(Cell("ST=#", v)) /\ Angle(Cell("GS#", v))
         /\ Angle(Cell("GE#", v)) /\ Angle(Cell("CR#", v)) /\ Angle(Cell(",#", v))
         /\ Angle(Word("+")) /\ Angle(Word("?")) /\ Angle(CR) /\ Angle(LF)
<1>1. /\ ".#" \notin ThreeDigits /\ "ST=#" \notin ThreeDigits /\ "GS#" \notin ThreeDigits
      /\ "GE#" \notin ThreeDigits /\ "CR#" \notin ThreeDigits /\ ",#" \notin ThreeDigits
      /\ "+" \notin ThreeDigits /\ "?" \notin ThreeDigits /\ "cr" \notin ThreeDigits
      /\ "lf" \notin ThreeDigits
  BY Zenon DEF ThreeDigits
<1>2. ASSUME NEW k, k \notin ThreeDigits, NEW v PROVE Angle(Cell(k, v))
  BY <1>2, CellFields, Zenon DEF Angle
<1>3. Angle(Word("+")) /\ Angle(Word("?")) /\ Angle(CR) /\ Angle(LF)
  BY <1>1, <1>2, Zenon DEF Word, CR, LF
<1> QED
  BY <1>1, <1>2, <1>3, Zenon

LEMMA TwoAngles == ASSUME NEW c, NEW e, Angle(c), Angle(e) PROVE Angles(<<c, e>>)
<1>1. Len(<<c, e>>) = 2 /\ <<c, e>>[1] = c /\ <<c, e>>[2] = e
  OBVIOUS
<1>2. \A i \in 1..2 : i = 1 \/ i = 2
  OBVIOUS
<1> QED
  BY <1>1, <1>2, Zenon DEF Angles

LEMMA ThreeAngles ==
  ASSUME NEW c, NEW e, NEW t, Angle(c), Angle(e), Angle(t) PROVE Angles(<<c, e, t>>)
<1>1. /\ Len(<<c, e, t>>) = 3
      /\ <<c, e, t>>[1] = c /\ <<c, e, t>>[2] = e /\ <<c, e, t>>[3] = t
  OBVIOUS
<1>2. \A i \in 1..3 : i = 1 \/ i = 2 \/ i = 3
  OBVIOUS
<1> QED
  BY <1>1, <1>2, Zenon DEF Angles

LEMMA U16Keeps ==
  ASSUME NEW n \in U16Values
  PROVE  Keep3(n) \in ThreeDigitNumbers /\ Keep3(Keep3(n)) = Keep3(n)
<1>1. n \in Int /\ 0 <= n
  BY U16IsNat
<1>2. n % 1000 \in 0..999
  BY <1>1
<1>3. Keep3(n) \in ThreeDigitNumbers
  BY <1>1, <1>2 DEF Keep3, ThreeDigitNumbers
<1> QED
  BY <1>3, Keep3Keeps

(* The frame of a response is that of one with three-digit angles.          *)
LEMMA ResponseWritten ==
  ASSUME NEW r \in AnyResponse
  PROVE  /\ \E told : Representable(told) /\ EncodeResponse(told) = EncodeResponse(r)
         /\ Angles(EncodeResponse(r))
<1>1. CASE r \in [kind : {"Ack", "Error"}]
  <2>1. r.kind = "Ack" \/ r.kind = "Error"
    BY <1>1
  <2>2. r.kind # "Position" /\ r.kind \notin {"AzimuthPosition", "ElevationPosition"}
    BY <2>1
  <2>3. Representable(r)
    BY <2>2, RepresentableIf
  <2>4. EncodeResponse(r) = <<Word("+"), CR>> \/ EncodeResponse(r) = <<Word("?"), CR>>
    BY <2>1, Zenon DEF EncodeResponse
  <2>5. Angles(EncodeResponse(r))
    BY <2>4, OtherCells, TwoAngles, Zenon
  <2> QED
    BY <2>3, <2>5, Zenon
<1>2. CASE r \in [kind : {"Position"}, az : U16Values, el : U16Values]
  <2> DEFINE told == [kind |-> "Position", az |-> Keep3(r.az), el |-> Keep3(r.el)]
  <2>1. r.kind = "Position" /\ r.az \in U16Values /\ r.el \in U16Values
    BY <1>2
  <2>2. /\ Keep3(r.az) \in ThreeDigitNumbers /\ Keep3(Keep3(r.az)) = Keep3(r.az)
        /\ Keep3(r.el) \in ThreeDigitNumbers /\ Keep3(Keep3(r.el)) = Keep3(r.el)
    BY <2>1, U16Keeps
  <2>3. Representable(told)
    BY <2>2, Zenon DEF Representable
  <2>4. told.kind = "Position" /\ told.az = Keep3(r.az) /\ told.el = Keep3(r.el)
    OBVIOUS
  <2> HIDE DEF told
  <2>5. EncodeResponse(r) = <<Cell("AZ=#", Keep3(r.az)), Cell(" EL=#", Keep3(r.el)), CR>>
    BY <2>1, Zenon DEF EncodeResponse
  <2>6. EncodeResponse(told) = <<Cell("AZ=#", Keep3(r.az)), Cell(" EL=#", Keep3(r.el)), CR>>
    BY <2>2, <2>4, Zenon DEF EncodeResponse
  <2>7. Angles(EncodeResponse(r))
    BY <2>2, <2>5, AngleCells, OtherCells, ThreeAngles, Zenon
  <2> QED
    BY <2>3, <2>5, <2>6, <2>7, Zenon
<1>3. CASE r \in [kind : {"AzimuthPosition", "ElevationPosition", "StatusRegister",
                          "ErrorRegister"}, deg : U16Values]
  <2>1. /\ r.deg \in U16Values
        /\ \/ r.kind \in {"AzimuthPosition", "ElevationPosition"}
           \/ r.kind \in {"StatusRegister", "ErrorRegister"}
    BY <1>3
  <2>2. CASE r.kind \in {"AzimuthPosition", "ElevationPosition"}
    <3> DEFINE told == [kind |-> r.kind, deg |-> Keep3(r.deg)]
    <3>1. Keep3(r.deg) \in ThreeDigitNumbers /\ Keep3(Keep3(r.deg)) = Keep3(r.deg)
      BY <2>1, U16Keeps
    <3>2. Representable(told)
      BY <2>2, <3>1, Zenon DEF Representable
    <3>3. told.kind = r.kind /\ told.deg = Keep3(r.deg)
      OBVIOUS
    <3> HIDE DEF told
    <3>4. CASE r.kind = "AzimuthPosition"
      <4>1. EncodeResponse(r) = <<Cell("AZ#", Keep3(r.deg)), Cell(".#", 0), LF>>
        BY <3>4, Zenon DEF EncodeResponse
      <4>2. EncodeResponse(told) = <<Cell("AZ#", Keep3(r.deg)), Cell(".#", 0), LF>>
        BY <3>1, <3>3, <3>4, Zenon DEF EncodeResponse
      <4>3. Angles(EncodeResponse(r))
        BY <3>1, <4>1, AngleCells, OtherCells, ThreeAngles, Zenon
      <4> QED
        BY <3>2, <4>1, <4>2, <4>3, Zenon
    <3>5. CASE r.kind = "ElevationPosition"
      <4>1. EncodeResponse(r) = <<Cell("EL#", Keep3(r.deg)), Cell(".#", 0), LF>>
        BY <3>5, Zenon DEF EncodeResponse
      <4>2. EncodeResponse(told) = <<Cell("EL#", Keep3(r.deg)), Cell(".#", 0), LF>>
        BY <3>1, <3>3, <3>5, Zenon DEF EncodeResponse
      <4>3. Angles(EncodeResponse(r))
        BY <3>1, <4>1, AngleCells, OtherCells, ThreeAngles, Zenon
      <4> QED
        BY <3>2, <4>1, <4>2, <4>3, Zenon
    <3> QED
      BY <2>2, <3>4, <3>5, Zenon
  <2>3. CASE r.kind \in {"StatusRegister", "ErrorRegister"}
    <3>1. r.kind # "Position" /\ r.kind \notin {"AzimuthPosition", "ElevationPosition"}
      BY <2>3
    <3>2. Representable(r)
      BY <3>1, RepresentableIf
    <3>3. \/ EncodeResponse(r) = <<Cell("GS#", r.deg), LF>>
          \/ EncodeResponse(r) = <<Cell("GE#", r.deg), LF>>
      BY <2>3, Zenon DEF EncodeResponse
    <3>4. Angles(EncodeResponse(r))
      BY <3>3, OtherCells, TwoAngles, Zenon
    <3> QED
      BY <3>2, <3>4, Zenon
  <2> QED
    BY <2>1, <2>2, <2>3, Zenon
<1>4. CASE r \in [kind : {"Status"}, deg : 1..6]
  <2>1. r.kind = "Status"
    BY <1>4
  <2>2. r.kind # "Position" /\ r.kind \notin {"AzimuthPosition", "ElevationPosition"}
    BY <2>1
  <2>3. Representable(r)
    BY <2>2, RepresentableIf
  <2>4. EncodeResponse(r) = <<Cell("ST=#", r.deg), CR>>
    BY <2>1, Zenon DEF EncodeResponse
  <2>5. Angles(EncodeResponse(r))
    BY <2>4, OtherCells, TwoAngles, Zenon
  <2> QED
    BY <2>3, <2>5, Zenon
<1>5. CASE r \in [kind : {"ConfigValue"}, register : U16Values, value : Int]
  <2>1. r.kind = "ConfigValue"
    BY <1>5
  <2>2. r.kind # "Position" /\ r.kind \notin {"AzimuthPosition", "ElevationPosition"}
    BY <2>1
  <2>3. Representable(r)
    BY <2>2, RepresentableIf
  <2>4. EncodeResponse(r) = <<Cell("CR#", r.register), Cell(",#", r.value), LF>>
    BY <2>1, Zenon DEF EncodeResponse
  <2>5. Angles(EncodeResponse(r))
    BY <2>4, OtherCells, ThreeAngles, Zenon
  <2> QED
    BY <2>3, <2>5, Zenon
<1> QED
  BY <1>1, <1>2, <1>3, <1>4, <1>5, Zenon DEF AnyResponse, ResponsesOver

-----------------------------------------------------------------------------
(* The characters of an angle                                               *)

LEMMA DigitsOf ==
  ASSUME NEW a \in 0..9, NEW b \in 0..9, NEW c \in 0..9, NEW n, n = 100 * a + 10 * b + c
  PROVE  n \in ThreeDigitNumbers /\ Digit(n, 0) = c /\ Digit(n, 1) = b /\ Digit(n, 2) = a
<1>1. 10^0 = 1 /\ 10^1 = 10 /\ 10^2 = 100
  OBVIOUS
<1>2. n \in 0..999
  OBVIOUS
<1>3. n \div 1 = n
  BY <1>2
<1>4. n % 10 = c
  OBVIOUS
<1>5. n \div 10 = 10 * a + b
  OBVIOUS
<1>6. (10 * a + b) % 10 = b
  OBVIOUS
<1>7. n \div 100 = a
  OBVIOUS
<1>8. a % 10 = a
  OBVIOUS
<1> QED
  BY <1>1, <1>2, <1>3, <1>4, <1>5, <1>6, <1>7, <1>8 DEF Digit, ThreeDigitNumbers

LEMMA HasDigits ==
  ASSUME NEW n \in ThreeDigitNumbers
  PROVE  \E a, b, c \in 0..9 : n = 100 * a + 10 * b + c
<1>1. ASSUME NEW m \in 0..999 PROVE \E q \in 0..99, c \in 0..9 : m = 10 * q + c
  <2>1. m % 10 \in 0..9 /\ m \div 10 \in 0..99
    OBVIOUS
  <2>2. m = 10 * (m \div 10) + (m % 10)
    OBVIOUS
  <2> QED
    BY <2>1, <2>2, Zenon
<1>2. ASSUME NEW q \in 0..99 PROVE \E a \in 0..9, b \in 0..9 : q = 10 * a + b
  <2>1. q % 10 \in 0..9 /\ q \div 10 \in 0..9
    OBVIOUS
  <2>2. q = 10 * (q \div 10) + (q % 10)
    OBVIOUS
  <2> QED
    BY <2>1, <2>2, Zenon
<1>3. PICK q \in 0..99, c \in 0..9 : n = 10 * q + c
  BY <1>1 DEF ThreeDigitNumbers
<1>4. PICK a \in 0..9, b \in 0..9 : q = 10 * a + b
  BY <1>2
<1>5. n = 100 * a + 10 * b + c
  BY <1>3, <1>4
<1> QED
  BY <1>5, Zenon

Changed(v, place, d) == v + (d - Digit(v, place)) * 10^place

LEMMA DigitChanged ==
  ASSUME NEW v \in ThreeDigitNumbers, NEW place \in 0..2, NEW d \in 0..9
  PROVE  LET w == Changed(v, place, d) IN
         /\ w \in ThreeDigitNumbers /\ Digit(w, place) = d
         /\ \A p \in 0..2 : p # place => Digit(w, p) = Digit(v, p)
<1> DEFINE w == Changed(v, place, d)
<1>0. w = v + (d - Digit(v, place)) * 10^place
  BY DEF Changed
<1> HIDE DEF w
<1>1. PICK a \in 0..9, b \in 0..9, c \in 0..9 : v = 100 * a + 10 * b + c
  BY HasDigits, Zenon
<1>2. 10^0 = 1 /\ 10^1 = 10 /\ 10^2 = 100
  OBVIOUS
<1>3. Digit(v, 0) = c /\ Digit(v, 1) = b /\ Digit(v, 2) = a
  BY <1>1, DigitsOf
<1>4. \A p \in 0..2 : p = 0 \/ p = 1 \/ p = 2
  OBVIOUS
<1>5. /\ w \in ThreeDigitNumbers /\ Digit(w, place) = d
      /\ \A p \in 0..2 : p # place => Digit(w, p) = Digit(v, p)
  <2>5. CASE place = 0
    <3>1. w = 100 * a + 10 * b + d
      BY <1>0, <1>1, <1>2, <1>3, <2>5
    <3>2. w \in ThreeDigitNumbers /\ Digit(w, 0) = d /\ Digit(w, 1) = b /\ Digit(w, 2) = a
      BY <3>1, DigitsOf
    <3> QED
      BY <1>3, <1>4, <2>5, <3>2, Zenon
  <2>6. CASE place = 1
    <3>1. w = 100 * a + 10 * d + c
      BY <1>0, <1>1, <1>2, <1>3, <2>6
    <3>2. w \in ThreeDigitNumbers /\ Digit(w, 0) = c /\ Digit(w, 1) = d /\ Digit(w, 2) = a
      BY <3>1, DigitsOf
    <3> QED
      BY <1>3, <1>4, <2>6, <3>2, Zenon
  <2>7. CASE place = 2
    <3>1. w = 100 * d + 10 * b + c
      BY <1>0, <1>1, <1>2, <1>3, <2>7
    <3>2. w \in ThreeDigitNumbers /\ Digit(w, 0) = c /\ Digit(w, 1) = b /\ Digit(w, 2) = d
      BY <3>1, DigitsOf
    <3> QED
      BY <1>3, <1>4, <2>7, <3>2, Zenon
  <2> QED
    BY <1>4, <2>5, <2>6, <2>7
<1> QED
  BY <1>5 DEF w

LEMMA DigitIs == ASSUME NEW v \in ThreeDigitNumbers, NEW p \in 0..2 PROVE Digit(v, p) \in 0..9
<1>1. PICK a \in 0..9, b \in 0..9, c \in 0..9 : v = 100 * a + 10 * b + c
  BY HasDigits, Zenon
<1>2. Digit(v, 0) = c /\ Digit(v, 1) = b /\ Digit(v, 2) = a
  BY <1>1, DigitsOf
<1>3. p = 0 \/ p = 1 \/ p = 2
  OBVIOUS
<1> QED
  BY <1>2, <1>3, Zenon

(* The bytes that the checksum of an angle is made of: that of its label and
   those of its three digits.                                               *)
AllBytes(c) == <<Label(c)>> \o Chars(c)

LEMMA AngleBytes ==
  ASSUME NEW c, c.k \in AngleLabels, c.v \in ThreeDigitNumbers
  PROVE  /\ DOMAIN AllBytes(c) = 1..4 /\ AllBytes(c)[1] = LabelOf(c.k)
         /\ \A p \in 0..2 : AllBytes(c)[4 - p] = 48 + Digit(c.v, p)
<1> DEFINE D == Digits(c.v, 3)
           L == Label(c)
<1>1. /\ c.k \in ThreeDigits /\ c.k # "+-#" /\ c.k # "ST=#"
      /\ c.k \notin Decimal /\ c.k # ".#" /\ c.k # "*#"
  BY Zenon DEF ThreeDigits, Decimal, AngleLabels
<1>2. ~(c.v < 0) /\ Magnitude(c.v) = c.v
  BY DEF ThreeDigitNumbers, Magnitude
<1>3. Chars(c) = <<>> \o D
  <2> DEFINE sign == CASE c.v < 0                 -> <<45>>
                       [] c.v >= 0 /\ c.k = "+-#" -> <<43>>
                       [] OTHER                   -> <<>>
  <2>1. sign = <<>>
    BY <1>1, <1>2, Zenon
  <2> HIDE DEF sign
  <2>2. Chars(c) = sign \o Digits(Magnitude(c.v), 3)
    BY <1>1, Zenon DEF Chars, sign
  <2> QED
    BY <1>2, <2>1, <2>2, Zenon
<1>4. L = LabelOf(c.k)
  BY <1>1, Zenon DEF Label
<1>5. D = [i \in 1..3 |-> 48 + ((c.v \div 10^(3 - i)) % 10)]
  BY DEF Digits
<1>6. DOMAIN D = 1..3 /\ \A i \in 1..3 : D[i] = 48 + Digit(c.v, 3 - i)
  BY <1>5, Zenon DEF Digit
<1> HIDE DEF D, L
<1>7. D \in Seq({D[i] : i \in 1..3}) /\ Len(D) = 3
  <2>1. D = [i \in 1..3 |-> D[i]]
    BY <1>5, <1>6
  <2> QED
    BY <2>1
<1>8. PICK S : D \in Seq(S) /\ L \in S
  <2> DEFINE S == {D[i] : i \in 1..3} \cup {L}
  <2>1. D \in Seq(S) /\ L \in S
    BY <1>7
  <2> QED
    BY <2>1
<1> DEFINE O == <<L>>
           A == O \o (<<>> \o D)
<1>9. A = AllBytes(c)
  BY <1>3 DEF AllBytes, L
<1>10. <<>> \o D = D /\ O \in Seq(S) /\ Len(O) = 1 /\ O[1] = L
  BY <1>8
<1>11. A = O \o D
  BY <1>10, Zenon
<1> HIDE DEF O, A
<1>12. DOMAIN A = 1..4 /\ A[1] = L /\ \A i \in 1..3 : A[i + 1] = D[i]
  <2>0. D \in Seq(S) /\ Len(D) = 3 /\ O \in Seq(S) /\ Len(O) = 1 /\ O[1] = L
    BY <1>7, <1>8, <1>10, Zenon
  <2> DEFINE B == O \o D
  <2>4. /\ B \in Seq(S) /\ Len(B) = Len(O) + Len(D)
        /\ \A i \in 1..(Len(O) + Len(D)) : B[i] = IF i <= Len(O) THEN O[i] ELSE D[i - Len(O)]
    BY <2>0, ConcatProperties
  <2> HIDE DEF B
  <2>1. B \in Seq(S) /\ Len(B) = 4
    BY <2>0, <2>4
  <2>2. B[1] = L /\ \A i \in 1..3 : B[i + 1] = D[i]
    BY <2>0, <2>4
  <2>3. DOMAIN B = 1..4
    BY <2>1
  <2> QED
    BY <1>11, <2>2, <2>3, Zenon DEF B
<1>13. \A p \in 0..2 : A[4 - p] = 48 + Digit(c.v, p)
  <2> SUFFICES ASSUME NEW p \in 0..2 PROVE A[4 - p] = 48 + Digit(c.v, p)
    OBVIOUS
  <2>1. 3 - p \in 1..3 /\ (3 - p) + 1 = 4 - p /\ 3 - (3 - p) = p
    OBVIOUS
  <2>2. A[(3 - p) + 1] = D[3 - p] /\ D[3 - p] = 48 + Digit(c.v, 3 - (3 - p))
    BY <1>6, <1>12, <2>1, Zenon
  <2> QED
    BY <2>1, <2>2
<1> QED
  BY <1>4, <1>9, <1>12, <1>13

(* A wrong digit makes the xor of these bytes differ.                       *)
LEMMA AngleDiffers ==
  ASSUME NEW k \in AngleLabels, NEW v \in ThreeDigitNumbers, NEW place \in 0..2,
         NEW d \in 0..9, d # Digit(v, place)
  PROVE  LET w == Changed(v, place, d) IN
         /\ XorAll(AllBytes(Cell(k, v))) # XorAll(AllBytes(Cell(k, w)))
         /\ XorAll(AllBytes(Cell(k, v))) \in 0..255 /\ XorAll(AllBytes(Cell(k, w))) \in 0..255
<1> DEFINE w == Changed(v, place, d)
           s == AllBytes(Cell(k, v))
           t == AllBytes(Cell(k, w))
           j == 4 - place
<1>1. /\ w \in ThreeDigitNumbers /\ Digit(w, place) = d
      /\ \A p \in 0..2 : p # place => Digit(w, p) = Digit(v, p)
  BY DigitChanged, Zenon
<1> HIDE DEF w
<1>2. /\ Cell(k, v).k = k /\ Cell(k, v).v = v /\ Cell(k, w).k = k /\ Cell(k, w).v = w
  BY CellFields, Zenon
<1>3. /\ DOMAIN s = 1..4 /\ s[1] = LabelOf(k)
      /\ \A p \in 0..2 : s[4 - p] = 48 + Digit(v, p)
  BY <1>2, AngleBytes
<1>4. /\ DOMAIN t = 1..4 /\ t[1] = LabelOf(k)
      /\ \A p \in 0..2 : t[4 - p] = 48 + Digit(w, p)
  BY <1>1, <1>2, AngleBytes
<1> HIDE DEF s, t
<1>5. Digit(v, place) \in 0..9 /\ d \in 0..9
  BY DigitIs
<1>6. s[j] = 48 + Digit(v, place) /\ t[j] = 48 + d
  BY <1>1, <1>3, <1>4
<1>7. s[j] \in 0..255 /\ t[j] \in 0..255 /\ s[j] # t[j]
  BY <1>5, <1>6
<1>8. \A i \in 1..4 : i # j => t[i] = s[i]
  <2> SUFFICES ASSUME NEW i \in 1..4, i # j PROVE t[i] = s[i]
    OBVIOUS
  <2>1. CASE i = 1
    BY <1>3, <1>4, <2>1
  <2>2. CASE i # 1
    <3>1. 4 - i \in 0..2 /\ 4 - i # place /\ 4 - (4 - i) = i
      BY <2>2
    <3>2. t[4 - (4 - i)] = 48 + Digit(w, 4 - i) /\ s[4 - (4 - i)] = 48 + Digit(v, 4 - i)
      BY <1>3, <1>4, <3>1, Zenon
    <3>3. Digit(w, 4 - i) = Digit(v, 4 - i)
      BY <1>1, <3>1, Zenon
    <3> QED
      BY <3>1, <3>2, <3>3
  <2> QED
    BY <2>1, <2>2
<1>9. IsFiniteSet(DOMAIN s) /\ IsFiniteSet(DOMAIN t) /\ j \in DOMAIN s
  <2>1. IsFiniteSet(1..4)
    <3>1. 1 \in Int /\ 4 \in Int
      OBVIOUS
    <3> QED
      BY <3>1, FS_Interval, Zenon
  <2>2. j \in 1..4
    OBVIOUS
  <2> QED
    BY <1>3, <1>4, <2>1, <2>2, Zenon
<1> HIDE DEF j
<1>10. XorAll(s) # XorAll(t)
  BY <1>3, <1>4, <1>7, <1>8, <1>9, XorDiffers
<1>11. XorAll(s) \in 0..255 /\ XorAll(t) \in 0..255
  BY <1>9, XorIsByte
<1> QED
  BY <1>10, <1>11 DEF s, t, w

LEMMA BytesOfCell == ASSUME NEW c PROVE AllBytes(Cell(c.k, c.v)) = AllBytes(c)
<1>1. Cell(c.k, c.v).k = c.k /\ Cell(c.k, c.v).v = c.v
  BY CellFields, Zenon
<1> DEFINE e == Cell(c.k, c.v)
<1> HIDE DEF e
<1>2. e.k = c.k /\ e.v = c.v
  BY <1>1 DEF e
<1>3. Label(e) = Label(c)
  BY <1>2, Zenon DEF Label
<1>4. Chars(e) = Chars(c)
  BY <1>2, Zenon DEF Chars
<1> QED
  BY <1>3, <1>4, Zenon DEF AllBytes, e

(* The checksum of a text in which one cell differs.                        *)
LEMMA ChecksumDiffers ==
  ASSUME NEW S, NEW p \in Seq(S), NEW T, NEW q \in Seq(T), Len(q) = Len(p),
         NEW i \in 1..Len(p), \A j \in 1..Len(p) : j # i => q[j] = p[j],
         XorAll(AllBytes(p[i])) \in 0..255, XorAll(AllBytes(q[i])) \in 0..255,
         XorAll(AllBytes(p[i])) # XorAll(AllBytes(q[i]))
  PROVE  XorChecksum(p) # XorChecksum(q)
<1> DEFINE Sum(c) == XorAll(AllBytes(c))
           s == [j \in DOMAIN p |-> Sum(p[j])]
           t == [j \in DOMAIN q |-> Sum(q[j])]
<1>1. XorChecksum(p) = XorAll(s) /\ XorChecksum(q) = XorAll(t)
  BY Zenon DEF XorChecksum, AllBytes
<1> HIDE DEF Sum
<1>2. /\ DOMAIN p = 1..Len(p) /\ DOMAIN q = 1..Len(p) /\ Len(p) \in Nat
  OBVIOUS
<1>3. /\ DOMAIN s = 1..Len(p) /\ DOMAIN t = 1..Len(p)
      /\ \A j \in 1..Len(p) : s[j] = Sum(p[j]) /\ t[j] = Sum(q[j])
  BY <1>2
<1> HIDE DEF s, t
<1>4. IsFiniteSet(1..Len(p))
  BY <1>2, FS_Interval
<1>5. \A j \in 1..Len(p) : j # i => t[j] = s[j]
  BY <1>3
<1>6. s[i] \in 0..255 /\ t[i] \in 0..255 /\ s[i] # t[i]
  BY <1>3, Zenon DEF Sum
<1>7. XorAll(s) # XorAll(t)
  BY <1>3, <1>4, <1>5, <1>6, XorDiffers
<1> QED
  BY <1>1, <1>7

LEMMA SentSummed ==
  ASSUME CodecInv, IsResponse(msg), checked
  PROVE  \E text, t :
           /\ IsText(text) /\ NoStar(text) /\ Angles(text) /\ IsTerm(t)
           /\ Sent = text \o <<Cell("*#", XorChecksum(text)), t>>
<1>1. ~IsCommand(msg) /\ msg \in AnyResponse
  BY CommandIs, NoneIsNeither, ResponseIs DEF CodecInv, MessageInv
<1>2. PICK told : Representable(told) /\ EncodeResponse(told) = EncodeResponse(msg)
  BY <1>1, ResponseWritten
<1>3. PICK text : Coded(told, text)
  BY <1>2, ResponseCoded
<1>4. PICK t : IsTerm(t) /\ EncodeResponse(msg) = Append(text, t)
  BY <1>2, <1>3, Zenon DEF Coded
<1>5. IsText(text) /\ NoStar(text)
  BY <1>3, Zenon DEF Coded
<1>6. Plain = Append(text, t)
  BY <1>1, <1>4, Zenon DEF Plain
<1>7. Front(Plain) = text /\ Last(Plain) = t
  BY <1>5, <1>6, FrontOfFrame
<1>8. Sent = text \o <<Cell("*#", XorChecksum(text)), t>>
  BY <1>1, <1>6, <1>7, Zenon DEF Sent, SummedFrame
<1>9. Angles(text)
  <2>1. Angles(Append(text, t))
    BY <1>1, <1>4, ResponseWritten
  <2>2. PICK S : text \in Seq(S)
    BY <1>5 DEF IsText
  <2>3. /\ \A i \in 1..Len(text) : Append(text, t)[i] = text[i] /\ i \in 1..Len(Append(text, t))
    <3>1. text \in Seq(S \cup {t}) /\ t \in S \cup {t}
      BY <2>2
    <3> QED
      BY <3>1
  <2> QED
    BY <2>1, <2>3, Zenon DEF Angles
<1> QED
  BY <1>4, <1>5, <1>8, <1>9, Zenon

(* A response with a checksum and one wrong digit is refused, whatever its
   numbers, the digit and the place.                                        *)
THEOREM CodecDamageDetected == Spec => []DamageDetected
<1>1. CodecInv => DamageDetected
  <2> SUFFICES ASSUME CodecInv, Received, damaged, checked, IsResponse(msg)
               PROVE  got.tag = "Parse"
    BY DEF DamageDetected
  <2>1. PICK text, t : /\ IsText(text) /\ NoStar(text) /\ Angles(text) /\ IsTerm(t)
                       /\ Sent = text \o <<Cell("*#", XorChecksum(text)), t>>
    BY SentSummed
  <2> DEFINE n == Len(text)
             star == Cell("*#", XorChecksum(text))
             q == SubSeq(frame, 1, n)
  <2>2. PICK S : text \in Seq(S)
    BY <2>1 DEF IsText
  <2>3. DamagedFrom(Sent, frame) /\ msg # None
    BY NoneIsNeither DEF CodecInv, FrameInv
  <2>4. star.k = "*#" /\ star.v = XorChecksum(text) /\ star.v \in 0..255
    BY <2>2, CellFields, ChecksumIsByte
  <2> HIDE DEF star
  <2>5. /\ Sent \in Seq(S \cup {star, t}) /\ Len(Sent) = n + 2 /\ n \in Nat
        /\ \A j \in 1..n : Sent[j] = text[j]
        /\ Sent[n + 1] = star /\ Sent[n + 2] = t
    <3>1. /\ text \in Seq(S \cup {star, t}) /\ <<star, t>> \in Seq(S \cup {star, t})
          /\ Len(<<star, t>>) = 2 /\ <<star, t>>[1] = star /\ <<star, t>>[2] = t
      BY <2>2
    <3>2. Sent = text \o <<star, t>>
      BY <2>1 DEF star
    <3> QED
      BY <2>2, <3>1, <3>2
  <2>6. PICK i, place, d : /\ i \in DOMAIN Sent /\ place \in 0..2 /\ d \in 0..9
                           /\ DamagedAt(Sent, frame, i, place, d)
    BY <2>3, Zenon DEF DamagedFrom
  <2>7. i \in 1..Len(Sent)
    BY <2>5, <2>6
  <2>8. /\ \E T : frame \in Seq(T)
        /\ SameLabels(Sent, frame)
        /\ frame[i] = Cell(Sent[i].k, Changed(Sent[i].v, place, d))
        /\ \A j \in 1..Len(Sent) : j # i => frame[j] = Sent[j]
    BY <2>5, <2>6, <2>7, DamageIs DEF Changed
  <2>9. PICK T : frame \in Seq(T)
    BY <2>8
  <2>10. /\ Front(frame) = Append(q, frame[n + 1])
         /\ q \in Seq(T) /\ SameLabels(text, q)
         /\ \A j \in 1..n : q[j] = frame[j]
    BY <2>1, <2>2, <2>8, <2>9, FrontSplit DEF star
  <2> HIDE DEF q
  <2>11. i \in 1..n /\ Sent[i].k \in ThreeDigits /\ d # Digit(Sent[i].v, place)
    <3>1. Sent[i].k \in ThreeDigits /\ d # Digit(Sent[i].v, place)
      BY <2>6, Zenon DEF DamagedAt
    <3>2. "*#" \notin ThreeDigits /\ "cr" \notin ThreeDigits /\ "lf" \notin ThreeDigits
      BY Zenon DEF ThreeDigits
    <3>3. star.k \notin ThreeDigits /\ t.k \notin ThreeDigits
      BY <2>1, <2>4, <3>2, Zenon DEF IsTerm
    <3>4. i # n + 1 /\ i # n + 2
      BY <2>5, <3>1, <3>3, Zenon
    <3>5. i \in 1..n
      BY <2>5, <2>7, <3>4
    <3> QED
      BY <3>1, <3>5
  <2>12. frame[n + 1] = star
    BY <2>5, <2>8, <2>11
  <2> DEFINE c == text[i]
  <2>13. /\ c.k \in AngleLabels /\ c.v \in ThreeDigitNumbers /\ d # Digit(c.v, place)
         /\ q[i] = Cell(c.k, Changed(c.v, place, d))
    <3>1. Sent[i] = c /\ q[i] = frame[i]
      BY <2>5, <2>10, <2>11, Zenon
    <3>2. Angle(c)
      BY <2>1, <2>11, Zenon DEF Angles
    <3> QED
      BY <2>8, <2>11, <3>1, <3>2, Zenon DEF Angle
  <2>14. \A j \in 1..n : j # i => q[j] = text[j]
    <3>1. \A j \in 1..n : j \in 1..Len(Sent)
      BY <2>5
    <3> QED
      BY <2>5, <2>8, <2>10, <3>1, Zenon
  <2> HIDE DEF n, c
  <2>15. /\ XorAll(AllBytes(Cell(c.k, c.v))) # XorAll(AllBytes(q[i]))
         /\ XorAll(AllBytes(Cell(c.k, c.v))) \in 0..255 /\ XorAll(AllBytes(q[i])) \in 0..255
    <3>1. place \in 0..2 /\ d \in 0..9
      BY <2>6
    <3>2. LET w == Changed(c.v, place, d)
          IN  /\ XorAll(AllBytes(Cell(c.k, c.v))) # XorAll(AllBytes(Cell(c.k, w)))
              /\ XorAll(AllBytes(Cell(c.k, c.v))) \in 0..255 /\ XorAll(AllBytes(Cell(c.k, w))) \in 0..255
      BY <2>13, <3>1, AngleDiffers, ZenonT(60)
    <3> QED
      BY <2>13, <3>2, Zenon
  <2>16. /\ XorAll(AllBytes(text[i])) # XorAll(AllBytes(q[i]))
         /\ XorAll(AllBytes(text[i])) \in 0..255
    BY <2>15, BytesOfCell, Zenon DEF c
  <2>17. XorChecksum(text) # XorChecksum(q)
    <3>1. Len(q) = Len(text) /\ i \in 1..Len(text) /\ \A j \in 1..Len(text) : j # i => q[j] = text[j]
      BY <2>10, <2>11, <2>14 DEF SameLabels, n
    <3> QED
      BY <2>2, <2>10, <2>15, <2>16, <3>1, ChecksumDiffers, Zenon
  <2>18. IsText(q) /\ NoStar(q)
    BY <2>1, <2>10, TextLabels, NoStarLabels
  <2>19. Decode(Front(frame)) = ParseError("BadChecksum")
    <3>1. Decode(Append(q, star)) = ParseError("BadChecksum")
      BY <2>4, <2>17, <2>18, DecodeStarred
    <3> QED
      BY <2>10, <2>12, <3>1, Zenon
  <2> QED
    BY <2>19 DEF CodecInv, GotInv, Received, ParseError
<1> QED
  BY <1>1, CodecInvariant, PTL

-----------------------------------------------------------------------------
(* The room a frame takes                                                   *)

LEMMA LabelSizes ==
  /\ \A k : LabelBytes(k) \in 0..5
  /\ \A k \in ThreeDigits : LabelBytes(k) \in 0..4
  /\ LabelBytes("CR#") = 2 /\ LabelBytes("CW#") = 2 /\ LabelBytes(",#") = 1
  /\ LabelBytes("ST=#") = 3
<1>1. \A k : LabelBytes(k) \in {0, 1, 2, 3, 4, 5}
  BY Zenon DEF LabelBytes
<1>2. ASSUME NEW k \in ThreeDigits PROVE LabelBytes(k) \in {0, 1, 2, 3, 4}
  <2>1. k \notin {"RESET", "SA SE"}
    BY Zenon DEF ThreeDigits
  <2> QED
    BY <2>1, Zenon DEF LabelBytes
<1>3. LabelBytes("CR#") = 2 /\ LabelBytes("CW#") = 2 /\ LabelBytes(",#") = 1
  <2>1. "CR#" \in Decimal \ {",#"} /\ "CW#" \in Decimal \ {",#"} /\ ",#" \notin Decimal \ {",#"}
    BY Zenon DEF Decimal
  <2>2. LabelBytes("CR#") = 2 /\ LabelBytes("CW#") = 2
    BY <2>1, Zenon DEF LabelBytes
  <2>3. LabelBytes(",#") = 1
    BY <2>1, Zenon DEF LabelBytes
  <2> QED
    BY <2>2, <2>3, Zenon
<1>4. LabelBytes("ST=#") = 3
  <2>1. "ST=#" \notin Decimal \ {",#"}
    BY Zenon DEF Decimal
  <2> QED
    BY <2>1, Zenon DEF LabelBytes
<1>5. {0, 1, 2, 3, 4, 5} \subseteq 0..5 /\ {0, 1, 2, 3, 4} \subseteq 0..4
  OBVIOUS
<1> QED
  BY <1>1, <1>2, <1>3, <1>4, <1>5, Zenon

LEMMA DigitsAre == 
  ASSUME NEW n, NEW w \in Nat PROVE Len(Digits(n, w)) = w /\ \E S : Digits(n, w) \in Seq(S)
<1> DEFINE D == [i \in 1..w |-> 48 + ((n \div 10^(w - i)) % 10)]
           S == {D[i] : i \in 1..w}
<1>1. D = [i \in 1..w |-> D[i]]
  OBVIOUS
<1> HIDE DEF D
<1>2. D \in Seq(S) /\ Len(D) = w
  BY <1>1
<1> HIDE DEF S
<1> QED
  BY <1>2, Zenon DEF Digits, D

LEMMA WidthIs ==
  ASSUME NEW n PROVE Width(n) \in 1..10 /\ (n \in U16Values => Width(n) =< 5)
<1> DEFINE I == {w \in 1..9 : n < 10^w} \cup {10}
<1>1. I \subseteq 1..10 /\ 10 \in I
  OBVIOUS
<1>2. n \in U16Values => 5 \in I
  <2> SUFFICES ASSUME n \in U16Values PROVE n < 10^5
    OBVIOUS
  <2>1. 10^5 = 100000
    OBVIOUS
  <2>2. \A m : m = 100000 => n < m
    BY U16IsNat
  <2> QED
    BY <2>1, <2>2
<1> HIDE DEF I
<1>3. 1..10 \subseteq Nat
  OBVIOUS
<1>4. Min(I) \in I /\ \A i \in I : Min(I) =< i
  BY <1>1, <1>3, LeastOf
<1>5. Width(n) = Min(I)
  BY Zenon DEF Width, I
<1> QED
  BY <1>1, <1>2, <1>4, <1>5

(* A number takes its digits and perhaps a sign.                            *)
Signs == {<<45>>, <<43>>, <<>>}

LEMMA SignedDigits ==
  ASSUME NEW sign \in Signs, NEW n, NEW w \in Nat
  PROVE  /\ Len(sign \o Digits(n, w)) \in 0..(w + 1)
         /\ sign = <<>> => Len(sign \o Digits(n, w)) = w
<1>1. PICK S : Digits(n, w) \in Seq(S)
  BY DigitsAre
<1> DEFINE D == Digits(n, w)
           T == S \cup {45, 43}
<1>2. D \in Seq(T) /\ Len(D) = w
  BY <1>1, DigitsAre
<1> HIDE DEF D
<1>t. 45 \in T /\ 43 \in T
  OBVIOUS
<1>3. sign \in Seq(T) /\ Len(sign) \in 0..1 /\ (sign = <<>> => Len(sign) = 0)
  <2>1. \A x \in T : <<x>> \in Seq(T) /\ Len(<<x>>) = 1 /\ <<x>> # <<>>
    OBVIOUS
  <2>2. <<>> \in Seq(T) /\ Len(<<>>) = 0 /\ 0 \in 0..1 /\ 1 \in 0..1
    OBVIOUS
  <2> QED
    BY <1>t, <2>1, <2>2, Zenon DEF Signs
<1> HIDE DEF T
<1>4. Len(sign \o D) = Len(sign) + Len(D)
  BY <1>2, <1>3, ConcatProperties
<1>5. /\ Len(sign \o D) \in 0..(w + 1)
      /\ sign = <<>> => Len(sign \o D) = w
  <2> DEFINE p == Len(sign)
             q == Len(D)
             n1 == Len(sign \o D)
  <2>1. p \in 0..1 /\ q = w /\ n1 = p + q /\ (sign = <<>> => p = 0)
    BY <1>2, <1>3, <1>4, Zenon
  <2> HIDE DEF p, q, n1
  <2>2. n1 \in 0..(w + 1) /\ (p = 0 => n1 = w)
    BY <2>1
  <2> QED
    BY <2>1, <2>2, Zenon DEF n1
<1> QED
  BY <1>5 DEF D

SignOf(c) ==
  CASE c.v < 0                    -> <<45>>
    [] c.v >= 0 /\ c.k = "+-#"    -> <<43>>
    [] OTHER                      -> <<>>

LEMMA CharsTaken ==
  ASSUME NEW c
  PROVE  /\ Len(Chars(c)) \in 0..11
         /\ c.k \in ThreeDigits => Len(Chars(c)) \in 0..4
         /\ c.k \in {"CR#", "CW#"} /\ c.v \in U16Values => Len(Chars(c)) =< 5
         /\ c.k \notin ThreeDigits \cup Decimal => Len(Chars(c)) \in 0..2
<1>0. SignOf(c) \in Signs
  BY Zenon DEF SignOf, Signs
<1> DEFINE m == Magnitude(c.v)
           w == Width(Magnitude(c.v))
<1>n. \A v \in U16Values : ~(v < 0) /\ Magnitude(v) = v
  BY U16IsNat DEF Magnitude
<1>a. \A a \in 1..10 : \A b \in 0..(a + 1) : b \in 0..11
  OBVIOUS
<1>w. w \in 1..10 /\ w \in Nat /\ 3 \in Nat
  BY WidthIs
<1>1. CASE c.k \in ThreeDigits
  <2>0. c.k \notin Decimal /\ c.k # ".#" /\ c.k # "*#"
    BY <1>1, Zenon DEF ThreeDigits, Decimal
  <2>1. Chars(c) = SignOf(c) \o Digits(m, 3)
    BY <1>1, <2>0, Zenon DEF Chars, SignOf
  <2>2. Len(SignOf(c) \o Digits(m, 3)) \in 0..(3 + 1)
    BY <1>0, <1>w, SignedDigits
  <2>3. c.k \notin {"CR#", "CW#"}
    BY <1>1, Zenon DEF ThreeDigits
  <2>4. Len(Chars(c)) \in 0..4 /\ 0..4 \subseteq 0..11
    BY <2>1, <2>2
  <2> QED
    BY <1>1, <2>3, <2>4, Zenon
<1>2. CASE c.k \notin ThreeDigits /\ c.k \in Decimal
  <2>0. c.k # ".#" /\ c.k # "*#"
    BY <1>2, Zenon DEF Decimal
  <2>1. Chars(c) = SignOf(c) \o Digits(m, w)
    BY <1>2, <2>0, Zenon DEF Chars, SignOf
  <2> DEFINE D == SignOf(c) \o Digits(m, w)
  <2>2. Len(D) \in 0..(w + 1) /\ (SignOf(c) = <<>> => Len(D) = w)
    BY <1>0, <1>w, SignedDigits
  <2>3. ASSUME c.k \in {"CR#", "CW#"}, c.v \in U16Values PROVE SignOf(c) = <<>> /\ w =< 5
    <3>0. c.v \in U16Values
      BY <2>3, Zenon
    <3>1. ~(c.v < 0) /\ m = c.v
      BY <3>0, <1>n, Zenon
    <3>2. c.k # "+-#"
      BY <2>3, Zenon
    <3>3. SignOf(c) = <<>>
      BY <3>1, <3>2, Zenon DEF SignOf
    <3> QED
      BY <2>3, <3>1, <3>3, WidthIs
  <2> HIDE DEF D, w
  <2>4. Len(D) \in 0..11
    <3>1. w \in 1..10 /\ Len(D) \in 0..(w + 1)
      BY <1>w, <2>2, Zenon
    <3> QED
      BY <1>a, <3>1, Zenon
  <2>5. ASSUME c.k \in {"CR#", "CW#"}, c.v \in U16Values PROVE Len(D) =< 5
    BY <2>2, <2>3, <2>5, Zenon
  <2>6. Chars(c) = D
    BY <2>1, Zenon DEF D, w
  <2> QED
    BY <1>2, <2>4, <2>5, <2>6, Zenon
<1>3. CASE c.k \notin ThreeDigits /\ c.k \notin Decimal
  <2>1. Chars(c) \in {<<48 + c.v>>, <<HexDigit(c.v \div 16), HexDigit(c.v % 16)>>, <<>>}
    BY <1>3, Zenon DEF Chars
  <2>2. Len(Chars(c)) \in 0..2
    <3>1. ASSUME NEW a, NEW b, NEW s, s \in {<<a>>, <<b, a>>, <<>>} PROVE Len(s) \in 0..2
      BY <3>1
    <3>2. ASSUME NEW a, NEW b, NEW d, NEW s, s \in {<<a>>, <<b, d>>, <<>>} PROVE Len(s) \in 0..2
      BY <3>2
    <3> QED
      BY <2>1, <3>2
  <2>3. c.k \notin {"CR#", "CW#"}
    BY <1>3, Zenon DEF Decimal
  <2>4. 0..2 \subseteq 0..11
    OBVIOUS
  <2> QED
    BY <1>3, <2>2, <2>3, <2>4, Zenon
<1> QED
  BY <1>1, <1>2, <1>3, Zenon

(* The room a cell takes, whatever its digits become.                       *)
Room(c) == IF c.k \in ThreeDigits THEN 8 ELSE Bytes(c)

Part(c, n) == Bytes(c) \in Nat /\ Bytes(c) =< Room(c) /\ Room(c) \in 0..n

LEMMA PartIs ==
  ASSUME NEW c
  PROVE  /\ c.k = "ST=#" /\ c.v \in 1..6 => Part(c, 18)
         /\ c.k # "ST=#" => Part(c, 18)
         /\ c.k \in ThreeDigits => Part(c, 8)
         /\ c.k \in {"CR#", "CW#"} /\ c.v \in U16Values => Part(c, 7)
         /\ c.k = ",#" => Part(c, 12)
         /\ c.k \in {"O", ".#"} => Part(c, 3)
<1> DEFINE m == LabelBytes(c.k)
           n == Len(Chars(c))
<1>1. m \in 0..5 /\ n \in 0..11
  BY LabelSizes, CharsTaken, Zenon
<1>2. c.k # "ST=#" => Bytes(c) = m + n
  BY Zenon DEF Bytes
<1>3. ASSUME c.k = "ST=#", c.v \in 1..6 PROVE Part(c, 18)
  <2>1. \A i \in 1..6 : <<4, 6, 6, 9, 15, 15>>[i] \in 0..15
    OBVIOUS
  <2>2. Bytes(c) = 3 + <<4, 6, 6, 9, 15, 15>>[c.v]
    BY <1>3, LabelSizes, Zenon DEF Bytes
  <2>3. \A i \in 0..15 : 3 + i \in 0..18 /\ 3 + i \in Nat /\ 3 + i =< 3 + i
    OBVIOUS
  <2>4. c.k \notin ThreeDigits
    BY <1>3, Zenon DEF ThreeDigits
  <2>5. Room(c) = Bytes(c)
    BY <2>4, Zenon DEF Room
  <2> QED
    BY <1>3, <2>1, <2>2, <2>3, <2>5, Zenon DEF Part
<1>4. ASSUME c.k \in ThreeDigits PROVE Part(c, 8) /\ Part(c, 18)
  <2>1. c.k # "ST=#"
    BY <1>4, Zenon DEF ThreeDigits
  <2>2. m \in 0..4 /\ n \in 0..4
    BY <1>4, LabelSizes, CharsTaken, Zenon
  <2>3. Room(c) = 8
    BY <1>4, Zenon DEF Room
  <2>4. \A i, j \in 0..4 : i + j \in Nat /\ i + j =< 8
    OBVIOUS
  <2>5. 8 \in 0..8 /\ 8 \in 0..18
    OBVIOUS
  <2> QED
    BY <1>2, <2>1, <2>2, <2>3, <2>4, <2>5, Zenon DEF Part
<1>5. ASSUME c.k \notin ThreeDigits, c.k # "ST=#", NEW b \in Nat, m + n =< b PROVE Part(c, b)
  <2>1. Room(c) = m + n /\ Bytes(c) = m + n
    BY <1>2, <1>5, Zenon DEF Room
  <2>2. \A i \in 0..5 : \A j \in 0..11 : \A d \in Nat :
          i + j =< d => i + j \in Nat /\ i + j =< i + j /\ i + j \in 0..d
    OBVIOUS
  <2> QED
    BY <1>1, <1>5, <2>1, <2>2, Zenon DEF Part
<1> HIDE DEF m, n
<1>6. ASSUME c.k # "ST=#" PROVE Part(c, 18)
  <2>1. m + n =< 18 /\ 18 \in Nat
    BY <1>1
  <2> QED
    BY <1>4, <1>5, <1>6, <2>1, Zenon
<1>7. ASSUME c.k \in {"CR#", "CW#"}, c.v \in U16Values PROVE Part(c, 7)
  <2>1. m = 2 /\ n =< 5
    BY <1>7, LabelSizes, CharsTaken, Zenon DEF m, n
  <2>2. c.k \notin ThreeDigits /\ c.k # "ST=#"
    BY <1>7, Zenon DEF ThreeDigits
  <2>3. m + n =< 7 /\ 7 \in Nat
    BY <1>1, <2>1
  <2> QED
    BY <1>5, <2>2, <2>3, Zenon
<1>8. ASSUME c.k = ",#" PROVE Part(c, 12)
  <2>1. m = 1
    BY <1>8, LabelSizes, Zenon DEF m
  <2>2. c.k \notin ThreeDigits /\ c.k # "ST=#"
    BY <1>8, Zenon DEF ThreeDigits
  <2>3. m + n =< 12 /\ 12 \in Nat
    <3>1. \A i \in 0..11 : 1 + i =< 12 /\ 12 \in Nat
      OBVIOUS
    <3> QED
      BY <1>1, <2>1, <3>1, Zenon
  <2> QED
    BY <1>5, <2>2, <2>3, Zenon
<1>9. ASSUME c.k \in {"O", ".#"} PROVE Part(c, 3)
  <2>1. c.k \notin ThreeDigits \cup Decimal /\ c.k # "ST=#"
    BY <1>9, Zenon DEF ThreeDigits, Decimal
  <2>2. m = 1
    BY <1>9, <2>1, Zenon DEF m, LabelBytes
  <2>3. n \in 0..2
    BY <2>1, CharsTaken, Zenon DEF n
  <2>4. m + n =< 3 /\ 3 \in Nat
    BY <2>2, <2>3
  <2> QED
    BY <1>5, <2>1, <2>4, Zenon
<1> QED
  BY <1>3, <1>4, <1>6, <1>7, <1>8, <1>9, Zenon

(* The cells at the places I of a frame have room within 19 bytes.          *)
Fits(f, I, a, b, c) ==
  \A i \in I : \/ i = 1 /\ Part(f[i], a)
               \/ i = 2 /\ Part(f[i], b)
               \/ i = 3 /\ Part(f[i], c)

Laid(f, I) == \E a, b, c \in Nat : a + b + c =< 19 /\ Fits(f, I, a, b, c)

(* The text p of a frame is one, two or three cells.                        *)
LaidText(p) == (\E S : p \in Seq(S)) /\ Laid(p, 1..Len(p))

LEMMA LaidOne == ASSUME NEW c, Part(c, 18) PROVE LaidText(<<c>>)
<1>1. <<c>> \in Seq({c}) /\ Len(<<c>>) = 1 /\ <<c>>[1] = c
  OBVIOUS
<1>2. \A i \in 1..1 : i = 1
  OBVIOUS
<1>3. 18 \in Nat /\ 0 \in Nat /\ 18 + 0 + 0 =< 19
  OBVIOUS
<1>4. Fits(<<c>>, 1..Len(<<c>>), 18, 0, 0)
  BY <1>1, <1>2, Zenon DEF Fits
<1> QED
  BY <1>1, <1>3, <1>4, Zenon DEF Laid, LaidText

LEMMA LaidTwo ==
  ASSUME NEW c, NEW e, NEW a \in Nat, NEW b \in Nat, a + b =< 19, Part(c, a), Part(e, b)
  PROVE  LaidText(<<c, e>>)
<1>1. <<c, e>> \in Seq({c, e}) /\ Len(<<c, e>>) = 2 /\ <<c, e>>[1] = c /\ <<c, e>>[2] = e
  OBVIOUS
<1>2. \A i \in 1..2 : i = 1 \/ i = 2
  OBVIOUS
<1>3. 0 \in Nat /\ a + b + 0 =< 19
  OBVIOUS
<1>4. Fits(<<c, e>>, 1..Len(<<c, e>>), a, b, 0)
  BY <1>1, <1>2, Zenon DEF Fits
<1> QED
  BY <1>1, <1>3, <1>4, Zenon DEF Laid, LaidText

LEMMA LaidThree ==
  ASSUME NEW c, NEW e, NEW d, Part(c, 3), Part(e, 8), Part(d, 8) PROVE LaidText(<<c, e, d>>)
<1>1. /\ <<c, e, d>> \in Seq({c, e, d}) /\ Len(<<c, e, d>>) = 3
      /\ <<c, e, d>>[1] = c /\ <<c, e, d>>[2] = e /\ <<c, e, d>>[3] = d
  OBVIOUS
<1>2. \A i \in 1..3 : i = 1 \/ i = 2 \/ i = 3
  OBVIOUS
<1>3. 3 \in Nat /\ 8 \in Nat /\ 3 + 8 + 8 =< 19
  OBVIOUS
<1>4. Fits(<<c, e, d>>, 1..Len(<<c, e, d>>), 3, 8, 8)
  BY <1>1, <1>2, Zenon DEF Fits
<1> QED
  BY <1>1, <1>3, <1>4, Zenon DEF Laid, LaidText

(* The kinds of text there are.                                             *)
LEMMA TextsLaid ==
  /\ \A k, v : (k # "ST=#" \/ v \in 1..6) => LaidText(<<Cell(k, v)>>)
  /\ \A k, l \in ThreeDigits : \A v, w : LaidText(<<Cell(k, v), Cell(l, w)>>)
  /\ \A k \in ThreeDigits : \A v, w : LaidText(<<Cell(k, v), Cell(".#", w)>>)
  /\ \A k \in {"CR#", "CW#"} : \A v \in U16Values : \A w : LaidText(<<Cell(k, v), Cell(",#", w)>>)
  /\ \A k, l \in ThreeDigits : \A v, w : LaidText(<<Word("O"), Cell(k, v), Cell(l, w)>>)
<1>0. 8 \in Nat /\ 3 \in Nat /\ 7 \in Nat /\ 12 \in Nat /\ 8 + 8 =< 19 /\ 8 + 3 =< 19 /\ 7 + 12 =< 19
  OBVIOUS
<1>1. ASSUME NEW k, NEW v, k # "ST=#" \/ v \in 1..6 PROVE LaidText(<<Cell(k, v)>>)
  <2> DEFINE c == Cell(k, v)
  <2>0. c.k = k /\ c.v = v
    BY CellFields, Zenon
  <2> HIDE DEF c
  <2>1. Part(c, 18)
    BY <1>1, <2>0, PartIs, Zenon
  <2> QED
    BY <2>1, LaidOne, Zenon DEF c
<1>2. ASSUME NEW k \in ThreeDigits, NEW v PROVE Part(Cell(k, v), 8)
  <2> DEFINE c == Cell(k, v)
  <2>1. c.k \in ThreeDigits
    BY CellFields, Zenon
  <2> HIDE DEF c
  <2>2. Part(c, 8)
    BY <2>1, PartIs, Zenon
  <2> QED
    BY <2>2 DEF c
<1>3. ASSUME NEW w PROVE Part(Cell(".#", w), 3) /\ Part(Cell(",#", w), 12) /\ Part(Cell("O", w), 3)
  <2> DEFINE c == Cell(".#", w)
             d == Cell(",#", w)
             e == Cell("O", w)
  <2>1. c.k = ".#" /\ d.k = ",#" /\ e.k = "O"
    BY CellFields, Zenon
  <2> HIDE DEF c, d, e
  <2>2. Part(c, 3) /\ Part(d, 12) /\ Part(e, 3)
    BY <2>1, PartIs, Zenon
  <2> QED
    BY <2>2, Zenon DEF c, d, e
<1>4. ASSUME NEW k \in {"CR#", "CW#"}, NEW v \in U16Values PROVE Part(Cell(k, v), 7)
  <2> DEFINE c == Cell(k, v)
  <2>1. c.k \in {"CR#", "CW#"} /\ c.v \in U16Values
    BY CellFields, Zenon
  <2> HIDE DEF c
  <2>2. Part(c, 7)
    BY <2>1, PartIs, Zenon
  <2> QED
    BY <2>2, Zenon DEF c
<1>5. Part(Word("O"), 3)
  BY <1>3, Zenon DEF Word
<1>6. \A k, l \in ThreeDigits : \A v, w : LaidText(<<Cell(k, v), Cell(l, w)>>)
  BY <1>0, <1>2, LaidTwo, Zenon
<1>7. \A k \in ThreeDigits : \A v, w : LaidText(<<Cell(k, v), Cell(".#", w)>>)
  BY <1>0, <1>2, <1>3, LaidTwo, Zenon
<1>8. \A k \in {"CR#", "CW#"} : \A v \in U16Values : \A w : LaidText(<<Cell(k, v), Cell(",#", w)>>)
  BY <1>0, <1>3, <1>4, LaidTwo, Zenon
<1>9. \A k, l \in ThreeDigits : \A v, w : LaidText(<<Word("O"), Cell(k, v), Cell(l, w)>>)
  BY <1>2, <1>5, LaidThree, Zenon
<1> QED
  BY <1>1, <1>6, <1>7, <1>8, <1>9, Zenon

LEMMA PayloadLaid == ASSUME NEW cmd \in AnyCommand PROVE LaidText(Payload(cmd))
<1>0. /\ "W#" \in ThreeDigits /\ " #" \in ThreeDigits /\ "+-#" \in ThreeDigits
      /\ "A#" # "ST=#" /\ "E#" # "ST=#" /\ "CR#" # "ST=#" /\ "CW#" \in {"CR#", "CW#"}
  BY Zenon DEF ThreeDigits
<1>1. ASSUME NEW az, cmd = [op |-> "Azimuth", az |-> az] PROVE LaidText(Payload(cmd))
  <2>1. cmd.op = "Azimuth"
    BY <1>1
  <2>2. Payload(cmd) = <<Cell("A#", cmd.az)>>
    BY <2>1, Zenon DEF Payload
  <2> QED
    BY <1>0, <2>2, TextsLaid, Zenon
<1>2. ASSUME NEW el, cmd = [op |-> "Elevation", el |-> el] PROVE LaidText(Payload(cmd))
  <2>1. cmd.op = "Elevation"
    BY <1>2
  <2>2. Payload(cmd) = <<Cell("E#", cmd.el)>>
    BY <2>1, Zenon DEF Payload
  <2> QED
    BY <1>0, <2>2, TextsLaid, Zenon
<1>3. ASSUME NEW az, NEW el, cmd = [op |-> "AzimuthElevation", az |-> az, el |-> el]
      PROVE  LaidText(Payload(cmd))
  <2>1. cmd.op = "AzimuthElevation"
    BY <1>3
  <2>2. Payload(cmd) = <<Cell("W#", cmd.az), Cell(" #", cmd.el)>>
    BY <2>1, Zenon DEF Payload
  <2> QED
    BY <1>0, <2>2, TextsLaid, Zenon
<1>4. ASSUME NEW az, NEW el, cmd = [op |-> "Offset", az |-> az, el |-> el]
      PROVE  LaidText(Payload(cmd))
  <2>1. cmd.op = "Offset"
    BY <1>4
  <2>2. Payload(cmd) = <<Word("O"), Cell("+-#", Keep3(cmd.az)), Cell("+-#", Keep3(cmd.el))>>
    BY <2>1, Zenon DEF Payload
  <2> QED
    BY <1>0, <2>2, TextsLaid, Zenon
<1>5. ASSUME NEW op \in {"VelocityLeft", "VelocityRight", "VelocityUp", "VelocityDown"},
             NEW speed, cmd = [op |-> op, speed |-> speed]
      PROVE  LaidText(Payload(cmd))
  <2>1. cmd.op \in {"VelocityLeft", "VelocityRight", "VelocityUp", "VelocityDown"}
    BY <1>5
  <2>2. \E k \in {"VL#", "VR#", "VU#", "VD#"} : Payload(cmd) = <<Cell(k, cmd.speed)>>
    BY <2>1, Zenon DEF Payload
  <2>3. "ST=#" \notin {"VL#", "VR#", "VU#", "VD#"}
    BY Zenon
  <2> QED
    BY <2>2, <2>3, TextsLaid, Zenon
<1>6. ASSUME NEW register, cmd = [op |-> "ReadConfig", register |-> register]
      PROVE  LaidText(Payload(cmd))
  <2>1. cmd.op = "ReadConfig"
    BY <1>6
  <2>2. Payload(cmd) = <<Cell("CR#", cmd.register)>>
    BY <2>1, Zenon DEF Payload
  <2> QED
    BY <1>0, <2>2, TextsLaid, Zenon
<1>7. ASSUME NEW register \in U16Values, NEW value,
             cmd = [op |-> "WriteConfig", register |-> register, value |-> value]
      PROVE  LaidText(Payload(cmd))
  <2>1. cmd.op = "WriteConfig" /\ cmd.register = register
    BY <1>7
  <2>2. Payload(cmd) = <<Cell("CW#", register), Cell(",#", cmd.value)>>
    BY <2>1, Zenon DEF Payload
  <2> QED
    BY <1>0, <2>2, TextsLaid, Zenon
<1>8. ASSUME NEW op \in Words \cup {"QueryStatus"}, cmd = [op |-> op]
      PROVE  LaidText(Payload(cmd))
  <2>1. cmd.op \in Words \cup {"QueryStatus"}
    BY <1>8
  <2>2. \E k \in {"C", "AZ", "EL", "GS", "GE", "S", "?", "RESET", "PARK"} : Payload(cmd) = <<Cell(k, 0)>>
    BY <2>1, Zenon DEF Payload, Words, Word
  <2>3. "ST=#" \notin {"C", "AZ", "EL", "GS", "GE", "S", "?", "RESET", "PARK"}
    BY Zenon
  <2> QED
    BY <2>2, <2>3, TextsLaid, Zenon
<1> QED
  BY <1>1, <1>2, <1>3, <1>4, <1>5, <1>6, <1>7, <1>8, CommandForms, Zenon

LEMMA ResponseLaid ==
  ASSUME NEW r \in AnyResponse
  PROVE  \E p, t : LaidText(p) /\ IsTerm(t) /\ EncodeResponse(r) = Append(p, t)
<1>0. /\ "AZ=#" \in ThreeDigits /\ " EL=#" \in ThreeDigits
      /\ "AZ#" \in ThreeDigits /\ "EL#" \in ThreeDigits
      /\ "GS#" # "ST=#" /\ "GE#" # "ST=#" /\ "+" # "ST=#" /\ "?" # "ST=#" /\ "CR#" \in {"CR#", "CW#"}
  BY Zenon DEF ThreeDigits
<1>a. ASSUME NEW k, NEW v, (k # "ST=#" \/ v \in 1..6), NEW t \in {CR, LF},
             EncodeResponse(r) = <<Cell(k, v), t>>
      PROVE  \E p, u : LaidText(p) /\ IsTerm(u) /\ EncodeResponse(r) = Append(p, u)
  BY <1>a, TextsLaid, WordTerms, AppendToOne, Zenon
<1>b. ASSUME NEW c, NEW d, LaidText(<<c, d>>), NEW t \in {CR, LF},
             EncodeResponse(r) = <<c, d, t>>
      PROVE  \E p, u : LaidText(p) /\ IsTerm(u) /\ EncodeResponse(r) = Append(p, u)
  BY <1>b, WordTerms, AppendToTwo, Zenon
<1>1. CASE r \in [kind : {"Ack", "Error"}]
  <2>1. r.kind = "Ack" \/ r.kind = "Error"
    BY <1>1
  <2>2. EncodeResponse(r) = <<Cell("+", 0), CR>> \/ EncodeResponse(r) = <<Cell("?", 0), CR>>
    BY <2>1, Zenon DEF EncodeResponse, Word
  <2> QED
    BY <1>0, <1>a, <2>2, Zenon
<1>2. CASE r \in [kind : {"Position"}, az : U16Values, el : U16Values]
  <2>1. r.kind = "Position"
    BY <1>2
  <2>2. EncodeResponse(r) = <<Cell("AZ=#", Keep3(r.az)), Cell(" EL=#", Keep3(r.el)), CR>>
    BY <2>1, Zenon DEF EncodeResponse
  <2> QED
    BY <1>0, <1>b, <2>2, TextsLaid, Zenon
<1>3. CASE r \in [kind : {"AzimuthPosition", "ElevationPosition", "StatusRegister",
                          "ErrorRegister"}, deg : U16Values]
  <2>1. r.kind \in {"AzimuthPosition", "ElevationPosition", "StatusRegister", "ErrorRegister"}
    BY <1>3
  <2>2. \/ EncodeResponse(r) = <<Cell("AZ#", Keep3(r.deg)), Cell(".#", 0), LF>>
        \/ EncodeResponse(r) = <<Cell("EL#", Keep3(r.deg)), Cell(".#", 0), LF>>
        \/ EncodeResponse(r) = <<Cell("GS#", r.deg), LF>>
        \/ EncodeResponse(r) = <<Cell("GE#", r.deg), LF>>
    BY <2>1, Zenon DEF EncodeResponse
  <2> QED
    BY <1>0, <1>a, <1>b, <2>2, TextsLaid, Zenon
<1>4. CASE r \in [kind : {"Status"}, deg : 1..6]
  <2>1. r.kind = "Status" /\ r.deg \in 1..6
    BY <1>4
  <2>2. EncodeResponse(r) = <<Cell("ST=#", r.deg), CR>>
    BY <2>1, Zenon DEF EncodeResponse
  <2> QED
    BY <1>a, <2>1, <2>2, Zenon
<1>5. CASE r \in [kind : {"ConfigValue"}, register : U16Values, value : Int]
  <2>1. r.kind = "ConfigValue" /\ r.register \in U16Values
    BY <1>5
  <2>2. EncodeResponse(r) = <<Cell("CR#", r.register), Cell(",#", r.value), LF>>
    BY <2>1, Zenon DEF EncodeResponse
  <2> QED
    BY <1>0, <1>b, <2>1, <2>2, TextsLaid, Zenon
<1> QED
  BY <1>1, <1>2, <1>3, <1>4, <1>5, Zenon DEF AnyResponse, ResponsesOver

(* A frame is laid out like its text.                                       *)
LaidFrame(f) == (\E S : f \in Seq(S)) /\ Laid(f, Text(f))

LEMMA LikeItsText ==
  ASSUME NEW p, NEW f, Laid(p, 1..Len(p)), \A i \in Text(f) : i \in 1..Len(p) /\ f[i] = p[i]
  PROVE  Laid(f, Text(f))
<1>1. ASSUME NEW a, NEW b, NEW c, Fits(p, 1..Len(p), a, b, c) PROVE Fits(f, Text(f), a, b, c)
  BY <1>1, Zenon DEF Fits
<1> QED
  BY <1>1, Zenon DEF Laid

LEMMA FramesLaid ==
  ASSUME NEW p, LaidText(p), NEW t, IsTerm(t), NEW x
  PROVE  /\ LaidFrame(Append(p, t)) /\ Front(Append(p, t)) = p /\ Last(Append(p, t)) = t
         /\ LaidFrame(p \o <<Cell("*#", x), t>>)
<1>1. PICK S : p \in Seq(S)
  BY Zenon DEF LaidText
<1> DEFINE star == Cell("*#", x)
           T == S \cup {star, t}
           tail == <<star, t>>
           f == Append(p, t)
           g == p \o tail
<1>2. p \in Seq(T) /\ t \in T /\ tail \in Seq(T) /\ Len(tail) = 2 /\ tail[1] = star /\ tail[2] = t
  BY <1>1
<1>3. star.k = "*#"
  BY CellFields, Zenon
<1> HIDE DEF T, star, tail
<1>4. /\ f \in Seq(T) /\ Len(f) = Len(p) + 1 /\ DOMAIN f = 1..(Len(p) + 1) /\ f[Len(p) + 1] = t
      /\ \A i \in 1..Len(p) : f[i] = p[i]
      /\ Front(f) = p /\ Last(f) = t
  BY <1>2 DEF Front, Last
<1>5. /\ g \in Seq(T) /\ Len(g) = Len(p) + 2 /\ DOMAIN g = 1..(Len(p) + 2)
      /\ g[Len(p) + 1] = star /\ g[Len(p) + 2] = t
      /\ \A i \in 1..Len(p) : g[i] = p[i]
  <2>1. /\ g \in Seq(T) /\ Len(g) = Len(p) + Len(tail)
        /\ \A i \in 1..(Len(p) + Len(tail)) : g[i] = IF i <= Len(p) THEN p[i] ELSE tail[i - Len(p)]
    BY <1>2, ConcatProperties
  <2>2. Len(p) \in Nat
    BY <1>2
  <2> HIDE DEF g
  <2> QED
    BY <1>2, <2>1, <2>2
<1> HIDE DEF f, g
<1>6. Len(p) \in Nat
  BY <1>2
<1>7. /\ \A i \in 1..(Len(p) + 1) : i # Len(p) + 1 => i \in 1..Len(p)
      /\ \A i \in 1..(Len(p) + 2) : i # Len(p) + 1 /\ i # Len(p) + 2 => i \in 1..Len(p)
  BY <1>6
<1>8. \A i \in Text(f) : i \in 1..Len(p) /\ f[i] = p[i]
  BY <1>4, <1>7, Zenon DEF Text
<1>9. \A i \in Text(g) : i \in 1..Len(p) /\ g[i] = p[i]
  BY <1>3, <1>5, <1>7, ZenonT(60) DEF Text
<1>10. LaidFrame(f) /\ LaidFrame(g)
  BY <1>4, <1>5, <1>8, <1>9, LikeItsText, Zenon DEF LaidFrame, LaidText
<1> QED
  BY <1>4, <1>10, Zenon DEF f, g, tail, star

LEMMA SentLaid == ASSUME CodecInv, msg # None PROVE LaidFrame(Sent)
<1>1. CASE IsCommand(msg)
  <2>1. LaidText(Payload(msg))
    BY <1>1, SentCommand, PayloadLaid
  <2>2. \/ Sent = Payload(msg) \o <<Cell("*#", XorChecksum(Payload(msg))), CR>>
        \/ Sent = Append(Payload(msg), CR)
    BY <1>1, SentCommand
  <2> QED
    BY <2>1, <2>2, FramesLaid, WordTerms, Zenon
<1>2. CASE ~IsCommand(msg)
  <2>1. msg \in AnyResponse
    BY <1>2, CommandIs DEF CodecInv, MessageInv
  <2>2. PICK p, t : LaidText(p) /\ IsTerm(t) /\ EncodeResponse(msg) = Append(p, t)
    BY <2>1, ResponseLaid
  <2>3. Plain = Append(p, t)
    BY <1>2, <2>2, Zenon DEF Plain
  <2>4. Front(Plain) = p /\ Last(Plain) = t
    BY <2>2, <2>3, FramesLaid, Zenon
  <2>5. Sent = p \o <<Cell("*#", XorChecksum(p)), t>> \/ Sent = Append(p, t)
    BY <1>2, <2>3, <2>4, Zenon DEF Sent, SummedFrame
  <2> QED
    BY <2>2, <2>5, FramesLaid, Zenon
<1> QED
  BY <1>1, <1>2

(* A changed digit takes no more room.                                      *)
LEMMA DamagedLaid ==
  ASSUME NEW f, NEW g, LaidFrame(f), DamagedFrom(f, g) PROVE LaidFrame(g)
<1>1. PICK S : f \in Seq(S)
  BY Zenon DEF LaidFrame
<1>2. PICK i \in DOMAIN f, place \in 0..2, d \in 0..9 : DamagedAt(f, g, i, place, d)
  BY Zenon DEF DamagedFrom
<1>3. i \in 1..Len(f) /\ DOMAIN f = 1..Len(f)
  BY <1>1
<1>4. /\ \E T : g \in Seq(T)
      /\ SameLabels(f, g)
      /\ \A j \in 1..Len(f) : j # i => g[j] = f[j]
  BY <1>1, <1>2, <1>3, DamageIs
<1>5. DOMAIN g = 1..Len(f) /\ \A j \in 1..Len(f) : g[j].k = f[j].k
  BY <1>4 DEF SameLabels
<1>6. Text(g) \subseteq Text(f) /\ Text(f) \subseteq 1..Len(f)
  BY <1>3, <1>5, Zenon DEF Text, IsTerm
<1>7. f[i].k \in ThreeDigits
  BY <1>2, Zenon DEF DamagedAt
<1>8. ASSUME NEW j \in 1..Len(f), NEW n, Part(f[j], n) PROVE Part(g[j], n)
  <2>1. CASE j # i
    BY <1>4, <1>8, <2>1, Zenon
  <2>2. CASE j = i
    <3>1. Room(f[i]) = 8 /\ Room(g[i]) = 8
      BY <1>3, <1>5, <1>7, Zenon DEF Room
    <3>2. Part(g[i], 8)
      BY <1>3, <1>5, <1>7, PartIs, Zenon
    <3> QED
      BY <1>8, <2>2, <3>1, <3>2, Zenon DEF Part
  <2> QED
    BY <2>1, <2>2
<1>9. ASSUME NEW a, NEW b, NEW c, Fits(f, Text(f), a, b, c) PROVE Fits(g, Text(g), a, b, c)
  BY <1>6, <1>8, <1>9, Zenon DEF Fits
<1> QED
  BY <1>4, <1>9, Zenon DEF LaidFrame, Laid

(* So much room is enough.                                                  *)
LEMMA RoomTaken == ASSUME NEW f, LaidFrame(f) PROVE Cardinality(TextBytes(f)) <= 19
<1>1. PICK a, b, c \in Nat : a + b + c =< 19 /\ Fits(f, Text(f), a, b, c)
  BY Zenon DEF LaidFrame, Laid
<1> DEFINE A == {1} \X (1..a)
           B == {2} \X (1..b)
           C == {3} \X (1..c)
<1>2. ASSUME NEW x, NEW n \in Nat
      PROVE  IsFiniteSet({x} \X (1..n)) /\ Cardinality({x} \X (1..n)) = n
  <2>1. IsFiniteSet({x}) /\ Cardinality({x}) = 1
    BY FS_Singleton
  <2>2. IsFiniteSet(1..n) /\ Cardinality(1..n) = n
    BY FS_Interval
  <2>3. 1 * n = n
    OBVIOUS
  <2> QED
    BY <2>1, <2>2, <2>3, FS_Product
<1>3. /\ IsFiniteSet(A) /\ IsFiniteSet(B) /\ IsFiniteSet(C)
      /\ Cardinality(A) = a /\ Cardinality(B) = b /\ Cardinality(C) = c
  BY <1>2
<1>4. ASSUME NEW i \in Text(f) PROVE {i} \X (1..Bytes(f[i])) \subseteq A \cup B \cup C
  <2>1. ASSUME NEW n \in Nat, Part(f[i], n) PROVE 1..Bytes(f[i]) \subseteq 1..n
    <3>1. Bytes(f[i]) \in Nat /\ Bytes(f[i]) =< n
      BY <2>1 DEF Part
    <3> QED
      BY <3>1
  <2>2. \/ i = 1 /\ Part(f[i], a)
        \/ i = 2 /\ Part(f[i], b)
        \/ i = 3 /\ Part(f[i], c)
    BY <1>1, Zenon DEF Fits
  <2>3. \/ i = 1 /\ 1..Bytes(f[i]) \subseteq 1..a
        \/ i = 2 /\ 1..Bytes(f[i]) \subseteq 1..b
        \/ i = 3 /\ 1..Bytes(f[i]) \subseteq 1..c
    BY <2>1, <2>2, Zenon
  <2> QED
    BY <2>3
<1> HIDE DEF A, B, C
<1>5. TextBytes(f) \subseteq A \cup B \cup C
  BY <1>4 DEF TextBytes
<1>6. IsFiniteSet(A \cup B) /\ Cardinality(A \cup B) =< a + b
  <2>1. IsFiniteSet(A \cup B) /\ Cardinality(A \cup B) = a + b - Cardinality(A \cap B)
    BY <1>3, FS_Union
  <2>2. Cardinality(A \cap B) \in Nat
    BY <1>3, FS_Subset, FS_CardinalityType
  <2> QED
    BY <2>1, <2>2
<1>7. IsFiniteSet(A \cup B \cup C) /\ Cardinality(A \cup B \cup C) =< a + b + c
  <2>1. /\ IsFiniteSet((A \cup B) \cup C)
        /\ Cardinality((A \cup B) \cup C) = Cardinality(A \cup B) + c - Cardinality((A \cup B) \cap C)
    BY <1>3, <1>6, FS_Union
  <2>2. Cardinality((A \cup B) \cap C) \in Nat /\ Cardinality(A \cup B) \in Nat
    BY <1>3, <1>6, FS_Subset, FS_CardinalityType
  <2> QED
    BY <1>6, <2>1, <2>2
<1>8. Cardinality(TextBytes(f)) =< Cardinality(A \cup B \cup C) /\ IsFiniteSet(TextBytes(f))
  BY <1>5, <1>7, FS_Subset
<1>9. Cardinality(TextBytes(f)) \in Nat /\ Cardinality(A \cup B \cup C) \in Nat
  BY <1>7, <1>8, FS_CardinalityType
<1> QED
  BY <1>1, <1>7, <1>8, <1>9

(* No frame, damaged or not, is longer than the 19 bytes for which the fixed
   arrays of the encoders and the accumulators leave headroom.              *)
THEOREM CodecFramesFit == Spec => []FramesFit
<1>1. CodecInv => FramesFit
  <2> SUFFICES ASSUME CodecInv PROVE FramesFit
    OBVIOUS
  <2>1. CASE msg = None
    <3>1. frame = <<>>
      BY <2>1, CommandIs, ResponseIs, NoneIsNeither DEF CodecInv, MessageInv
    <3>2. Text(frame) = {}
      BY <3>1 DEF Text
    <3>3. TextBytes(frame) = {}
      BY <3>2 DEF TextBytes
    <3>4. Cardinality({}) = 0 /\ 0 <= 19
      BY FS_EmptySet
    <3> QED
      BY <3>3, <3>4, Zenon DEF FramesFit
  <2>2. CASE msg # None
    <3>1. frame = Sent \/ DamagedFrom(Sent, frame)
      BY <2>2 DEF CodecInv, FrameInv
    <3>2. LaidFrame(frame)
      BY <2>2, <3>1, SentLaid, DamagedLaid, Zenon
    <3> QED
      BY <3>2, RoomTaken, Zenon DEF FramesFit
  <2> QED
    BY <2>1, <2>2
<1> QED
  BY <1>1, CodecInvariant, PTL
=============================================================================
