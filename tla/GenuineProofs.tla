--------------------------- MODULE GenuineProofs ---------------------------
(* What an answer says.  On a line that has lost nothing, whatever send returns
   as an answer is a reply the rotator made, whole and unmixed, and tcp_poll
   prints only replies to the query it has just sent.  On any line at all, the
   position serial_home ends with is one the rotator told; and after "Stopped."
   it prints "Homing command accepted." only if the rotator accepted it.     *)
EXTENDS ClientProofs, LinkProofs

-----------------------------------------------------------------------------
(* A stream of whole replies                                                *)

(* The n cells in front of place i are the text of one reply, which says r.  *)
ReplyBefore(s, i, n, r) ==
  /\ n < i
  /\ \A j \in (i - n)..(i - 1) : ~IsTerm(s[j])
  /\ i = n + 1 \/ IsTerm(s[i - n - 1])
  /\ Decode(SubSeq(s, i - n, i - 1)) = Ok(r)

(* Each terminator of s ends a reply, and s is nothing but replies.         *)
WholeReplies(s, R) ==
  /\ \E S : s \in Seq(S)
  /\ s # <<>> => IsTerm(s[Len(s)])
  /\ \A i \in 1..Len(s) : IsTerm(s[i]) =>
       /\ s[i].v \in DOMAIN R
       /\ \E n \in 1..3 : ReplyBefore(s, i, n, R[s[i].v].resp)

(* What was said is not forgotten.                                          *)
LEMMA MoreReplies ==
  ASSUME NEW s, NEW R, NEW Q, WholeReplies(s, R),
         DOMAIN R \subseteq DOMAIN Q, \A i \in DOMAIN R : Q[i] = R[i]
  PROVE  WholeReplies(s, Q)
<1>1. ASSUME NEW i \in 1..Len(s), IsTerm(s[i])
      PROVE  s[i].v \in DOMAIN Q /\ \E n \in 1..3 : ReplyBefore(s, i, n, Q[s[i].v].resp)
  <2>1. s[i].v \in DOMAIN R /\ \E n \in 1..3 : ReplyBefore(s, i, n, R[s[i].v].resp)
    BY <1>1, Zenon DEF WholeReplies
  <2>2. s[i].v \in DOMAIN Q /\ Q[s[i].v] = R[s[i].v]
    BY <2>1, Zenon
  <2> QED
    BY <2>1, <2>2, Zenon
<1> QED
  BY <1>1, Zenon DEF WholeReplies

(* The cells from a to b of two streams agree.                              *)
LEMMA SamePart ==
  ASSUME NEW S, NEW s \in Seq(S), NEW T, NEW t \in Seq(T), NEW k \in Int,
         NEW a \in Nat \ {0}, NEW b \in Nat, b <= Len(s), a + k > 0, b + k <= Len(t), b + k >= 0,
         \A i \in a..b : t[i + k] = s[i]
  PROVE  SubSeq(t, a + k, b + k) = SubSeq(s, a, b)
<1> DEFINE p == SubSeq(t, a + k, b + k)
           q == SubSeq(s, a, b)
           n == IF a <= b THEN b - a + 1 ELSE 0
<1>1. n \in Nat
  OBVIOUS
<1>2. q \in Seq(S) /\ Len(q) = n /\ \A i \in 1..n : q[i] = s[a + i - 1]
  OBVIOUS
<1>3. p \in Seq(T) /\ Len(p) = n /\ \A i \in 1..n : p[i] = t[a + k + i - 1]
  OBVIOUS
<1>4. ASSUME NEW i \in 1..n PROVE p[i] = q[i]
  <2>1. a + i - 1 \in a..b /\ (a + i - 1) + k = a + k + i - 1
    OBVIOUS
  <2>2. t[(a + i - 1) + k] = s[a + i - 1]
    BY <2>1
  <2> QED
    BY <1>2, <1>3, <2>1, <2>2
<1> HIDE DEF p, q, n
<1>5. p = q
  BY <1>2, <1>3, <1>4, SeqEqual
<1> QED
  BY <1>5 DEF p, q

(* The first reply is decoded as what was answered.                         *)
LEMMA FirstReply ==
  ASSUME NEW s, NEW R, WholeReplies(s, R), NEW k \in 1..Len(s), IsTerm(s[k]),
         \A j \in 1..(k - 1) : ~IsTerm(s[j])
  PROVE  /\ s[k].v \in DOMAIN R /\ k <= 4
         /\ Decode(SubSeq(s, 1, k - 1)) = Ok(R[s[k].v].resp)
<1>1. PICK n \in 1..3 : ReplyBefore(s, k, n, R[s[k].v].resp)
  BY DEF WholeReplies
<1>2. n < k /\ (k = n + 1 \/ IsTerm(s[k - n - 1]))
  BY <1>1 DEF ReplyBefore
<1>3. k \in Nat
  BY DEF WholeReplies
<1>4. k = n + 1
  <2> SUFFICES ASSUME k # n + 1 PROVE FALSE
    OBVIOUS
  <2>1. k - n - 1 \in 1..(k - 1)
    BY <1>2, <1>3
  <2> QED
    BY <1>2, <2>1
<1>5. k <= 4 /\ k - n = 1
  BY <1>3, <1>4
<1>6. s[k].v \in DOMAIN R
  BY DEF WholeReplies
<1> QED
  BY <1>1, <1>5, <1>6 DEF ReplyBefore

(* A stream is whole behind each of its terminators.                        *)
LEMMA RepliesDropped ==
  ASSUME NEW s, NEW R, WholeReplies(s, R), NEW k \in 1..Len(s), IsTerm(s[k]),
         NEW T, NEW d \in Seq(T), Len(d) = Len(s) - k, \A i \in 1..Len(d) : d[i] = s[i + k]
  PROVE  WholeReplies(d, R)
<1>1. PICK S : s \in Seq(S)
  BY DEF WholeReplies
<1>2. k \in Nat /\ Len(s) \in Nat /\ Len(d) \in Nat
  BY <1>1
<1>3. ASSUME d # <<>> PROVE IsTerm(d[Len(d)])
  <2>1. Len(d) \in 1..Len(d) /\ Len(d) + k = Len(s) /\ s # <<>>
    BY <1>2, <1>3
  <2> QED
    BY <2>1 DEF WholeReplies
<1>4. ASSUME NEW i \in 1..Len(d), IsTerm(d[i])
      PROVE  /\ d[i].v \in DOMAIN R
             /\ \E n \in 1..3 : ReplyBefore(d, i, n, R[d[i].v].resp)
  <2>1. i + k \in 1..Len(s) /\ d[i] = s[i + k]
    BY <1>2
  <2>2. PICK n \in 1..3 : ReplyBefore(s, i + k, n, R[d[i].v].resp)
    BY <1>4, <2>1 DEF WholeReplies
  <2>3. /\ n < i + k
        /\ \A j \in (i + k - n)..(i + k - 1) : ~IsTerm(s[j])
        /\ i + k = n + 1 \/ IsTerm(s[i + k - n - 1])
        /\ Decode(SubSeq(s, i + k - n, i + k - 1)) = Ok(R[d[i].v].resp)
    BY <2>2 DEF ReplyBefore
  <2>4. n < i
    <3> SUFFICES ASSUME ~(n < i) PROVE FALSE
      OBVIOUS
    <3>1. k \in (i + k - n)..(i + k - 1)
      BY <1>2
    <3> QED
      BY <2>3, <3>1
  <2>5. \A j \in (i - n)..(i - 1) : j \in 1..Len(d) /\ j + k \in (i + k - n)..(i + k - 1) /\ d[j] = s[j + k]
    BY <1>2, <2>4
  <2>6. \A j \in (i - n)..(i - 1) : ~IsTerm(d[j])
    BY <2>3, <2>5
  <2>7. i = n + 1 \/ IsTerm(d[i - n - 1])
    <3> SUFFICES ASSUME i # n + 1 PROVE IsTerm(d[i - n - 1])
      OBVIOUS
    <3>1. i - n - 1 \in 1..Len(d) /\ (i - n - 1) + k = i + k - n - 1
      BY <1>2, <2>4
    <3>2. i + k # n + 1
      BY <1>2, <2>4
    <3> QED
      BY <2>3, <3>1, <3>2
  <2>8. SubSeq(s, (i - n) + k, (i - 1) + k) = SubSeq(d, i - n, i - 1)
    <3>1. /\ i - n \in Nat \ {0} /\ i - 1 \in Nat /\ i - 1 <= Len(d) /\ (i - n) + k > 0
          /\ (i - 1) + k <= Len(s) /\ (i - 1) + k >= 0 /\ k \in Int
      BY <1>2, <2>4
    <3>2. \A j \in (i - n)..(i - 1) : s[j + k] = d[j]
      BY <2>5
    <3> QED
      BY <1>1, <3>1, <3>2, SamePart, SMTT(60)
  <2>9. (i - n) + k = i + k - n /\ (i - 1) + k = i + k - 1
    BY <1>2
  <2>10. Decode(SubSeq(d, i - n, i - 1)) = Ok(R[d[i].v].resp)
    BY <2>3, <2>8, <2>9
  <2>11. ReplyBefore(d, i, n, R[d[i].v].resp)
    BY <2>4, <2>6, <2>7, <2>10 DEF ReplyBefore
  <2>12. d[i].v \in DOMAIN R
    BY <1>4, <2>1 DEF WholeReplies
  <2> QED
    BY <2>11, <2>12
<1> QED
  BY <1>3, <1>4, Zenon DEF WholeReplies

(* A reply is appended.                                                     *)
LEMMA ReplyAppended ==
  ASSUME NEW s, NEW R, WholeReplies(s, R), NEW text, IsText(text), Len(text) \in 1..3,
         NEW t, IsTerm(t), t.v \in DOMAIN R, Decode(text) = Ok(R[t.v].resp)
  PROVE  WholeReplies(s \o Append(text, t), R)
<1>1. PICK S : s \in Seq(S)
  BY DEF WholeReplies
<1>2. PICK T : text \in Seq(T)
  BY DEF IsText
<1> DEFINE U == S \cup T \cup {t}
           m == Len(s)
           n == Len(text)
           f == Append(text, t)
           d == s \o f
<1>3. s \in Seq(U) /\ text \in Seq(U) /\ t \in U /\ m \in Nat /\ n \in 1..3 /\ n \in Nat
  BY <1>1, <1>2
<1> HIDE DEF U
<1>4. /\ f \in Seq(U) /\ Len(f) = n + 1 /\ f[n + 1] = t /\ \A i \in 1..n : f[i] = text[i]
  BY <1>3
<1> HIDE DEF f
<1>5. /\ d \in Seq(U) /\ Len(d) = m + (n + 1)
      /\ \A i \in 1..(m + (n + 1)) : d[i] = IF i <= m THEN s[i] ELSE f[i - m]
  <2>1. /\ d \in Seq(U) /\ Len(d) = Len(s) + Len(f)
        /\ \A i \in 1..Len(s) + Len(f) : d[i] = IF i <= Len(s) THEN s[i] ELSE f[i - Len(s)]
    BY <1>3, <1>4, ConcatProperties, Zenon
  <2> QED
    BY <1>4, <2>1, Zenon
<1> HIDE DEF d, n, m
<1>6. /\ \A i \in 1..m : d[i] = s[i]
      /\ \A i \in 1..n : d[i + m] = text[i]
      /\ d[m + n + 1] = t
  <2>1. ASSUME NEW i \in 1..m PROVE d[i] = s[i]
    BY <1>3, <1>5
  <2>2. ASSUME NEW i \in 1..n PROVE d[i + m] = text[i]
    <3>1. i + m \in 1..(m + (n + 1)) /\ ~(i + m <= m) /\ (i + m) - m = i
      BY <1>3
    <3> QED
      BY <1>4, <1>5, <3>1
  <2>3. d[m + n + 1] = t
    <3>1. m + n + 1 \in 1..(m + (n + 1)) /\ ~(m + n + 1 <= m) /\ (m + n + 1) - m = n + 1
      BY <1>3
    <3> QED
      BY <1>4, <1>5, <3>1
  <2> QED
    BY <2>1, <2>2, <2>3
<1>7. Len(d) = m + n + 1 /\ d # <<>>
  BY <1>3, <1>5
<1>8. \A i \in 1..n : ~IsTerm(text[i])
  BY DEF IsText, n
<1>9. ASSUME NEW i \in 1..Len(d), IsTerm(d[i])
      PROVE  d[i].v \in DOMAIN R /\ \E q \in 1..3 : ReplyBefore(d, i, q, R[d[i].v].resp)
  <2>1. i \in 1..m \/ (i - m \in 1..n /\ (i - m) + m = i) \/ i = m + n + 1
    BY <1>3, <1>7
  <2>2. CASE i \in 1..m
    <3>1. d[i] = s[i] /\ i \in 1..Len(s)
      BY <1>6, <2>2 DEF m
    <3>2. d[i].v \in DOMAIN R
      BY <1>9, <3>1 DEF WholeReplies
    <3>3. PICK q \in 1..3 : ReplyBefore(s, i, q, R[d[i].v].resp)
      BY <1>9, <3>1 DEF WholeReplies
    <3>4. /\ q < i
          /\ \A j \in (i - q)..(i - 1) : ~IsTerm(s[j])
          /\ i = q + 1 \/ IsTerm(s[i - q - 1])
          /\ Decode(SubSeq(s, i - q, i - 1)) = Ok(R[d[i].v].resp)
      BY <3>3 DEF ReplyBefore
    <3>5. \A j \in (i - q)..(i - 1) : j \in 1..m /\ d[j] = s[j]
      BY <1>3, <1>6, <2>2, <3>4
    <3>6. \A j \in (i - q)..(i - 1) : ~IsTerm(d[j])
      BY <3>4, <3>5
    <3>7. i = q + 1 \/ IsTerm(d[i - q - 1])
      <4> SUFFICES ASSUME i # q + 1 PROVE IsTerm(d[i - q - 1])
        OBVIOUS
      <4>1. i - q - 1 \in 1..m
        BY <1>3, <2>2, <3>4
      <4> QED
        BY <1>6, <3>4, <4>1
    <3>8. SubSeq(d, (i - q) + 0, (i - 1) + 0) = SubSeq(s, i - q, i - 1)
      <4>1. /\ i - q \in Nat \ {0} /\ i - 1 \in Nat /\ i - 1 <= Len(s) /\ (i - q) + 0 > 0
            /\ (i - 1) + 0 <= Len(d) /\ (i - 1) + 0 >= 0
        BY <1>3, <1>7, <2>2, <3>4 DEF m
      <4>2. \A j \in (i - q)..(i - 1) : d[j + 0] = s[j]
        BY <3>5
      <4> QED
        BY <1>1, <1>5, <4>1, <4>2, SamePart, SMTT(60)
    <3>9. (i - q) + 0 = i - q /\ (i - 1) + 0 = i - 1
      BY <1>3, <2>2
    <3>10. ReplyBefore(d, i, q, R[d[i].v].resp)
      BY <3>4, <3>6, <3>7, <3>8, <3>9 DEF ReplyBefore
    <3> QED
      BY <3>2, <3>10
  <2>3. ASSUME i - m \in 1..n, (i - m) + m = i PROVE FALSE
    <3>1. d[(i - m) + m] = text[i - m]
      BY <1>6, <2>3
    <3> QED
      BY <1>8, <1>9, <2>3, <3>1
  <2>4. CASE i = m + n + 1
    <3>1. d[i] = t
      BY <1>6, <2>4
    <3>2. n < i /\ i - n = m + 1 /\ i - 1 = m + n
      BY <1>3, <2>4
    <3>3. ASSUME NEW j \in (i - n)..(i - 1) PROVE ~IsTerm(d[j])
      <4>1. j - m \in 1..n /\ (j - m) + m = j
        BY <1>3, <3>2
      <4>2. d[(j - m) + m] = text[j - m]
        BY <1>6, <4>1
      <4> QED
        BY <1>8, <4>1, <4>2
    <3>4. i = n + 1 \/ IsTerm(d[i - n - 1])
      <4> SUFFICES ASSUME i # n + 1 PROVE IsTerm(d[i - n - 1])
        OBVIOUS
      <4>1. i - n - 1 = m /\ m \in 1..m
        BY <1>3, <2>4
      <4>2. s # <<>> /\ m = Len(s)
        BY <1>1, <1>3, <4>1 DEF m
      <4>3. IsTerm(s[m])
        BY <4>2 DEF WholeReplies
      <4> QED
        BY <1>6, <4>1, <4>3
    <3>5. SubSeq(d, 1 + m, n + m) = text
      <4> DEFINE q == SubSeq(d, 1 + m, n + m)
      <4>1. d \in Seq(U) /\ 1 + m \in 1..Len(d) /\ n + m \in 1..Len(d) /\ n \in Nat /\ m \in Nat
        BY <1>3, <1>5, <1>6, <1>7
      <4>2. q \in Seq(U) /\ Len(q) = n /\ \A j \in 1..n : q[j] = d[j + m]
        BY <4>1, SMTT(60)
      <4> HIDE DEF q
      <4>3. \A j \in 1..n : q[j] = text[j]
        BY <1>6, <4>2
      <4>4. q = text
        BY <1>2, <4>2, <4>3, SeqEqual DEF n
      <4> QED
        BY <4>4 DEF q
    <3>7. i - n = 1 + m /\ i - 1 = n + m
      BY <1>3, <2>4
    <3>8. Decode(SubSeq(d, i - n, i - 1)) = Ok(R[t.v].resp)
      BY <3>5, <3>7
    <3>9. ReplyBefore(d, i, n, R[d[i].v].resp)
      BY <3>1, <3>2, <3>3, <3>4, <3>8 DEF ReplyBefore
    <3> QED
      BY <1>3, <3>1, <3>9
  <2> QED
    BY <2>1, <2>2, <2>3, <2>4
<1>10. IsTerm(d[Len(d)])
  BY <1>6, <1>7
<1>11. WholeReplies(d, R)
  BY <1>5, <1>9, <1>10, Zenon DEF WholeReplies
<1> QED
  BY <1>11 DEF d, f

-----------------------------------------------------------------------------
(* The inductive invariant                                                  *)

(* What the parser holds of the line it is in, whatever becomes of the sends. *)
HostInv == IsText(raw) /\ KeepsTail(pbuf, raw, MAX_FRAME)

(* While nothing is lost, that is whole replies of the rotator.             *)
SaidInv == lost = 0 => WholeReplies(Stream, replies) /\ Genuine

GenuineInv == ClientInv /\ HostInv /\ SaidInv

(* The three parts of the stream are sequences.                             *)
LEMMA StreamParts ==
  ASSUME LinkInv, HostInv
  PROVE  \E S : raw \in Seq(S) /\ rxq \in Seq(S) /\ wire \in Seq(S)
<1>1. PICK A : raw \in Seq(A)
  BY DEF HostInv, IsText
<1>2. PICK mid, g, h : Arriving(mid, g, h)
  BY Zenon DEF LinkInv, ReplyInv
<1>3. PICK B : rxq \in Seq(B)
  BY <1>2 DEF Arriving, Numbered
<1>4. PICK C : wire \in Seq(C)
  BY <1>2 DEF Arriving, Numbered
<1> DEFINE S == A \cup B \cup C
<1>5. raw \in Seq(S) /\ rxq \in Seq(S) /\ wire \in Seq(S)
  BY <1>1, <1>3, <1>4
<1> QED
  BY <1>5, Zenon

LEMMA InitGenuineInv == ClientInit => GenuineInv
<1> SUFFICES ASSUME ClientInit PROVE GenuineInv
  OBVIOUS
<1>1. /\ raw = <<>> /\ rxq = <<>> /\ wire = <<>> /\ pbuf = <<>> /\ pc = "idle" /\ result = Pending
  BY DEF ClientInit, LinkInit, Init
<1>2. ClientInv
  BY InitClientInv
<1>3. HostInv
  BY <1>1, NothingIsText, EmptyKeepsTail, CapacitiesAssumption DEF HostInv
<1>4. Stream = <<>>
  BY <1>1 DEF Stream
<1>5. WholeReplies(<<>>, replies)
  <2>1. \A i \in 1..Len(<<>>) : FALSE
    OBVIOUS
  <2> QED
    BY <2>1, NothingIsText, Zenon DEF WholeReplies
<1>6. Genuine
  BY <1>1 DEF Genuine, Answered, Pending
<1> QED
  BY <1>2, <1>3, <1>4, <1>5, <1>6 DEF GenuineInv, SaidInv

(* The host reads a cell of text.                                           *)
LEMMA TextHeard ==
  ASSUME GenuineInv, HostReadsText, UNCHANGED lost PROVE HostInv' /\ SaidInv'
<1>1. PICK S : raw \in Seq(S) /\ rxq \in Seq(S) /\ wire \in Seq(S)
  BY StreamParts DEF GenuineInv, ClientInv
<1> DEFINE c == Head(rxq)
<1>2. /\ rxq # <<>> /\ ~IsTerm(c) /\ rxq' = Tail(rxq) /\ pbuf' = Feed(pbuf, c).buf
      /\ raw' = Append(raw, c) /\ pc = "reading" /\ UNCHANGED <<wire, replies, pc, src, result>>
  BY DEF HostReadsText, ReadText, deviceVars, historyVars
<1>3. c \in S
  BY <1>1, <1>2
<1> HIDE DEF c
<1>4. KeepsTail(pbuf', raw', MAX_FRAME)
  BY <1>1, <1>2, <1>3, FeedKeepsTail DEF GenuineInv, HostInv
<1>5. IsText(raw')
  <2>1. raw' \in Seq(S) /\ Len(raw') = Len(raw) + 1 /\ Len(raw) \in Nat
        /\ raw'[Len(raw) + 1] = c /\ \A i \in 1..Len(raw) : raw'[i] = raw[i]
    BY <1>1, <1>2, <1>3
  <2>2. \A i \in 1..Len(raw) : ~IsTerm(raw[i])
    BY DEF GenuineInv, HostInv, IsText
  <2>3. ASSUME NEW i \in 1..Len(raw') PROVE ~IsTerm(raw'[i])
    <3>1. i \in 1..Len(raw) \/ i = Len(raw) + 1
      BY <2>1
    <3> QED
      BY <1>2, <2>1, <2>2, <3>1, Zenon
  <2> QED
    BY <2>1, <2>3, Zenon DEF IsText
<1>6. Stream' = Stream
  <2>1. /\ rxq \o wire \in Seq(S) /\ rxq \o wire # <<>>
        /\ Head(rxq \o wire) = c /\ Tail(rxq \o wire) = Tail(rxq) \o wire
    BY <1>1, <1>2, HeadOfConcat DEF c
  <2>2. Append(raw, Head(rxq \o wire)) \o Tail(rxq \o wire) = raw \o (rxq \o wire)
    BY <1>1, <2>1, CellMoves
  <2> QED
    BY <1>2, <2>1, <2>2 DEF Stream
<1>7. Genuine'
  BY <1>2 DEF Genuine, Answered
<1>8. SaidInv'
  BY <1>2, <1>6, <1>7, Zenon DEF GenuineInv, SaidInv
<1> QED
  BY <1>4, <1>5, <1>8 DEF HostInv

(* The host reads a terminator: the line it ends is a reply, and if nothing was
   lost, the parser holds all of it.                                        *)
LEMMA TermHeard ==
  ASSUME GenuineInv, HostReadsTerm, UNCHANGED lost PROVE HostInv' /\ SaidInv'
<1>1. PICK S : raw \in Seq(S) /\ rxq \in Seq(S) /\ wire \in Seq(S)
  BY StreamParts DEF GenuineInv, ClientInv
<1> DEFINE c == Head(rxq)
<1>2. /\ rxq # <<>> /\ IsTerm(c) /\ rxq' = Tail(rxq) /\ pbuf' = <<>> /\ raw' = <<>>
      /\ UNCHANGED <<wire, replies>>
      /\ \/ pc' = "reading"
         \/ pc' = "idle" /\ src' = c.v /\ result' = Decode(pbuf)
  BY DEF HostReadsTerm, ReadTerm, Return, Feed, deviceVars
<1>3. HostInv'
  BY <1>2, NothingIsText, EmptyKeepsTail, CapacitiesAssumption DEF HostInv
<1>4. ASSUME lost = 0 PROVE WholeReplies(Stream', replies') /\ Genuine'
  <2> DEFINE q == rxq \o wire
             k == Len(raw) + 1
             d == Tail(rxq) \o wire
  <2>1. q \in Seq(S) /\ q # <<>> /\ Head(q) = c /\ Tail(q) = d /\ Len(raw) \in Nat
    BY <1>1, <1>2, HeadOfConcat, SMTT(60)
  <2> HIDE DEF q, d, c
  <2>2. /\ Len(q) \in Nat \ {0} /\ q[1] = c /\ d \in Seq(S) /\ Len(d) = Len(q) - 1
        /\ \A i \in 1..Len(d) : d[i] = q[i + 1]
    BY <2>1, HeadTailProperties
  <2>3. /\ Stream \in Seq(S) /\ Len(Stream) = Len(raw) + Len(q)
        /\ \A i \in 1..Len(raw) + Len(q) :
             Stream[i] = IF i <= Len(raw) THEN raw[i] ELSE q[i - Len(raw)]
    <3>1. Stream = raw \o q
      BY DEF Stream, q
    <3> QED
      BY <1>1, <2>1, <3>1, ConcatProperties, Zenon
  <2> HIDE DEF k
  <2>4. k \in 1..Len(Stream) /\ k - 1 = Len(raw) /\ Stream[k] = c
    <3>1. k \in 1..Len(raw) + Len(q) /\ ~(k <= Len(raw)) /\ k - Len(raw) = 1
      BY <2>1, <2>2 DEF k
    <3> QED
      BY <2>1, <2>2, <2>3, <3>1 DEF k
  <2>5. ASSUME NEW j \in 1..(k - 1) PROVE Stream[j] = raw[j] /\ ~IsTerm(raw[j]) /\ ~IsTerm(Stream[j])
    <3>1. j \in 1..Len(raw) + Len(q) /\ j <= Len(raw) /\ j \in 1..Len(raw)
      BY <2>1, <2>2, <2>4
    <3>2. Stream[j] = raw[j]
      BY <2>3, <3>1
    <3>3. ~IsTerm(raw[j])
      BY <3>1, Zenon DEF GenuineInv, HostInv, IsText
    <3> QED
      BY <3>2, <3>3
  <2>6. WholeReplies(Stream, replies)
    BY <1>4 DEF GenuineInv, SaidInv
  <2>7. /\ c.v \in DOMAIN replies /\ k <= 4
        /\ Decode(SubSeq(Stream, 1, k - 1)) = Ok(replies[c.v].resp)
    BY <1>2, <2>4, <2>5, <2>6, FirstReply
  <2>8. SubSeq(Stream, 1, k - 1) = raw
    <3>1. \A i \in 1..Len(raw) : Stream[i + 0] = raw[i]
      <4> SUFFICES ASSUME NEW i \in 1..Len(raw) PROVE Stream[i + 0] = raw[i]
        OBVIOUS
      <4>1. i \in 1..(k - 1) /\ i + 0 = i
        BY <2>1, <2>4
      <4> QED
        BY <2>5, <4>1
    <3>2. /\ 1 \in Nat \ {0} /\ Len(raw) \in Nat /\ Len(raw) <= Len(raw) /\ 1 + 0 > 0 /\ 0 \in Int
          /\ Len(raw) + 0 <= Len(Stream) /\ Len(raw) + 0 >= 0
      BY <2>1, <2>2, <2>3
    <3>3. SubSeq(Stream, 1 + 0, Len(raw) + 0) = SubSeq(raw, 1, Len(raw))
      BY <1>1, <2>3, <3>1, <3>2, SamePart, SMTT(60)
    <3>4. SubSeq(raw, 1, Len(raw)) = raw
      BY <1>1, SubSeqFull
    <3>5. 1 + 0 = 1 /\ Len(raw) + 0 = k - 1
      BY <2>1, <2>4
    <3> QED
      BY <3>3, <3>4, <3>5
  <2>9. pbuf = raw
    <3>1. Len(raw) <= MAX_FRAME
      BY <2>1, <2>4, <2>7, RepliesFitAssumption, CapacitiesAssumption DEF k
    <3>2. PICK n \in 0..Len(raw) : /\ pbuf = SubSeq(raw, n + 1, Len(raw))
                                   /\ Len(raw) <= MAX_FRAME => n = 0
      BY DEF GenuineInv, HostInv, KeepsTail
    <3> QED
      BY <1>1, <3>1, <3>2, SubSeqFull
  <2>10. Genuine'
    BY <1>2, <2>7, <2>8, <2>9 DEF Genuine, Answered
  <2>11. WholeReplies(d, replies)
    <3>1. Len(d) = Len(Stream) - k
      BY <2>1, <2>2, <2>3 DEF k
    <3>2. ASSUME NEW i \in 1..Len(d) PROVE d[i] = Stream[i + k]
      <4>1. i + k \in 1..Len(raw) + Len(q) /\ ~(i + k <= Len(raw)) /\ (i + k) - Len(raw) = i + 1
        BY <2>1, <2>2 DEF k
      <4> QED
        BY <2>2, <2>3, <4>1
    <3> QED
      BY <1>2, <2>2, <2>4, <2>6, <3>1, <3>2, RepliesDropped
  <2>12. Stream' = d
    BY <1>2, <2>2 DEF Stream, d
  <2> QED
    BY <1>2, <2>10, <2>11, <2>12
<1>5. SaidInv'
  BY <1>4 DEF SaidInv
<1> QED
  BY <1>3, <1>5

LEMMA ReplyFollows ==
  ASSUME NEW S, raw \in Seq(S), rxq \in Seq(S), wire \in Seq(S), UNCHANGED <<raw, rxq>>,
         NEW text, IsText(text), NEW t, wire' = wire \o Append(text, t)
  PROVE  Stream' = Stream \o Append(text, t)
<1>1. PICK T : text \in Seq(T)
  BY DEF IsText
<1> DEFINE U == S \cup T \cup {t}
           g == Append(text, t)
<1>2. raw \in Seq(U) /\ rxq \in Seq(U) /\ wire \in Seq(U) /\ text \in Seq(U) /\ t \in U
  BY <1>1
<1> HIDE DEF U
<1>3. g \in Seq(U)
  BY <1>2
<1> HIDE DEF g
<1>4. wire' = wire \o g
  BY DEF g
<1>5. Stream' = Stream \o g
  BY <1>2, <1>3, <1>4, StreamGrows
<1> QED
  BY <1>5 DEF g

(* The rotator answers.                                                     *)
LEMMA ReplyMade ==
  ASSUME Echoes = FALSE, Newlines = FALSE, GenuineInv, NEW sum \in BOOLEAN, DeviceRead(sum),
         UNCHANGED lost
  PROVE  HostInv' /\ SaidInv'
<1>1. UNCHANGED <<rxq, raw, pbuf, pc, src, result>>
  BY DEF DeviceRead, historyVars
<1>2. HostInv'
  BY <1>1 DEF GenuineInv, HostInv
<1>3. PICK S : raw \in Seq(S) /\ rxq \in Seq(S) /\ wire \in Seq(S)
  BY StreamParts DEF GenuineInv, ClientInv
<1>4. wire \o <<>> = wire
  BY <1>3
<1>5. CASE ~IsTerm(Head(txq))
  <2>1. wire' = wire /\ replies' = replies
    BY <1>4, <1>5 DEF DeviceRead, EchoOf
  <2>2. Stream' = Stream
    BY <1>1, <2>1 DEF Stream
  <2>3. SaidInv'
    BY <1>1, <2>1, <2>2 DEF GenuineInv, SaidInv, Genuine, Answered
  <2> QED
    BY <1>2, <2>3
<1>6. CASE IsTerm(Head(txq))
  <2>1. PICK r :
          /\ r \in Firmware(DecodeCommand(dbuf))
          /\ replies' = Append(replies, [to |-> DecodeCommand(dbuf), resp |-> r])
          /\ wire' = wire \o ReplyFrame(r, sum, Len(replies'))
    <3>1. FeedCommand(dbuf, Head(txq)).out = DecodeCommand(dbuf)
      BY <1>6 DEF FeedCommand
    <3>2. \E r \in Firmware(DecodeCommand(dbuf)) :
            /\ replies' = Append(replies, [to |-> DecodeCommand(dbuf), resp |-> r])
            /\ wire' = (wire \o <<>>) \o ReplyFrame(r, sum, Len(replies'))
      BY <1>6, <3>1 DEF DeviceRead, EchoOf
    <3> QED
      BY <1>4, <3>2, Zenon
  <2> DEFINE e == [to |-> DecodeCommand(dbuf), resp |-> r]
             n == Len(replies')
             f == ReplyFrame(r, sum, n)
  <2>2. PICK E : replies \in Seq(E)
    BY DEF GenuineInv, ClientInv, LinkInv, BufferTypes
  <2>3. e.resp = r
    OBVIOUS
  <2> HIDE DEF e
  <2>4. /\ n \in DOMAIN replies' /\ n \in Int /\ replies'[n].resp = r
        /\ DOMAIN replies \subseteq DOMAIN replies'
        /\ \A i \in DOMAIN replies : replies'[i] = replies[i]
    <3>1. replies \in Seq(E \cup {e}) /\ e \in E \cup {e} /\ replies' = Append(replies, e)
      BY <2>1, <2>2 DEF e
    <3>2. /\ DOMAIN replies' = 1..(Len(replies) + 1) /\ n = Len(replies) + 1
          /\ DOMAIN replies = 1..Len(replies) /\ Len(replies) \in Nat
          /\ replies'[Len(replies) + 1] = e
          /\ \A i \in 1..Len(replies) : replies'[i] = replies[i]
      BY <3>1
    <3> HIDE DEF n
    <3> QED
      BY <2>3, <3>2
  <2>5. Genuine => Genuine'
    BY <1>1, <2>4 DEF Genuine, Answered
  <2>6. WholeReplies(Stream, replies) => WholeReplies(Stream, replies')
    BY <2>4, MoreReplies
  <2>7. Stream \in Seq(S)
    BY <1>3, ConcatProperties DEF Stream
  <2>8. CASE r = None
    <3>1. f = <<>>
      BY <2>8 DEF ReplyFrame
    <3>2. Stream' = Stream
      BY <1>1, <1>4, <2>1, <3>1 DEF Stream
    <3>3. SaidInv'
      BY <2>5, <2>6, <3>2 DEF GenuineInv, SaidInv
    <3> QED
      BY <1>2, <3>3
  <2>9. CASE r # None
    <3>1. Representable(r)
      BY <2>1, <2>9, AnswersFit
    <3> HIDE DEF n
    <3>0. PICK m : m = n
      OBVIOUS
    <3>a. IsReply(ReplyFrame(r, sum, m), r, m)
      BY <2>9, <3>1, ReplySpoken
    <3>2. PICK text, t : /\ IsText(text) /\ Len(text) \in 1..3 /\ Decode(text) = Ok(r)
                         /\ IsTerm(t) /\ t.v = m /\ ReplyFrame(r, sum, m) = Append(text, t)
      BY <3>a DEF IsReply, Says
    <3>b. PICK g : g = Append(text, t)
      OBVIOUS
    <3> HIDE DEF f
    <3>3. WholeReplies(Stream, replies) => WholeReplies(Stream \o g, replies')
      BY <2>4, <2>6, <3>0, <3>2, <3>b, ReplyAppended
    <3>4. Stream' = Stream \o g
      <4>1. wire' = wire \o Append(text, t)
        BY <2>1, <3>0, <3>2 DEF n
      <4> QED
        BY <1>1, <1>3, <3>2, <3>b, <4>1, ReplyFollows
    <3>5. SaidInv'
      BY <2>5, <3>3, <3>4 DEF GenuineInv, SaidInv
    <3> QED
      BY <1>2, <3>5
  <2> QED
    BY <2>8, <2>9
<1> QED
  BY <1>5, <1>6

(* A step that neither reads nor answers.                                   *)
LEMMA NothingHeard ==
  ASSUME GenuineInv, UNCHANGED <<raw, pbuf, replies, lost>>, Stream' = Stream, Genuine => Genuine'
  PROVE  HostInv' /\ SaidInv'
  BY DEF GenuineInv, HostInv, SaidInv

LEMMA GenuineStep ==
  ASSUME Echoes = FALSE, Newlines = FALSE, GenuineInv, [ClientNext]_clientVars
  PROVE  GenuineInv'
<1>1. ClientInv'
  BY StepKeeps DEF GenuineInv
<1>2. CASE Call
  <2>1. PICK cmd : HostSend(cmd) /\ UNCHANGED lost
    <3>1. \E cmd \in Sendable : HostSend(cmd)
      BY <1>2, CallSends DEF GenuineInv, ClientInv
    <3> QED
      BY <1>2, <3>1 DEF Call
  <2>2. /\ UNCHANGED <<raw, pbuf, replies, rxq, wire>>
        /\ pc' = "reading" \/ result' \in {InvalidParam, Transport}
    BY <2>1 DEF HostSend, SendInvalid, SendWrite, SendWriteFails, deviceVars
  <2>3. Genuine' /\ Stream' = Stream
    BY <2>2 DEF Genuine, Answered, Stream, InvalidParam, Transport
  <2> QED
    BY <1>1, <2>1, <2>2, <2>3, NothingHeard DEF GenuineInv
<1>3. CASE UNCHANGED <<linkVars, lost>>
  <2>1. UNCHANGED <<raw, pbuf, replies, rxq, wire, pc, src, result, lost>>
    BY <1>3 DEF linkVars, vars, deviceVars, historyVars
  <2>2. (Genuine => Genuine') /\ Stream' = Stream
    BY <2>1 DEF Genuine, Answered, Stream
  <2> QED
    BY <1>1, <2>1, <2>2, NothingHeard DEF GenuineInv
<1>4. CASE Receive
  <2>1. UNCHANGED lost
    BY <1>4 DEF Receive
  <2>2. CASE HostReadsText
    BY <1>1, <2>1, <2>2, TextHeard DEF GenuineInv
  <2>3. CASE HostReadsTerm
    BY <1>1, <2>1, <2>3, TermHeard DEF GenuineInv
  <2>4. CASE HostGivesUp
    <3>1. UNCHANGED <<raw, pbuf, replies, rxq, wire>> /\ result' \in {Timeout, Transport}
      BY <2>4 DEF HostGivesUp, ReadNothing, ReadFails, Return, deviceVars
    <3>2. Genuine' /\ Stream' = Stream
      BY <3>1 DEF Genuine, Answered, Stream, Timeout, Transport
    <3> QED
      BY <1>1, <2>1, <3>1, <3>2, NothingHeard DEF GenuineInv
  <2> QED
    BY <1>4, <2>2, <2>3, <2>4 DEF Receive, HostReads
<1>5. CASE Transmit
  <2>1. /\ UNCHANGED <<raw, pbuf, replies, pc, src, result, lost>> /\ wire # <<>>
        /\ rxq' = Append(rxq, Head(wire)) /\ wire' = Tail(wire)
    BY <1>5 DEF Transmit, Deliver, historyVars
  <2>2. PICK S : rxq \in Seq(S) /\ wire \in Seq(S)
    BY StreamParts DEF GenuineInv, ClientInv
  <2>3. Stream' = Stream
    BY <2>1, <2>2, CellMoves DEF Stream
  <2>4. Genuine => Genuine'
    BY <2>1 DEF Genuine, Answered
  <2> QED
    BY <1>1, <2>1, <2>3, <2>4, NothingHeard DEF GenuineInv
<1>6. CASE Rotator
  <2>1. PICK sum \in BOOLEAN : DeviceRead(sum)
    BY <1>6, SwitchesAssumption DEF Rotator
  <2> QED
    BY <1>1, <1>6, <2>1, ReplyMade DEF Rotator, GenuineInv
<1>7. CASE Lose
  <2>1. UNCHANGED <<raw, pbuf>> /\ lost' # 0
    BY <1>7 DEF Lose, GenuineInv, ClientInv, ProgInv
  <2> QED
    BY <1>1, <2>1 DEF GenuineInv, HostInv, SaidInv
<1> QED
  BY <1>2, <1>3, <1>4, <1>5, <1>6, <1>7 DEF ClientNext, PrintResult, CliEnds, clientVars

LEMMA GenuineInvariant ==
  ASSUME Echoes = FALSE, Newlines = FALSE PROVE ClientSpec => []GenuineInv
<1>1. GenuineInv /\ [ClientNext]_clientVars => GenuineInv'
  BY GenuineStep
<1> QED
  BY <1>1, InitGenuineInv, PTL DEF ClientSpec

(* While the line loses nothing, every answer of send is a reply the rotator
   made, whole and unmixed, although sends give up within a reply, later sends
   read the rest, and failed writes leave half a command with the rotator.  *)
THEOREM ClientGenuineIfWhole ==
  ASSUME Echoes = FALSE, Newlines = FALSE PROVE ClientSpec => []GenuineIfWhole
<1>1. GenuineInv => GenuineIfWhole
  BY DEF GenuineInv, SaidInv, GenuineIfWhole
<1> QED
  BY <1>1, GenuineInvariant, PTL

-----------------------------------------------------------------------------
(* What tcp_poll has sent                                                   *)

C == Word("C")

(* Cells of queries, a query's first or its second one to begin with.        *)
Alternates(q, first) ==
  /\ q \in Seq({C, CR})
  /\ q # <<>> => q[1] = first
  /\ \A i \in 1..(Len(q) - 1) : q[i + 1] # q[i]

LEMMA CellsDiffer == C # CR /\ ~IsTerm(C) /\ IsTerm(CR)
  BY DEF C, CR, Word, Cell, IsTerm

LEMMA AlternatesAppend ==
  ASSUME NEW q, NEW first, Alternates(q, first), NEW x \in {C, CR},
         q = <<>> => x = first, q # <<>> => q[Len(q)] # x
  PROVE  /\ Alternates(Append(q, x), first)
         /\ Append(q, x) # <<>> /\ Append(q, x)[Len(Append(q, x))] = x
<1> DEFINE a == Append(q, x)
<1>1. q \in Seq({C, CR})
  BY DEF Alternates
<1>2. /\ a \in Seq({C, CR}) /\ Len(a) = Len(q) + 1 /\ Len(q) \in Nat /\ a # <<>>
      /\ a[Len(q) + 1] = x /\ \A i \in 1..Len(q) : a[i] = q[i]
  BY <1>1
<1>3. a[1] = first
  <2>1. CASE q = <<>>
    BY <1>2, <2>1
  <2>2. CASE q # <<>>
    <3>1. 1 \in 1..Len(q)
      BY <1>1, <2>2
    <3> QED
      BY <1>2, <2>2, <3>1 DEF Alternates
  <2> QED
    BY <2>1, <2>2
<1> HIDE DEF a
<1>4. ASSUME NEW i \in 1..(Len(a) - 1) PROVE a[i + 1] # a[i]
  <2>1. CASE i \in 1..(Len(q) - 1)
    <3>1. i \in 1..Len(q) /\ i + 1 \in 1..Len(q) /\ q[i + 1] # q[i]
      BY <1>2, <2>1 DEF Alternates
    <3> QED
      BY <1>2, <3>1
  <2>2. CASE i = Len(q)
    <3>1. q # <<>> /\ i \in 1..Len(q)
      BY <1>1, <1>2, <2>2
    <3> QED
      BY <1>2, <2>2, <3>1
  <2> QED
    BY <1>2, <2>1, <2>2
<1>5. Alternates(a, first)
  BY <1>2, <1>3, <1>4 DEF Alternates
<1> QED
  BY <1>2, <1>5 DEF a

Other(first) == IF first = C THEN CR ELSE C

LEMMA AlternatesTail ==
  ASSUME NEW q, NEW first, Alternates(q, first), q # <<>>
  PROVE  /\ Head(q) = first /\ first \in {C, CR}
         /\ Alternates(Tail(q), Other(first))
         /\ Tail(q) # <<>> => Tail(q)[Len(Tail(q))] = q[Len(q)]
         /\ Tail(q) = <<>> => q[Len(q)] = first
<1> DEFINE a == Tail(q)
<1>1. q \in Seq({C, CR})
  BY DEF Alternates
<1>2. /\ a \in Seq({C, CR}) /\ Len(a) = Len(q) - 1 /\ Len(q) \in Nat \ {0} /\ Head(q) = q[1]
      /\ q[1] \in {C, CR} /\ \A i \in 1..Len(a) : a[i] = q[i + 1]
  BY <1>1
<1>3. q[1] = first
  BY DEF Alternates
<1> HIDE DEF a
<1>4. ASSUME a # <<>> PROVE a[1] = Other(first) /\ a[Len(a)] = q[Len(q)]
  <2>1. 1 \in 1..Len(a) /\ Len(a) \in 1..Len(a) /\ 1 \in 1..(Len(q) - 1) /\ Len(a) + 1 = Len(q)
        /\ 1 + 1 \in 1..Len(q)
    BY <1>2, <1>4
  <2>2. q[1 + 1] # q[1]
    BY <2>1 DEF Alternates
  <2>3. q[1 + 1] \in {C, CR}
    BY <1>1, <2>1
  <2>4. a[1] = q[1 + 1] /\ a[Len(a)] = q[Len(q)]
    BY <1>2, <2>1
  <2> QED
    BY <1>2, <1>3, <2>2, <2>3, <2>4, CellsDiffer DEF Other
<1>5. ASSUME NEW i \in 1..(Len(a) - 1) PROVE a[i + 1] # a[i]
  <2>1. /\ i \in 1..Len(a) /\ i + 1 \in 1..Len(a) /\ i + 1 \in 1..(Len(q) - 1)
    BY <1>2
  <2>2. q[(i + 1) + 1] # q[i + 1]
    BY <2>1 DEF Alternates
  <2> QED
    BY <1>2, <2>1, <2>2
<1>6. Alternates(a, Other(first))
  BY <1>2, <1>4, <1>5 DEF Alternates
<1>7. a = <<>> => q[Len(q)] = first
  <2>1. Len(<<>>) = 0
    OBVIOUS
  <2>2. a = <<>> => Len(q) = 1
    BY <1>2, <2>1
  <2> QED
    BY <1>3, <2>2
<1> QED
  BY <1>2, <1>3, <1>4, <1>6, <1>7 DEF a

(* A send of tcp_poll failed, or the program is over.                       *)
Failed == at = "ended" \/ (at = "sent" /\ pc = "idle" /\ result.tag \in {"Timeout", "Transport"})

(* The cell of a query the rotator reads next.                              *)
Turn == IF dbuf = <<>> THEN C ELSE CR

WrittenWhole ==
  /\ txq # <<>> => txq[Len(txq)] = CR
  /\ txq = <<>> => dbuf = <<>>

QueriesOnly ==
  /\ dbuf \in {<<>>, <<C>>}
  /\ Alternates(txq, Turn)
  /\ \A i \in DOMAIN replies : replies[i] = [to |-> Query, resp |-> replies[i].resp]

(* Until a send of it fails, tcp_poll has had an answer to each of its queries
   but the one it waits for, and only queries have reached the rotator.     *)
PollInv ==
  prog = "tcp_poll" =>
    /\ medium = "tcp" /\ lost = 0
    /\ Failed \/ (misses = 0 /\ WrittenWhole)
    /\ QueriesOnly

LEMMA PartsOfTwo ==
  ASSUME NEW c, NEW d
  PROVE  /\ SubSeq(<<c, d>>, 1, 0) = <<>> /\ SubSeq(<<c, d>>, 1, 1) = <<c>>
         /\ SubSeq(<<c, d>>, 1, 2) = <<c, d>>
<1> DEFINE q == <<c, d>>
<1>1. q \in Seq({c, d}) /\ Len(q) = 2 /\ q[1] = c /\ q[2] = d
  OBVIOUS
<1>2. <<c>> \in Seq({c, d}) /\ Len(<<c>>) = 1 /\ <<c>>[1] = c
  OBVIOUS
<1> HIDE DEF q
<1>3. SubSeq(q, 1, 0) = <<>>
  BY <1>1
<1>4. SubSeq(q, 1, 1) = <<c>>
  <2>1. SubSeq(q, 1, 1) \in Seq({c, d}) /\ Len(SubSeq(q, 1, 1)) = 1 /\ SubSeq(q, 1, 1)[1] = c
    BY <1>1
  <2>2. ASSUME NEW s \in Seq({c, d}), Len(s) = 1 PROVE s = <<s[1]>>
    BY <2>2
  <2> QED
    BY <2>1, <2>2
<1>5. SubSeq(q, 1, 2) = q
  BY <1>1
<1> QED
  BY <1>3, <1>4, <1>5 DEF q

LEMMA QueryIsSpoken ==
  InRange(Query) /\ DecodeCommand(<<C>>) = Query /\ EncodeInto(Query) = <<C, CR>>
<1>1. InRange(Query)
  BY DEF Query, InRange
<1>2. Query \in AnyCommand /\ Query.op = "QueryPosition"
  BY DEF Query, AnyCommand, CommandsOver
<1>3. PICK heard : HeardFor(heard, Query)
  BY <1>1, <1>2, PayloadHeard
<1>4. Payload(Query) = <<C>>
  BY <1>2 DEF Payload, C
<1>5. DecodeCommand(<<C>>) = Query
  BY <1>2, <1>3, <1>4 DEF HeardFor, Spoken
<1> QED
  BY <1>1, <1>4, <1>5, AppendToOne DEF EncodeInto

LEMMA InitPollInv == ClientInit => PollInv
<1> SUFFICES ASSUME ClientInit, prog = "tcp_poll"
             PROVE  medium = "tcp" /\ lost = 0 /\ misses = 0 /\ WrittenWhole /\ QueriesOnly
  BY DEF PollInv
<1>1. medium = "tcp" /\ lost = 0 /\ misses = 0 /\ txq = <<>> /\ dbuf = <<>> /\ replies = <<>>
  BY DEF ClientInit, LinkInit, Init, Media
<1>2. Alternates(<<>>, Turn)
  BY DEF Alternates
<1>3. DOMAIN <<>> = {}
  OBVIOUS
<1> QED
  BY <1>1, <1>2, <1>3 DEF WrittenWhole, QueriesOnly

(* The rotator reads a cell of a query.                                     *)
LEMMA QueryRead ==
  ASSUME ClientInv, QueriesOnly, NEW sum, DeviceRead(sum)
  PROVE  QueriesOnly' /\ (WrittenWhole => WrittenWhole') /\ UNCHANGED misses
<1>1. txq # <<>> /\ txq' = Tail(txq) /\ dbuf' = FeedCommand(dbuf, Head(txq)).buf /\ UNCHANGED misses
  BY DEF DeviceRead, historyVars
<1>2. /\ Head(txq) = Turn /\ Turn \in {C, CR}
      /\ Alternates(Tail(txq), Other(Turn))
      /\ Tail(txq) # <<>> => Tail(txq)[Len(Tail(txq))] = txq[Len(txq)]
      /\ Tail(txq) = <<>> => txq[Len(txq)] = Turn
  BY <1>1, AlternatesTail DEF QueriesOnly
<1>3. <<C>> # <<>> /\ Append(<<>>, C) = <<C>> /\ Len(<<>>) = 0
  OBVIOUS
<1>4. CASE dbuf = <<>>
  <2>1. Turn = C
    BY <1>4 DEF Turn
  <2>2. 0 < MAX_CMD_FRAME
    BY CapacitiesAssumption
  <2>3. FeedCommand(<<>>, C).buf = <<C>>
    BY <1>3, <2>2, CellsDiffer DEF FeedCommand
  <2>4. dbuf' = <<C>>
    BY <1>1, <1>2, <1>4, <2>1, <2>3
  <2>5. Turn' = Other(Turn)
    BY <1>3, <2>1, <2>4 DEF Turn, Other
  <2>6. UNCHANGED replies
    BY <1>2, <2>1, CellsDiffer DEF DeviceRead
  <2>7. QueriesOnly'
    BY <1>1, <1>2, <2>4, <2>5, <2>6 DEF QueriesOnly
  <2>8. WrittenWhole => WrittenWhole'
    BY <1>1, <1>2, <2>1, CellsDiffer DEF WrittenWhole
  <2> QED
    BY <1>1, <2>7, <2>8
<1>5. CASE dbuf # <<>>
  <2>1. Turn = CR /\ dbuf = <<C>>
    BY <1>5 DEF Turn, QueriesOnly
  <2>2. FeedCommand(dbuf, CR).buf = <<>> /\ FeedCommand(dbuf, CR).out = Query
    BY <2>1, QueryIsSpoken, CellsDiffer DEF FeedCommand
  <2>3. dbuf' = <<>>
    BY <1>1, <1>2, <2>1, <2>2
  <2>4. Turn' = Other(Turn)
    BY <2>1, <2>3, CellsDiffer DEF Turn, Other
  <2>5. PICK r : replies' = Append(replies, [to |-> Query, resp |-> r])
    BY <1>2, <2>1, <2>2, CellsDiffer DEF DeviceRead
  <2>6. \A i \in DOMAIN replies' : replies'[i] = [to |-> Query, resp |-> replies'[i].resp]
    <3> DEFINE e == [to |-> Query, resp |-> r]
    <3>1. PICK E : replies \in Seq(E)
      BY DEF ClientInv, LinkInv, BufferTypes
    <3>2. e = [to |-> Query, resp |-> e.resp]
      OBVIOUS
    <3>3. replies' = Append(replies, e)
      BY <2>5
    <3> HIDE DEF e
    <3>4. /\ DOMAIN replies' = 1..(Len(replies) + 1) /\ replies'[Len(replies) + 1] = e
          /\ DOMAIN replies = 1..Len(replies) /\ Len(replies) \in Nat
          /\ \A i \in 1..Len(replies) : replies'[i] = replies[i]
      BY <3>1, <3>3
    <3> SUFFICES ASSUME NEW i \in DOMAIN replies'
                 PROVE  replies'[i] = [to |-> Query, resp |-> replies'[i].resp]
      OBVIOUS
    <3>5. i = Len(replies) + 1 \/ i \in DOMAIN replies
      BY <3>4
    <3> QED
      BY <3>2, <3>4, <3>5, Zenon DEF QueriesOnly
  <2>7. QueriesOnly'
    BY <1>1, <1>2, <2>3, <2>4, <2>6 DEF QueriesOnly
  <2>8. WrittenWhole => WrittenWhole'
    BY <1>1, <1>2, <2>3 DEF WrittenWhole
  <2> QED
    BY <1>1, <2>7, <2>8
<1> QED
  BY <1>4, <1>5

(* tcp_poll sends a query, or a part of one.                                *)
LEMMA QuerySent ==
  ASSUME ClientInv, QueriesOnly, misses = 0, WrittenWhole, HostSend(Query), at' = "sent"
  PROVE  QueriesOnly' /\ (Failed' \/ (misses' = 0 /\ WrittenWhole'))
<1> DEFINE one == Append(txq, C)
           two == Append(one, CR)
<1>1. UNCHANGED <<dbuf, replies>> /\ Turn' = Turn
  BY DEF HostSend, deviceVars, Turn
<1>2. txq \in Seq({C, CR}) /\ C \in {C, CR} /\ CR \in {C, CR}
  BY DEF QueriesOnly, Alternates
<1>3. /\ txq = <<>> => C = Turn
      /\ txq # <<>> => txq[Len(txq)] # C
  BY CellsDiffer DEF WrittenWhole, Turn
<1>4. Alternates(one, Turn) /\ one # <<>> /\ one[Len(one)] = C
  BY <1>2, <1>3, AlternatesAppend DEF QueriesOnly
<1> HIDE DEF one
<1>5. Alternates(two, Turn) /\ two # <<>> /\ two[Len(two)] = CR
  BY <1>2, <1>4, CellsDiffer, AlternatesAppend
<1> HIDE DEF two
<1>6. /\ txq \o <<C, CR>> = two /\ txq \o <<C>> = one /\ txq \o <<>> = txq
  BY <1>2 DEF one, two
<1>7. \A q : Alternates(q, Turn) /\ txq' = q => QueriesOnly'
  BY <1>1 DEF QueriesOnly
<1>8. CASE SendWrite(Query) /\ UNCHANGED misses
  <2>1. txq' = two
    BY <1>6, <1>8, QueryIsSpoken DEF SendWrite
  <2> QED
    BY <1>1, <1>5, <1>7, <1>8, <2>1 DEF WrittenWhole
<1>9. ASSUME NEW n \in 0..Len(EncodeInto(Query)), SendWriteFails(Query, n)
      PROVE  QueriesOnly' /\ Failed'
  <2>1. pc' = "idle" /\ result' = Transport /\ txq' = txq \o SubSeq(<<C, CR>>, 1, n)
    BY <1>9, QueryIsSpoken DEF SendWriteFails
  <2>2. Failed'
    BY <2>1 DEF Failed, Transport
  <2>3. n \in 0..2
    BY QueryIsSpoken
  <2>4. txq' = txq \/ txq' = one \/ txq' = two
    <3>1. n = 0 \/ n = 1 \/ n = 2
      BY <2>3
    <3>2. /\ SubSeq(<<C, CR>>, 1, 0) = <<>> /\ SubSeq(<<C, CR>>, 1, 1) = <<C>>
          /\ SubSeq(<<C, CR>>, 1, 2) = <<C, CR>>
      BY PartsOfTwo
    <3> QED
      BY <1>6, <2>1, <3>1, <3>2
  <2> QED
    BY <1>4, <1>5, <1>7, <2>2, <2>4 DEF QueriesOnly
<1> QED
  BY <1>8, <1>9, QueryIsSpoken DEF HostSend, SendInvalid

LEMMA PollStep ==
  ASSUME ClientInv, PollInv, [ClientNext]_clientVars PROVE PollInv'
<1> SUFFICES ASSUME prog = "tcp_poll", UNCHANGED prog
             PROVE  /\ medium' = "tcp" /\ lost' = 0
                    /\ Failed' \/ (misses' = 0 /\ WrittenWhole')
                    /\ QueriesOnly'
  BY DEF PollInv, ClientNext, Call, PrintResult, CliEnds, Receive, Transmit, Rotator, Lose, clientVars
<1>1. /\ medium = "tcp" /\ lost = 0
      /\ Failed \/ (misses = 0 /\ WrittenWhole)
      /\ QueriesOnly
  BY DEF PollInv
<1>2. CASE Call
  <2>1. HostSend(Query) /\ at = "call" /\ at' = "sent" /\ UNCHANGED <<medium, lost>>
    BY <1>2 DEF Call, PollCalls, HomeCalls, CliCalls
  <2> QED
    BY <1>1, <2>1, QuerySent DEF Failed
<1>3. CASE UNCHANGED <<txq, dbuf, replies, misses, medium, lost>> /\ (Failed => Failed')
  BY <1>1, <1>3 DEF WrittenWhole, QueriesOnly, Turn
<1>4. CASE PrintResult
  <2>1. at' = (IF result.tag = "Ok" THEN "call" ELSE "ended") /\ at = "sent" /\ UNCHANGED <<linkVars, medium, lost>>
    BY <1>4 DEF PrintResult, PollPrints, HomePrints, CliPrints, Returned
  <2>2. Failed => Failed'
    BY <2>1 DEF Failed
  <2> QED
    BY <1>3, <2>1, <2>2 DEF linkVars, vars, deviceVars, historyVars
<1>5. CASE Receive
  <2>1. /\ UNCHANGED <<txq, dbuf, replies, medium, lost, at>> /\ pc = "reading" /\ at = "sent"
    BY <1>5 DEF Receive, HostReads, HostReadsText, HostReadsTerm, HostGivesUp, ReadText, ReadTerm,
                ReadNothing, ReadFails, deviceVars, ClientInv, ProgInv
  <2>2. ~Failed
    BY <2>1 DEF Failed
  <2>3. QueriesOnly' /\ (WrittenWhole => WrittenWhole')
    BY <1>1, <2>1 DEF WrittenWhole, QueriesOnly, Turn
  <2>4. CASE HostGivesUp
    <3>1. Failed'
      BY <2>1, <2>4 DEF HostGivesUp, ReadNothing, ReadFails, Return, Failed, Timeout, Transport
    <3> QED
      BY <1>1, <2>1, <2>3, <3>1
  <2>5. CASE UNCHANGED misses
    BY <1>1, <2>1, <2>2, <2>3, <2>5
  <2> QED
    BY <1>5, <2>4, <2>5 DEF Receive, HostReads, HostReadsText, HostReadsTerm, historyVars
<1>6. CASE Transmit
  BY <1>3, <1>6 DEF Transmit, Deliver, historyVars, Failed
<1>7. CASE Rotator
  <2>1. PICK sum : DeviceRead(sum)
    BY <1>7 DEF Rotator
  <2>2. UNCHANGED <<medium, lost, at, pc, result>>
    BY <1>7, <2>1 DEF Rotator, DeviceRead
  <2>3. Failed => Failed'
    BY <2>2 DEF Failed
  <2> QED
    BY <1>1, <2>1, <2>2, <2>3, QueryRead
<1>8. ~CliEnds /\ ~Lose
  BY <1>1 DEF CliEnds, Lose
<1>9. CASE UNCHANGED clientVars
  BY <1>3, <1>9 DEF clientVars, linkVars, vars, deviceVars, historyVars, Failed
<1> QED
  BY <1>2, <1>4, <1>5, <1>6, <1>7, <1>8, <1>9 DEF ClientNext

(* Every line tcp_poll prints is the reply to the query it has just sent,
   however late replies may come: it stops at the first send without one.    *)
THEOREM ClientPollIsFresh ==
  ASSUME Echoes = FALSE, Newlines = FALSE PROVE ClientSpec => []PollIsFresh
<1>1. GenuineInv /\ PollInv => PollIsFresh
  <2> SUFFICES ASSUME GenuineInv, PollInv, prog = "tcp_poll", Returned, result.tag = "Ok"
               PROVE  src = seq /\ replies[seq] = [to |-> Query, resp |-> result.resp]
    BY DEF PollIsFresh
  <2>1. lost = 0 /\ misses = 0 /\ pc = "idle"
    BY DEF PollInv, Failed, Returned
  <2>2. src \in DOMAIN replies /\ result = Ok(replies[src].resp)
    BY <2>1 DEF GenuineInv, SaidInv, Genuine, Answered
  <2>3. src = seq
    <3>1. /\ seq \in Nat /\ src \in Nat /\ Len(replies) \in Nat /\ Len(replies) <= seq
          /\ seq - misses - Waiting <= src /\ Waiting = 0
      BY <2>1 DEF GenuineInv, ClientInv, LinkInv, CountInv, Waiting
    <3>2. src <= Len(replies)
      BY SourceIsReply DEF GenuineInv, ClientInv
    <3> QED
      BY <2>1, <3>1, <3>2
  <2>4. replies[src] = [to |-> Query, resp |-> replies[src].resp]
    BY <2>2 DEF PollInv, QueriesOnly
  <2>5. result.resp = replies[src].resp
    BY <2>2 DEF Ok
  <2> QED
    BY <2>3, <2>4, <2>5
<1>2. GenuineInv /\ PollInv /\ [ClientNext]_clientVars => PollInv'
  BY PollStep DEF GenuineInv
<1>3. ClientSpec => []PollInv
  <2>1. ClientInit /\ GenuineInv => PollInv
    BY InitPollInv
  <2> QED
    BY <1>2, InitPollInv, GenuineInvariant, PTL DEF ClientSpec
<1> QED
  BY <1>1, <1>3, GenuineInvariant, PTL

-----------------------------------------------------------------------------
(* The position serial_home ends with                                       *)

(* Every cell of s about a position tells one of P.                          *)
TellsCell(c, P) ==
  /\ c.k \in AzKinds => \E p \in P : c.v = p.az
  /\ c.k \in ElKinds => \E p \in P : c.v = p.el

AllTell(S, P) == \A c \in S : TellsCell(c, P)
Tells(s, P) == \E S : s \in Seq(S) /\ AllTell(S, P)

LEMMA TellsNothing == ASSUME NEW P PROVE Tells(<<>>, P)
<1>1. AllTell({}, P)
  BY DEF AllTell
<1> QED
  BY <1>1, NothingIsText, Zenon DEF Tells

LEMMA TellsMore == ASSUME NEW s, NEW P, NEW Q, P \subseteq Q, Tells(s, P) PROVE Tells(s, Q)
<1>1. \A S : AllTell(S, P) => AllTell(S, Q)
  BY DEF AllTell, TellsCell
<1> QED
  BY <1>1, Zenon DEF Tells

LEMMA TellsTail ==
  ASSUME NEW s, NEW P, Tells(s, P), s # <<>> PROVE Tells(Tail(s), P) /\ TellsCell(Head(s), P)
<1>1. PICK S : s \in Seq(S) /\ AllTell(S, P)
  BY Zenon DEF Tells
<1>2. Tail(s) \in Seq(S) /\ Head(s) \in S
  BY <1>1
<1> QED
  BY <1>1, <1>2, Zenon DEF Tells, AllTell

LEMMA TellsConcat ==
  ASSUME NEW s, NEW t, NEW P, Tells(s, P), Tells(t, P) PROVE Tells(s \o t, P)
<1>1. PICK S : s \in Seq(S) /\ AllTell(S, P)
  BY Zenon DEF Tells
<1>2. PICK T : t \in Seq(T) /\ AllTell(T, P)
  BY Zenon DEF Tells
<1>3. s \in Seq(S \cup T) /\ t \in Seq(S \cup T)
  BY <1>1, <1>2
<1>4. s \o t \in Seq(S \cup T)
  BY <1>3, ConcatProperties
<1>5. AllTell(S \cup T, P)
  BY <1>1, <1>2 DEF AllTell
<1> QED
  BY <1>4, <1>5, Zenon DEF Tells

LEMMA TellsAppend ==
  ASSUME NEW s, NEW c, NEW P, Tells(s, P), TellsCell(c, P) PROVE Tells(Append(s, c), P)
<1>1. PICK S : s \in Seq(S) /\ AllTell(S, P)
  BY Zenon DEF Tells
<1>2. s \in Seq(S \cup {c}) /\ c \in S \cup {c}
  BY <1>1
<1>3. Append(s, c) \in Seq(S \cup {c})
  BY <1>2
<1>4. AllTell(S \cup {c}, P)
  BY <1>1 DEF AllTell
<1> QED
  BY <1>3, <1>4, Zenon DEF Tells

(* Cells of other kinds tell nothing.                                       *)
LEMMA TellsNoPosition ==
  ASSUME NEW c, c.k \notin AzKinds, c.k \notin ElKinds, NEW P PROVE TellsCell(c, P)
  BY DEF TellsCell

(* The kinds of cells that are about something else.                        *)
OtherKinds == {"C", "S", "W#", " #", "cr", "lf", "+", "?", "AZ#", "EL#", ".#", "ST=#", "GS#", "GE#",
               "CR#", ",#", "*#"}

LEMMA OtherKindsTell == ASSUME NEW k \in OtherKinds, NEW v, NEW P PROVE TellsCell(Cell(k, v), P)
<1>1. k \notin AzKinds /\ k \notin ElKinds
  BY Zenon DEF OtherKinds, AzKinds, ElKinds
<1> QED
  BY <1>1 DEF Cell, TellsCell

LEMMA OneTells == ASSUME NEW c, NEW P, TellsCell(c, P) PROVE Tells(<<c>>, P)
<1>1. <<c>> \in Seq({c})
  OBVIOUS
<1>2. AllTell({c}, P)
  BY DEF AllTell
<1> QED
  BY <1>1, <1>2, Zenon DEF Tells

LEMMA TwoTell ==
  ASSUME NEW c, NEW d, NEW P, TellsCell(c, P), TellsCell(d, P) PROVE Tells(<<c, d>>, P)
<1>1. <<c, d>> \in Seq({c, d})
  OBVIOUS
<1>2. AllTell({c, d}, P)
  BY DEF AllTell
<1> QED
  BY <1>1, <1>2, Zenon DEF Tells

LEMMA ThreeTell ==
  ASSUME NEW c, NEW d, NEW e, NEW P, TellsCell(c, P), TellsCell(d, P), TellsCell(e, P)
  PROVE  Tells(<<c, d, e>>, P)
<1>1. <<c, d, e>> \in Seq({c, d, e})
  OBVIOUS
<1>2. AllTell({c, d, e}, P)
  BY DEF AllTell
<1> QED
  BY <1>1, <1>2, Zenon DEF Tells

(* A response tells a position if it is one.                                *)
LEMMA ResponseTells ==
  ASSUME NEW r, r.kind \in Kinds, NEW P,
         r.kind = "Position" => r \in P /\ r.az \in ThreeDigitNumbers /\ r.el \in ThreeDigitNumbers
  PROVE  Tells(EncodeResponse(r), P) /\ EncodeResponse(r) # <<>>
<1>1. \A k, v : k \in OtherKinds => TellsCell(Cell(k, v), P)
  BY OtherKindsTell
<1>0. /\ "+" \in OtherKinds /\ "?" \in OtherKinds /\ "cr" \in OtherKinds /\ "lf" \in OtherKinds
      /\ "AZ#" \in OtherKinds /\ "EL#" \in OtherKinds /\ ".#" \in OtherKinds
      /\ "ST=#" \in OtherKinds /\ "GS#" \in OtherKinds /\ "GE#" \in OtherKinds
      /\ "CR#" \in OtherKinds /\ ",#" \in OtherKinds
  BY Zenon DEF OtherKinds
<1>2. /\ TellsCell(Word("+"), P) /\ TellsCell(Word("?"), P) /\ TellsCell(CR, P) /\ TellsCell(LF, P)
  BY <1>0, <1>1, Zenon DEF Word, CR, LF
<1>3. \A v : /\ TellsCell(Cell("AZ#", v), P) /\ TellsCell(Cell("EL#", v), P)
             /\ TellsCell(Cell(".#", v), P) /\ TellsCell(Cell("ST=#", v), P)
             /\ TellsCell(Cell("GS#", v), P) /\ TellsCell(Cell("GE#", v), P)
             /\ TellsCell(Cell("CR#", v), P) /\ TellsCell(Cell(",#", v), P)
  BY <1>0, <1>1, Zenon
<1>4. \A a, b : <<a, b>> # <<>> /\ \A c : <<a, b, c>> # <<>>
  OBVIOUS
<1>5. CASE r.kind = "Ack"
  <2>1. EncodeResponse(r) = <<Word("+"), CR>>
    BY <1>5 DEF EncodeResponse
  <2> QED
    BY <1>2, <1>4, <2>1, TwoTell, Zenon
<1>6. CASE r.kind = "Error"
  <2>1. EncodeResponse(r) = <<Word("?"), CR>>
    BY <1>6 DEF EncodeResponse
  <2> QED
    BY <1>2, <1>4, <2>1, TwoTell, Zenon
<1>7. CASE r.kind = "Position"
  <2>1. EncodeResponse(r) = <<Cell("AZ=#", Keep3(r.az)), Cell(" EL=#", Keep3(r.el)), CR>>
    BY <1>7 DEF EncodeResponse
  <2>2. Keep3(r.az) = r.az /\ Keep3(r.el) = r.el
    BY <1>7, Keep3Keeps, Zenon
  <2>3. ASSUME NEW v PROVE Cell("AZ=#", v).k \in AzKinds /\ Cell("AZ=#", v).k \notin ElKinds
    <3>1. "AZ=#" \in AzKinds /\ "AZ=#" \notin ElKinds
      BY Zenon DEF AzKinds, ElKinds
    <3>2. Cell("AZ=#", v).k = "AZ=#"
      BY CellFields, Zenon
    <3> QED
      BY <3>1, <3>2, Zenon
  <2>4. ASSUME NEW v PROVE Cell(" EL=#", v).k \in ElKinds /\ Cell(" EL=#", v).k \notin AzKinds
    <3>1. " EL=#" \in ElKinds /\ " EL=#" \notin AzKinds
      BY Zenon DEF AzKinds, ElKinds
    <3>2. Cell(" EL=#", v).k = " EL=#"
      BY CellFields, Zenon
    <3> QED
      BY <3>1, <3>2, Zenon
  <2>5. TellsCell(Cell("AZ=#", r.az), P) /\ TellsCell(Cell(" EL=#", r.el), P)
    <3>1. Cell("AZ=#", r.az).v = r.az /\ Cell(" EL=#", r.el).v = r.el
      BY CellFields, Zenon
    <3> QED
      BY <1>7, <2>3, <2>4, <3>1, Zenon DEF TellsCell
  <2> QED
    BY <1>2, <1>4, <2>1, <2>2, <2>5, ThreeTell, Zenon
<1>8. CASE r.kind = "AzimuthPosition"
  <2>1. EncodeResponse(r) = <<Cell("AZ#", Keep3(r.deg)), Cell(".#", 0), LF>>
    BY <1>8 DEF EncodeResponse
  <2> QED
    BY <1>2, <1>3, <1>4, <2>1, ThreeTell, Zenon
<1>9. CASE r.kind = "ElevationPosition"
  <2>1. EncodeResponse(r) = <<Cell("EL#", Keep3(r.deg)), Cell(".#", 0), LF>>
    BY <1>9 DEF EncodeResponse
  <2> QED
    BY <1>2, <1>3, <1>4, <2>1, ThreeTell, Zenon
<1>10. CASE r.kind = "Status"
  <2>1. EncodeResponse(r) = <<Cell("ST=#", r.deg), CR>>
    BY <1>10 DEF EncodeResponse
  <2> QED
    BY <1>2, <1>3, <1>4, <2>1, TwoTell, Zenon
<1>11. CASE r.kind = "StatusRegister"
  <2>1. EncodeResponse(r) = <<Cell("GS#", r.deg), LF>>
    BY <1>11 DEF EncodeResponse
  <2> QED
    BY <1>2, <1>3, <1>4, <2>1, TwoTell, Zenon
<1>12. CASE r.kind = "ErrorRegister"
  <2>1. EncodeResponse(r) = <<Cell("GE#", r.deg), LF>>
    BY <1>12 DEF EncodeResponse
  <2> QED
    BY <1>2, <1>3, <1>4, <2>1, TwoTell, Zenon
<1>13. CASE r.kind = "ConfigValue"
  <2>1. EncodeResponse(r) = <<Cell("CR#", r.register), Cell(",#", r.value), LF>>
    BY <1>13 DEF EncodeResponse
  <2> QED
    BY <1>2, <1>3, <1>4, <2>1, ThreeTell, Zenon
<1> QED
  BY <1>5, <1>6, <1>7, <1>8, <1>9, <1>10, <1>11, <1>12, <1>13 DEF Kinds

LEMMA TellsPart ==
  ASSUME NEW s, NEW P, Tells(s, P), NEW n \in 0..Len(s) PROVE Tells(SubSeq(s, 1, n), P)
<1>1. PICK S : s \in Seq(S) /\ AllTell(S, P)
  BY Zenon DEF Tells
<1>2. SubSeq(s, 1, n) \in Seq(S)
  BY <1>1
<1> QED
  BY <1>1, <1>2, Zenon DEF Tells

(* A terminator tells nothing, whatever its number.                         *)
LEMMA TermTells == ASSUME NEW c, IsTerm(c), NEW P PROVE TellsCell(c, P)
<1>1. "cr" \notin AzKinds \cup ElKinds /\ "lf" \notin AzKinds \cup ElKinds
  BY Zenon DEF AzKinds, ElKinds
<1>2. c.k \notin AzKinds /\ c.k \notin ElKinds
  BY <1>1, Zenon DEF IsTerm
<1> QED
  BY <1>2, TellsNoPosition, Zenon

(* So does a checksum.                                                      *)
LEMMA SummedTells ==
  ASSUME NEW s, NEW P, Tells(s, P), s # <<>> PROVE Tells(Summed(s), P) /\ Summed(s) # <<>>
<1> DEFINE c == Cell("*#", XorChecksum(Front(s)))
<1>1. PICK S : s \in Seq(S) /\ AllTell(S, P)
  BY Zenon DEF Tells
<1>2. Front(s) \in Seq(S) /\ Last(s) \in S
  <2>1. Len(s) \in Nat \ {0}
    BY <1>1
  <2>2. SubSeq(s, 1, Len(s) - 1) \in Seq(S) /\ s[Len(s)] \in S
    BY <1>1, <2>1
  <2> QED
    BY <2>2, Zenon DEF Front, Last
<1>3. TellsCell(c, P)
  <2>1. "*#" \in OtherKinds
    BY Zenon DEF OtherKinds
  <2> QED
    BY <2>1, OtherKindsTell, Zenon
<1>4. Summed(s) = Front(s) \o <<c, Last(s)>>
  BY DEF Summed
<1> HIDE DEF c
<1>5. Tells(Front(s), P) /\ TellsCell(Last(s), P)
  BY <1>1, <1>2, Zenon DEF Tells, AllTell
<1>6. Tells(<<c, Last(s)>>, P)
  BY <1>3, <1>5, TwoTell
<1>7. Tells(Front(s) \o <<c, Last(s)>>, P)
  BY <1>5, <1>6, TellsConcat
<1>8. Front(s) \o <<c, Last(s)>> # <<>>
  <2>1. PICK f : f = Front(s)
    OBVIOUS
  <2>2. f \in Seq(S \cup {c}) /\ <<c, Last(s)>> \in Seq(S \cup {c}) /\ Len(<<c, Last(s)>>) = 2
    BY <1>2, <2>1
  <2>3. Len(f \o <<c, Last(s)>>) = Len(f) + 2 /\ Len(f) \in Nat
    BY <2>2
  <2> QED
    BY <2>1, <2>3
<1> QED
  BY <1>4, <1>7, <1>8

(* A reply on the line tells a position if it is one.                       *)
LEMMA ReplyTells ==
  ASSUME NEW r, r = None \/ r.kind \in Kinds, NEW P, NEW sum \in BOOLEAN, NEW id,
         r # None /\ r.kind = "Position"
           => r \in P /\ r.az \in ThreeDigitNumbers /\ r.el \in ThreeDigitNumbers
  PROVE  Tells(ReplyFrame(r, sum, id), P)
<1> DEFINE plain == EncodeResponse(r)
           body  == IF sum THEN Summed(plain) ELSE plain
           cells == IF r = None THEN <<>> ELSE body \o (IF Newlines THEN <<LF>> ELSE <<>>)
           f     == [i \in DOMAIN cells |-> IF IsTerm(cells[i]) THEN Cell(cells[i].k, id) ELSE cells[i]]
<1>1. ReplyFrame(r, sum, id) = f
  BY DEF ReplyFrame
<1>2. Tells(cells, P)
  <2>1. CASE r = None
    BY <2>1, TellsNothing
  <2>2. CASE r # None
    <3>1. Tells(plain, P) /\ plain # <<>>
      BY <2>2, ResponseTells, Zenon
    <3> HIDE DEF plain
    <3>2. Tells(body, P)
      BY <3>1, SummedTells
    <3> HIDE DEF body
    <3>3. Tells(<<LF>>, P)
      BY WordTerms, TermTells, OneTells, Zenon
    <3>4. Tells(IF Newlines THEN <<LF>> ELSE <<>>, P)
      BY <3>3, TellsNothing
    <3>5. Tells(body \o (IF Newlines THEN <<LF>> ELSE <<>>), P)
      BY <3>2, <3>4, TellsConcat
    <3> QED
      BY <2>2, <3>5
  <2> QED
    BY <2>1, <2>2
<1> HIDE DEF cells
<1>3. PICK S : cells \in Seq(S) /\ AllTell(S, P)
  BY <1>2, Zenon DEF Tells
<1> DEFINE T == S \cup {Cell("cr", id), Cell("lf", id)}
<1>4. AllTell(T, P)
  <2>1. TellsCell(Cell("cr", id), P) /\ TellsCell(Cell("lf", id), P)
    BY WordTerms, TermTells, Zenon
  <2> QED
    BY <1>3, <2>1 DEF AllTell
<1>5. ASSUME NEW i \in DOMAIN cells PROVE f[i] \in T
  <2>1. cells[i] \in S
    BY <1>3
  <2> QED
    BY <2>1 DEF IsTerm
<1>6. f \in Seq(T)
  <2> HIDE DEF T
  <2>1. DOMAIN cells = 1..Len(cells) /\ Len(cells) \in Nat
    BY <1>3
  <2> QED
    BY <1>5, <2>1
<1> HIDE DEF f, T
<1> QED
  BY <1>1, <1>4, <1>6, Zenon DEF Tells

LEMMA DecodedAs ==
  ASSUME NEW s, Decode(s).tag = "Ok" PROVE Decode(s) = Ok(Decode(s).resp)
<1>1. \A e : ParseError(e).tag # "Ok"
  BY DEF ParseError
<1>2. \A r : Ok(r) = Ok(Ok(r).resp)
  BY DEF Ok
<1>3. \A p : (\E r : DecodePayload(p) = Ok(r)) \/ (\E e : DecodePayload(p) = ParseError(e))
  BY DecodedForms, Zenon
<1>4. (\E r : Decode(s) = Ok(r)) \/ (\E e : Decode(s) = ParseError(e))
  BY <1>3, Zenon DEF Decode
<1> QED
  BY <1>1, <1>2, <1>4, Zenon

-----------------------------------------------------------------------------
(* Queries on their way to the rotator                                      *)

(* No cell of s is a query, or one at most.                                 *)
NoneAsks(s) == (\E S : s \in Seq(S)) /\ \A i \in 1..Len(s) : s[i].k # "C"

OneAsks(s) ==
  (\E S : s \in Seq(S)) /\ \A i, j \in 1..Len(s) : s[i].k = "C" /\ s[j].k = "C" => i = j

LEMMA NothingAsks == NoneAsks(<<>>)
<1>1. 1..Len(<<>>) = {}
  BY NothingIsText
<1> QED
  BY <1>1, NothingIsText, Zenon DEF NoneAsks

LEMMA NoneIsOne == ASSUME NEW s, NoneAsks(s) PROVE OneAsks(s)
  BY Zenon DEF NoneAsks, OneAsks

LEMMA AsksTail ==
  ASSUME NEW s, s # <<>>, OneAsks(s)
  PROVE  /\ OneAsks(Tail(s))
         /\ Head(s).k = "C" => NoneAsks(Tail(s))
         /\ NoneAsks(s) => NoneAsks(Tail(s)) /\ Head(s).k # "C"
<1>1. PICK S : s \in Seq(S)
  BY DEF OneAsks
<1> DEFINE t == Tail(s)
<1>2. /\ t \in Seq(S) /\ Len(t) = Len(s) - 1 /\ Len(s) \in Nat \ {0} /\ Head(s) = s[1]
      /\ \A i \in 1..Len(t) : t[i] = s[i + 1]
  BY <1>1
<1> HIDE DEF t
<1>3. \A i \in 1..Len(t) : i + 1 \in 1..Len(s) /\ i + 1 # 1 /\ i \in Nat
  BY <1>2
<1>4. 1 \in 1..Len(s) /\ 1..Len(t) \subseteq Nat
  BY <1>2
<1>5. ASSUME NEW i \in 1..Len(t), NEW j \in 1..Len(t), t[i].k = "C", t[j].k = "C" PROVE i = j
  <2>1. i + 1 = j + 1
    BY <1>2, <1>3, <1>5 DEF OneAsks
  <2> QED
    BY <1>3, <2>1
<1>6. ASSUME Head(s).k = "C", NEW i \in 1..Len(t) PROVE t[i].k # "C"
  BY <1>2, <1>3, <1>4, <1>6 DEF OneAsks
<1>7. ASSUME NoneAsks(s) PROVE (\A i \in 1..Len(t) : t[i].k # "C") /\ Head(s).k # "C"
  BY <1>2, <1>3, <1>4, <1>7 DEF NoneAsks
<1>8. OneAsks(t)
  BY <1>2, <1>5, Zenon DEF OneAsks
<1>9. (\A i \in 1..Len(t) : t[i].k # "C") => NoneAsks(t)
  BY <1>2, Zenon DEF NoneAsks
<1> QED
  BY <1>6, <1>7, <1>8, <1>9, Zenon DEF t

LEMMA AsksAppend ==
  ASSUME NEW s, NEW c
  PROVE  /\ NoneAsks(s) => OneAsks(Append(s, c))
         /\ NoneAsks(s) /\ c.k # "C" => NoneAsks(Append(s, c))
         /\ OneAsks(s) /\ c.k # "C" => OneAsks(Append(s, c))
<1> SUFFICES ASSUME OneAsks(s)
             PROVE  /\ NoneAsks(s) => OneAsks(Append(s, c))
                    /\ NoneAsks(s) /\ c.k # "C" => NoneAsks(Append(s, c))
                    /\ OneAsks(s) /\ c.k # "C" => OneAsks(Append(s, c))
  BY NoneIsOne
<1>1. PICK S : s \in Seq(S)
  BY DEF OneAsks
<1> DEFINE t == Append(s, c)
           n == Len(s)
<1>2. s \in Seq(S \cup {c}) /\ c \in S \cup {c}
  BY <1>1
<1>3. /\ t \in Seq(S \cup {c}) /\ Len(t) = n + 1 /\ n \in Nat /\ t[n + 1] = c
      /\ \A i \in 1..n : t[i] = s[i]
  BY <1>2
<1> HIDE DEF t, n
<1>4. \A i \in 1..Len(t) : i \in 1..n \/ i = n + 1
  BY <1>3
<1>5. ASSUME NoneAsks(s) PROVE OneAsks(t)
  <2>1. \A i \in 1..n : t[i].k # "C"
    BY <1>3, <1>5 DEF NoneAsks, n
  <2> QED
    BY <1>3, <1>4, <2>1, Zenon DEF OneAsks
<1>6. ASSUME NoneAsks(s), c.k # "C" PROVE NoneAsks(t)
  <2>1. \A i \in 1..n : t[i].k # "C"
    BY <1>3, <1>6 DEF NoneAsks, n
  <2> QED
    BY <1>3, <1>4, <1>6, <2>1, Zenon DEF NoneAsks
<1>7. ASSUME c.k # "C" PROVE OneAsks(t)
  <2>1. \A i, j \in 1..n : t[i].k = "C" /\ t[j].k = "C" => i = j
    BY <1>3 DEF OneAsks, n
  <2> QED
    BY <1>3, <1>4, <1>7, <2>1, Zenon DEF OneAsks
<1> QED
  BY <1>5, <1>6, <1>7, Zenon DEF t

LEMMA NoneAsksConcat ==
  ASSUME NEW s, NEW t, NoneAsks(s), NoneAsks(t), NEW n \in 0..Len(t)
  PROVE  NoneAsks(s \o SubSeq(t, 1, n))
<1>1. PICK A : s \in Seq(A)
  BY DEF NoneAsks
<1>2. PICK B : t \in Seq(B)
  BY DEF NoneAsks
<1> DEFINE p == SubSeq(t, 1, n)
           q == s \o p
<1>3. p \in Seq(B) /\ Len(p) = n /\ \A i \in 1..n : p[i] = t[i] /\ i \in 1..Len(t)
  BY <1>2
<1>4. \A i \in 1..n : p[i].k # "C"
  BY <1>3 DEF NoneAsks
<1> HIDE DEF p
<1>5. s \in Seq(A \cup B) /\ p \in Seq(A \cup B)
  BY <1>1, <1>3
<1>6. /\ q \in Seq(A \cup B) /\ Len(q) = Len(s) + Len(p)
      /\ \A i \in 1..Len(s) + Len(p) : q[i] = IF i <= Len(s) THEN s[i] ELSE p[i - Len(s)]
  BY <1>5, ConcatProperties, Zenon
<1> HIDE DEF q
<1>7. ASSUME NEW i \in 1..Len(q) PROVE q[i].k # "C"
  <2>1. Len(s) \in Nat /\ Len(p) = n /\ n \in Nat
    BY <1>1, <1>2, <1>3
  <2>2. CASE i <= Len(s)
    <3>1. i \in 1..Len(s) /\ q[i] = s[i]
      BY <1>6, <2>1, <2>2
    <3> QED
      BY <3>1 DEF NoneAsks
  <2>3. CASE ~(i <= Len(s))
    <3>1. i - Len(s) \in 1..n /\ q[i] = p[i - Len(s)]
      BY <1>6, <2>1, <2>3
    <3> QED
      BY <1>4, <3>1
  <2> QED
    BY <2>2, <2>3
<1> QED
  BY <1>6, <1>7, Zenon DEF NoneAsks, p, q

(* Only a frame with the cell of a query is read as one.                    *)
LEMMA QueryHeard ==
  ASSUME NEW f, NoneAsks(f), DecodeCommand(f) # None PROVE DecodeCommand(f).op # "QueryPosition"
<1> DEFINE Asks(d) == d # None /\ d.op = "QueryPosition"
           star == LastOf(f, {"*#"})
           p    == IF star = 0 THEN f ELSE SubSeq(f, 1, star - 1)
<1>1. ASSUME NEW k, k # "C" PROVE ~Asks(Keyword(k))
  BY <1>1 DEF Keyword, None
<1>2. ASSUME NEW s PROVE ~Asks(DecodeFixed(s))
  BY DEF DecodeFixed
<1>3. ASSUME NEW s PROVE ~Asks(DecodeAxes(s))
  <2> DEFINE space == FirstOf(s, {" #", " EL=#", " EL#", "SA SE"})
             left  == SubSeq(s, 1, space - 1)
             right == SubSeq(s, space, Len(s))
             combined == /\ space # 0
                         /\ IsFloat(left, {"AZ#"}) /\ left[1].v <= 360
                         /\ IsFloat(right, {" EL#"}) /\ right[1].v <= 180
             azimuth   == IsFloat(s, {"AZ#"}) /\ s[1].v <= 360
             elevation == IsFloat(s, {"EL#"}) /\ s[1].v <= 180
  <2>1. DecodeAxes(s) =
          IF combined THEN [op |-> "AzimuthElevation", az |-> left[1].v, el |-> right[1].v]
          ELSE IF azimuth THEN [op |-> "Azimuth", az |-> s[1].v]
          ELSE IF elevation THEN [op |-> "Elevation", el |-> s[1].v]
          ELSE None
    BY Zenon DEF DecodeAxes
  <2> HIDE DEF combined, azimuth, elevation, left, right
  <2> QED
    BY <2>1
<1>4. ASSUME NEW s PROVE ~Asks(TryParseEasycomm(s))
  BY <1>3 DEF TryParseEasycomm
<1>5. PICK S : f \in Seq(S)
  BY DEF NoneAsks
<1>6. star \in 0..Len(f)
  BY <1>5, LastOfFound
<1>7. /\ DecodeCommand(f) = IF p = <<>> THEN None
                            ELSE IF Len(p) = 1 /\ Keyword(p[1].k) # None THEN Keyword(p[1].k)
                            ELSE IF DecodeFixed(p) # None THEN DecodeFixed(p)
                            ELSE TryParseEasycomm(p)
  BY Zenon DEF DecodeCommand
<1> HIDE DEF star
<1>8. Len(p) = 1 => p[1].k # "C"
  <2>1. CASE star = 0
    <3>1. p = f
      BY <2>1
    <3> HIDE DEF p
    <3> QED
      BY <1>5, <3>1 DEF NoneAsks
  <2>2. CASE star # 0
    <3>1. p = SubSeq(f, 1, star - 1) /\ star - 1 \in 0..Len(f) /\ Len(f) \in Nat
      BY <1>5, <1>6, <2>2
    <3> HIDE DEF p
    <3>2. Len(p) = star - 1 /\ (Len(p) = 1 => p[1] = f[1] /\ 1 \in 1..Len(f))
      BY <1>5, <3>1
    <3> QED
      BY <3>2 DEF NoneAsks
  <2> QED
    BY <2>1, <2>2
<1> HIDE DEF p, Asks
<1>9. ~Asks(DecodeCommand(f))
  <2>1. ~Asks(None)
    BY DEF Asks
  <2> QED
    BY <1>1, <1>2, <1>4, <1>7, <1>8, <2>1, Zenon
<1> QED
  BY <1>9 DEF Asks

-----------------------------------------------------------------------------
(* The inductive invariant of serial_home                                   *)

Places  == {[kind |-> "Position", az |-> p[1], el |-> p[2]] : p \in Positions}
Told(R) == {p \in Places : \E i \in DOMAIN R : R[i].resp = p}

LEMMA PlaceForm ==
  ASSUME NEW p \in Places
  PROVE  /\ p.kind = "Position" /\ p.az \in ThreeDigitNumbers /\ p.el \in ThreeDigitNumbers
         /\ p = [kind |-> "Position", az |-> p.az, el |-> p.el]
<1>1. PICK q \in Positions : p = [kind |-> "Position", az |-> q[1], el |-> q[2]]
  BY DEF Places
<1>2. q[1] \in ThreeDigitNumbers /\ q[2] \in ThreeDigitNumbers
  BY PositionsAssumption DEF ThreeDigitNumbers
<1> QED
  BY <1>1, <1>2

(* The rotator tells its position only when asked for it.                   *)
LEMMA PlaceAnswers ==
  ASSUME NEW cmd, NEW r \in Firmware(cmd), r # None, r.kind = "Position"
  PROVE  r \in Places /\ cmd # None /\ cmd.op = "QueryPosition"
<1>1. DeviceError.kind # "Position" /\ Ack.kind # "Position"
  BY DEF DeviceError, Ack
<1>2. cmd # None /\ r \in ResponsesTo(cmd)
  BY <1>1 DEF Firmware
<1>3. r \notin IF Rejects THEN {DeviceError} ELSE {}
  BY <1>1
<1>4. CASE cmd.op = "QueryPosition"
  BY <1>2, <1>3, <1>4, Zenon DEF ResponsesTo, Places
<1>5. CASE cmd.op = "QueryAzimuth"
  BY <1>2, <1>3, <1>5 DEF ResponsesTo
<1>6. CASE cmd.op = "QueryElevation"
  BY <1>2, <1>3, <1>6 DEF ResponsesTo
<1>7. CASE cmd.op \in {"QueryStatus", "GetStatusRegister"}
  BY <1>2, <1>3, <1>7 DEF ResponsesTo
<1>8. CASE cmd.op = "GetErrorRegister"
  BY <1>2, <1>3, <1>8 DEF ResponsesTo
<1>9. CASE cmd.op = "ReadConfig"
  BY <1>2, <1>3, <1>9 DEF ResponsesTo
<1>10. CASE cmd.op \notin {"QueryPosition", "QueryAzimuth", "QueryElevation", "QueryStatus",
                           "GetStatusRegister", "GetErrorRegister", "ReadConfig"}
  BY <1>1, <1>2, <1>3, <1>10 DEF ResponsesTo
<1> QED
  BY <1>4, <1>5, <1>6, <1>7, <1>8, <1>9, <1>10

(* serial_home has sent its query, or part of it.                           *)
AskedThird == Len(reports) = 3 \/ (Len(reports) = 2 /\ at = "sent")

(* Whatever of replies is on its way, joined or torn by lost cells, it tells
   no position but what the rotator told.                                   *)
HeardInv ==
  /\ IsText(pbuf) /\ Tells(pbuf, Told(replies))
  /\ Tells(rxq, Told(replies)) /\ Tells(wire, Told(replies))

(* Of the query there is one cell at most, and none before it is sent.      *)
AskInv ==
  /\ \E S : dbuf \in Seq(S)
  /\ \E S : replies \in Seq(S)
  /\ Tells(txq, {})
  /\ OneAsks(txq)
  /\ NoneAsks(dbuf) \/ NoneAsks(txq)
  /\ AskedThird \/ (NoneAsks(dbuf) /\ NoneAsks(txq))

(* And so the rotator tells one position at most.                           *)
ToldOnce ==
  \/ Told(replies) = {}
  \/ NoneAsks(dbuf) /\ NoneAsks(txq) /\ AskedThird /\ \E p : Told(replies) = {p}

ResultInv ==
  result.tag = "Ok" =>
    /\ result = Ok(result.resp)
    /\ result.resp.kind = "Position" => result.resp \in Told(replies)

ShownInv ==
  Len(reports) = 3 /\ reports[3] = "position" => result.tag = "Ok" /\ result.resp.kind = "Position"

HomeParts == HeardInv /\ AskInv /\ ToldOnce /\ ResultInv /\ ShownInv

(* The other programs keep no list.                                         *)
NoList  == prog # "serial_home" => reports = <<>>
HomeInv == ProgInv /\ NoList /\ (prog = "serial_home" => HomeParts)

LEMMA InitHomeInv == ClientInit => HomeInv
<1> SUFFICES ASSUME ClientInit PROVE HomeInv
  OBVIOUS
<1>1. ProgInv
  BY InitClientInv DEF ClientInv
<1>2. /\ rxq = <<>> /\ wire = <<>> /\ pbuf = <<>> /\ txq = <<>> /\ dbuf = <<>> /\ replies = <<>>
      /\ result = Pending /\ reports = <<>>
  BY DEF ClientInit, LinkInit, Init
<1>3. HeardInv
  BY <1>2, NothingIsText, TellsNothing DEF HeardInv
<1>4. AskInv
  BY <1>2, NothingIsText, TellsNothing, NothingAsks, NoneIsOne DEF AskInv
<1>5. ToldOnce
  <2>1. DOMAIN <<>> = {}
    OBVIOUS
  <2> QED
    BY <1>2, <2>1 DEF ToldOnce, Told
<1>6. ResultInv /\ ShownInv
  BY <1>2, NothingIsText DEF ResultInv, ShownInv, Pending
<1> QED
  BY <1>1, <1>2, <1>3, <1>4, <1>5, <1>6 DEF HomeInv, HomeParts, NoList

(* The host reads a cell of text.                                           *)
LEMMA HomeHearsText ==
  ASSUME HeardInv, HostReadsText PROVE HeardInv'
<1> DEFINE c == Head(rxq)
           P == Told(replies)
<1>1. /\ rxq # <<>> /\ ~IsTerm(c) /\ rxq' = Tail(rxq) /\ pbuf' = Feed(pbuf, c).buf
      /\ UNCHANGED <<wire, replies>>
  BY DEF HostReadsText, ReadText, deviceVars
<1>2. Tells(Tail(rxq), P) /\ TellsCell(c, P)
  BY <1>1, TellsTail DEF HeardInv
<1>3. PICK S : pbuf \in Seq(S)
  BY DEF HeardInv, Tells
<1>4. IsText(Append(pbuf, c))
  <2>1. pbuf \in Seq(S \cup {c}) /\ c \in S \cup {c}
    BY <1>3
  <2> HIDE DEF c
  <2> QED
    BY <1>1, <2>1, TextGrows DEF HeardInv
<1>5. Tells(Append(pbuf, c), P)
  BY <1>2, TellsAppend DEF HeardInv
<1>6. pbuf' \in {Append(pbuf, c), <<>>}
  BY <1>1 DEF Feed
<1> HIDE DEF c
<1>7. IsText(pbuf') /\ Tells(pbuf', P)
  BY <1>4, <1>5, <1>6, NothingIsText, TellsNothing
<1> QED
  BY <1>1, <1>2, <1>7 DEF HeardInv

(* A position that send returns is the one the rotator told: azimuth and
   elevation may be from two replies, but there are no two that differ.     *)
LEMMA PlaceHeard ==
  ASSUME HeardInv, ToldOnce, NEW r, Decode(pbuf) = Ok(r), r.kind = "Position"
  PROVE  r \in Told(replies)
<1> DEFINE P == Told(replies)
<1>1. PICK S : pbuf \in Seq(S) /\ AllTell(S, P)
  BY Zenon DEF HeardInv, Tells
<1>2. PICK c, d : /\ c \in S /\ d \in S /\ c.k \in AzKinds /\ d.k \in ElKinds
                  /\ r = [kind |-> "Position", az |-> c.v, el |-> d.v]
  BY <1>1, DecodedPosition DEF HeardInv
<1>3. (\E p \in P : c.v = p.az) /\ (\E p \in P : d.v = p.el)
  BY <1>1, <1>2 DEF AllTell, TellsCell
<1>4. PICK q : P = {q}
  BY <1>3 DEF ToldOnce
<1>5. q \in Places
  BY <1>4 DEF Told
<1> HIDE DEF P
<1>6. c.v = q.az /\ d.v = q.el
  BY <1>3, <1>4
<1> QED
  BY <1>2, <1>4, <1>5, <1>6, PlaceForm DEF P

LEMMA HomeHearsTerm ==
  ASSUME HeardInv, ToldOnce, ResultInv, HostReadsTerm PROVE HeardInv' /\ ResultInv'
<1>1. /\ rxq # <<>> /\ rxq' = Tail(rxq) /\ pbuf' = <<>> /\ UNCHANGED <<wire, replies>>
      /\ UNCHANGED result \/ result' = Decode(pbuf)
  BY DEF HostReadsTerm, ReadTerm, Return, Feed, deviceVars
<1>2. Tells(Tail(rxq), Told(replies))
  BY <1>1, TellsTail DEF HeardInv
<1>3. HeardInv'
  BY <1>1, <1>2, NothingIsText, TellsNothing DEF HeardInv
<1>4. ResultInv'
  <2>1. CASE UNCHANGED result
    BY <1>1, <2>1 DEF ResultInv
  <2>2. CASE result' = Decode(pbuf)
    <3>1. PICK S : pbuf \in Seq(S)
      BY DEF HeardInv, Tells
    <3>2. Decode(pbuf).tag = "Ok" => Decode(pbuf) = Ok(Decode(pbuf).resp)
      BY <3>1, DecodedAs
    <3> QED
      BY <1>1, <2>2, <3>2, PlaceHeard DEF ResultInv
  <2> QED
    BY <1>1, <2>1, <2>2
<1> QED
  BY <1>3, <1>4

(* A cell arrives, or is lost on its way to the host.                       *)
LEMMA HomeCellMoves ==
  ASSUME HeardInv, wire # <<>>, wire' = Tail(wire), UNCHANGED <<pbuf, replies>>,
         UNCHANGED rxq \/ rxq' = Append(rxq, Head(wire))
  PROVE  HeardInv'
<1>1. Tells(Tail(wire), Told(replies)) /\ TellsCell(Head(wire), Told(replies))
  BY TellsTail DEF HeardInv
<1>2. Tells(Append(rxq, Head(wire)), Told(replies))
  BY <1>1, TellsAppend DEF HeardInv
<1> QED
  BY <1>1, <1>2 DEF HeardInv

(* The rotator reads a cell of text.                                        *)
LEMMA RotatorHearsText ==
  ASSUME HeardInv, AskInv, ToldOnce, NEW sum, DeviceRead(sum), ~IsTerm(Head(txq)),
         UNCHANGED <<at, reports>>
  PROVE  HeardInv' /\ AskInv' /\ ToldOnce' /\ UNCHANGED replies
<1> DEFINE c == Head(txq)
<1>1. /\ txq # <<>> /\ txq' = Tail(txq) /\ dbuf' = FeedCommand(dbuf, c).buf
      /\ wire' = wire \o EchoOf(c) /\ UNCHANGED <<replies, rxq, pbuf>>
  BY DEF DeviceRead
<1>2. /\ OneAsks(txq') /\ (c.k = "C" => NoneAsks(txq'))
      /\ NoneAsks(txq) => NoneAsks(txq') /\ c.k # "C"
  BY <1>1, AsksTail DEF AskInv
<1>3. Tells(txq', {}) /\ TellsCell(c, {})
  BY <1>1, TellsTail DEF AskInv
<1> HIDE DEF c
<1>4. PICK S : dbuf \in Seq(S)
  BY DEF AskInv
<1>5. dbuf' \in {Append(dbuf, c), <<>>}
  BY <1>1 DEF FeedCommand, c
<1>6. NoneAsks(dbuf) /\ c.k # "C" => NoneAsks(dbuf')
  BY <1>5, AsksAppend, NothingAsks
<1>7. \E T : dbuf' \in Seq(T)
  <2>1. dbuf \in Seq(S \cup {c}) /\ c \in S \cup {c}
    BY <1>4
  <2>2. Append(dbuf, c) \in Seq(S \cup {c}) /\ <<>> \in Seq(S \cup {c})
    BY <2>1
  <2> QED
    BY <1>5, <2>2
<1>8. AskInv' /\ ToldOnce'
  <2>1. AskedThird' = AskedThird
    BY DEF AskedThird
  <2>2. NoneAsks(dbuf) /\ NoneAsks(txq) => NoneAsks(dbuf') /\ NoneAsks(txq')
    BY <1>2, <1>6
  <2>3. NoneAsks(dbuf') \/ NoneAsks(txq')
    <3>1. NoneAsks(dbuf) \/ NoneAsks(txq)
      BY DEF AskInv
    <3> QED
      BY <1>2, <1>6, <2>2, <3>1
  <2>4. AskInv'
    BY <1>1, <1>2, <1>3, <1>7, <2>1, <2>2, <2>3 DEF AskInv
  <2>5. ToldOnce'
    BY <1>1, <2>1, <2>2 DEF ToldOnce
  <2> QED
    BY <2>4, <2>5
<1>9. HeardInv'
  <2>1. TellsCell(c, Told(replies))
    BY <1>3, Zenon DEF TellsCell
  <2>2. Tells(EchoOf(c), Told(replies))
    BY <2>1, OneTells, TellsNothing DEF EchoOf
  <2>3. Tells(wire', Told(replies))
    BY <1>1, <2>2, TellsConcat DEF HeardInv
  <2> QED
    BY <1>1, <2>3 DEF HeardInv
<1> QED
  BY <1>1, <1>8, <1>9

(* What is told once more is at most what was answered.                     *)
LEMMA ToldMore ==
  ASSUME NEW E, NEW R \in Seq(E), NEW e
  PROVE  /\ e.resp \in Places => Told(Append(R, e)) = Told(R) \cup {e.resp}
         /\ e.resp \notin Places => Told(Append(R, e)) = Told(R)
<1> DEFINE Q == Append(R, e)
<1>1. R \in Seq(E \cup {e}) /\ e \in E \cup {e}
  OBVIOUS
<1>2. /\ DOMAIN Q = 1..(Len(R) + 1) /\ DOMAIN R = 1..Len(R) /\ Len(R) \in Nat
      /\ Q[Len(R) + 1] = e /\ \A i \in 1..Len(R) : Q[i] = R[i]
  BY <1>1
<1> HIDE DEF Q
<1>3. ASSUME NEW p
      PROVE  (\E i \in DOMAIN Q : Q[i].resp = p) <=> (p = e.resp \/ \E i \in DOMAIN R : R[i].resp = p)
  <2>1. ASSUME NEW i \in DOMAIN Q PROVE i = Len(R) + 1 \/ i \in DOMAIN R
    BY <1>2
  <2>2. Len(R) + 1 \in DOMAIN Q /\ DOMAIN R \subseteq DOMAIN Q
    BY <1>2
  <2> QED
    BY <1>2, <2>1, <2>2, Zenon
<1>4. \A p : p \in Told(Q) <=> p \in Places /\ (p = e.resp \/ p \in Told(R))
  BY <1>3, Zenon DEF Told
<1>5. \A p : p \in Told(R) => p \in Places
  BY DEF Told
<1> QED
  BY <1>4, <1>5, Zenon DEF Q

(* The rotator reads a terminator, and answers or does not.                 *)
LEMMA RotatorHearsTerm ==
  ASSUME HeardInv, AskInv, ToldOnce, NEW sum \in BOOLEAN, DeviceRead(sum), IsTerm(Head(txq)),
         UNCHANGED <<at, reports>>
  PROVE  HeardInv' /\ AskInv' /\ ToldOnce' /\ Told(replies) \subseteq Told(replies')
<1> DEFINE c   == Head(txq)
           cmd == DecodeCommand(dbuf)
<1>1. PICK r : /\ r \in Firmware(cmd)
               /\ replies' = Append(replies, [to |-> cmd, resp |-> r])
               /\ wire' = wire \o EchoOf(c) \o ReplyFrame(r, sum, Len(replies'))
  <2>1. FeedCommand(dbuf, c).out = cmd
    BY DEF FeedCommand
  <2> HIDE DEF cmd
  <2> QED
    BY <2>1, Zenon DEF DeviceRead
<1>2. txq # <<>> /\ txq' = Tail(txq) /\ dbuf' = <<>> /\ UNCHANGED <<rxq, pbuf>>
  BY DEF DeviceRead, FeedCommand
<1> HIDE DEF cmd
<1> DEFINE e == [to |-> cmd, resp |-> r]
           P == Told(replies)
           Q == Told(replies')
<1>3. PICK E : replies \in Seq(E)
  BY DEF AskInv
<1>4. /\ r \in Places => Q = P \cup {r}
      /\ r \notin Places => Q = P
  <2>1. e.resp = r
    OBVIOUS
  <2> HIDE DEF e
  <2>2. replies' = Append(replies, e)
    BY <1>1 DEF e
  <2> QED
    BY <1>3, <2>1, <2>2, ToldMore
<1>5. \E T : replies' \in Seq(T)
  <2> HIDE DEF e
  <2>1. replies \in Seq(E \cup {e}) /\ e \in E \cup {e} /\ replies' = Append(replies, e)
    BY <1>1, <1>3 DEF e
  <2>2. replies' \in Seq(E \cup {e})
    BY <2>1
  <2> QED
    BY <2>2
<1> HIDE DEF e
<1>6. /\ OneAsks(txq') /\ (NoneAsks(txq) => NoneAsks(txq')) /\ NoneAsks(dbuf')
  BY <1>2, AsksTail, NothingAsks DEF AskInv
<1>7. AskedThird' = AskedThird
  BY DEF AskedThird
<1>8. ToldOnce'
  <2>1. CASE r \in Places
    <3>1. r # None /\ r.kind = "Position"
      BY <2>1, PlaceForm DEF None, Places
    <3>2. cmd # None /\ cmd.op = "QueryPosition"
      BY <1>1, <3>1, PlaceAnswers
    <3>3. ~NoneAsks(dbuf)
      BY <3>2, QueryHeard DEF cmd
    <3>4. P = {} /\ NoneAsks(txq) /\ AskedThird
      BY <3>3 DEF AskInv, ToldOnce
    <3>5. Q = {r}
      BY <1>4, <2>1, <3>4
    <3> QED
      BY <1>6, <1>7, <3>4, <3>5 DEF ToldOnce
  <2>2. CASE r \notin Places
    BY <1>4, <1>6, <1>7, <2>2 DEF ToldOnce
  <2> QED
    BY <2>1, <2>2
<1>9. P \subseteq Q
  BY <1>4
<1> HIDE DEF c
<1>10. Tells(txq', {}) /\ TellsCell(c, {})
  BY <1>2, TellsTail DEF AskInv, c
<1>11. AskInv'
  BY <1>2, <1>3, <1>5, <1>6, <1>7, <1>10, NothingIsText DEF AskInv
<1>12. HeardInv'
  <2> HIDE DEF P, Q
  <2>1. /\ r = None \/ r.kind \in Kinds
        /\ r # None /\ r.kind = "Position"
             => r \in Q /\ r.az \in ThreeDigitNumbers /\ r.el \in ThreeDigitNumbers
    BY <1>1, <1>4, FirmwareAnswers, PlaceAnswers, PlaceForm
  <2>2. Tells(ReplyFrame(r, sum, Len(replies')), Q)
    BY <2>1, ReplyTells, Zenon
  <2>3. TellsCell(c, Q)
    BY <1>10, Zenon DEF TellsCell
  <2>4. Tells(EchoOf(c), Q)
    BY <2>3, OneTells, TellsNothing DEF EchoOf
  <2>5. Tells(wire, Q) /\ Tells(rxq, Q) /\ Tells(pbuf, Q)
    BY <1>9, TellsMore DEF HeardInv, P
  <2>6. Tells(wire \o EchoOf(c), Q)
    BY <2>4, <2>5, TellsConcat
  <2>7. Tells(wire', Q)
    BY <1>1, <2>2, <2>6, TellsConcat
  <2> QED
    BY <1>2, <2>5, <2>7 DEF HeardInv, Q
<1> QED
  BY <1>8, <1>9, <1>11, <1>12

(* What serial_home sends.                                                  *)
LEMMA HomeFrames ==
  /\ EncodeInto(HomeCommands[1]) = <<Word("S"), CR>>
  /\ EncodeInto(HomeCommands[2]) = <<Cell("W#", 0), Cell(" #", 0), CR>>
  /\ EncodeInto(HomeCommands[3]) = <<C, CR>>
<1>1. HomeCommands[1] = Stop /\ HomeCommands[2] = Home /\ HomeCommands[3] = Query
  BY DEF HomeCommands
<1>2. Payload(Stop) = <<Word("S")>>
  BY DEF Payload, Stop
<1>3. Payload(Home) = <<Cell("W#", 0), Cell(" #", 0)>>
  <2>1. Home.op = "AzimuthElevation" /\ Home.az = 0 /\ Home.el = 0
    BY DEF Home
  <2> QED
    BY <2>1, Zenon DEF Payload
<1> QED
  BY <1>1, <1>2, <1>3, QueryIsSpoken, AppendToOne, AppendToTwo, Zenon DEF EncodeInto

LEMMA StartsWithOne == \A a : Append(<<>>, a) = <<a>>
  OBVIOUS

LEMMA HomeFramesTell ==
  /\ \A i \in 1..3 : Tells(EncodeInto(HomeCommands[i]), {})
  /\ NoneAsks(EncodeInto(HomeCommands[1])) /\ NoneAsks(EncodeInto(HomeCommands[2]))
<1>1. /\ "S" \in OtherKinds /\ "W#" \in OtherKinds /\ " #" \in OtherKinds /\ "C" \in OtherKinds
      /\ "S" # "C" /\ "W#" # "C" /\ " #" # "C" /\ "cr" # "C" /\ "cr" \in OtherKinds
  BY Zenon DEF OtherKinds
<1>2. /\ TellsCell(Word("S"), {}) /\ TellsCell(Cell("W#", 0), {}) /\ TellsCell(Cell(" #", 0), {})
      /\ TellsCell(C, {}) /\ TellsCell(CR, {})
  BY <1>1, OtherKindsTell, Zenon DEF Word, C, CR
<1>3. /\ Word("S").k # "C" /\ Cell("W#", 0).k # "C" /\ Cell(" #", 0).k # "C" /\ CR.k # "C"
  BY <1>1, CellFields, Zenon DEF Word, CR
<1>4. NoneAsks(<<Word("S"), CR>>)
  <2>1. Append(Append(<<>>, Word("S")), CR) = <<Word("S"), CR>>
    BY StartsWithOne, AppendToOne, Zenon
  <2> QED
    BY <1>3, <2>1, NothingAsks, AsksAppend, Zenon
<1>5. NoneAsks(<<Cell("W#", 0), Cell(" #", 0), CR>>)
  <2>1. ASSUME NEW a, NEW b, NEW c PROVE Append(Append(Append(<<>>, a), b), c) = <<a, b, c>>
    <3>1. Append(<<>>, a) = <<a>> /\ Append(<<a>>, b) = <<a, b>>
      BY StartsWithOne, AppendToOne
    <3>2. Append(<<a, b>>, c) = <<a, b, c>>
      BY AppendToTwo, Zenon
    <3> QED
      BY <3>1, <3>2, Zenon
  <2>2. NoneAsks(Append(Append(Append(<<>>, Cell("W#", 0)), Cell(" #", 0)), CR))
    BY <1>3, NothingAsks, AsksAppend, Zenon
  <2> QED
    BY <2>1, <2>2, Zenon
<1>6. /\ Tells(<<Word("S"), CR>>, {}) /\ Tells(<<C, CR>>, {})
      /\ Tells(<<Cell("W#", 0), Cell(" #", 0), CR>>, {})
  BY <1>2, TwoTell, ThreeTell, Zenon
<1>7. \A i \in 1..3 : i = 1 \/ i = 2 \/ i = 3
  OBVIOUS
<1> QED
  BY <1>4, <1>5, <1>6, <1>7, HomeFrames, Zenon

(* serial_home sends a command, or a part of it.                            *)
LEMMA FrameSent ==
  ASSUME NoneAsks(txq), Tells(txq, {}), NEW i \in 1..3, NEW n \in 0..Len(EncodeInto(HomeCommands[i])),
         txq' = txq \o SubSeq(EncodeInto(HomeCommands[i]), 1, n)
  PROVE  Tells(txq', {}) /\ OneAsks(txq') /\ (i # 3 => NoneAsks(txq'))
<1>1. Tells(txq', {})
  BY HomeFramesTell, TellsPart, TellsConcat
<1>2. ASSUME i # 3 PROVE NoneAsks(txq')
  <2>1. i = 1 \/ i = 2
    BY <1>2
  <2> QED
    BY <2>1, HomeFramesTell, NoneAsksConcat
<1>3. ASSUME i = 3 PROVE OneAsks(txq')
  <2>1. PICK S : txq \in Seq(S)
    BY DEF NoneAsks
  <2> DEFINE one == Append(txq, C)
             two == Append(one, CR)
  <2>2. Len(<<C, CR>>) = 2
    OBVIOUS
  <2>3. n = 0 \/ n = 1 \/ n = 2
    <3>1. Len(EncodeInto(HomeCommands[i])) = 2
      BY <1>3, <2>2, HomeFrames, Zenon
    <3>2. n \in 0..2
      BY <3>1
    <3> QED
      BY <3>2
  <2>4. txq' = txq \o SubSeq(<<C, CR>>, 1, n)
    BY <1>3, HomeFrames
  <2>5. txq \in Seq(S \cup {C, CR})
    BY <2>1
  <2>6. txq \o <<C, CR>> = two /\ txq \o <<C>> = one /\ txq \o <<>> = txq
    BY <2>5
  <2>7. txq' \in {txq, one, two}
    BY <2>3, <2>4, <2>6, PartsOfTwo
  <2>8. CR.k # "C"
    BY DEF CR, Word, Cell
  <2>9. OneAsks(one)
    BY AsksAppend
  <2> HIDE DEF one
  <2>10. OneAsks(two)
    BY <2>8, <2>9, AsksAppend
  <2> QED
    BY <2>7, <2>9, <2>10, NoneIsOne
<1> QED
  BY <1>1, <1>2, <1>3, NoneIsOne

LEMMA CallKeepsHome ==
  ASSUME ProgInv, HomeParts, prog = "serial_home", Call PROVE HomeParts'
<1> DEFINE i   == Len(reports) + 1
           cmd == HomeCommands[i]
<1>1. /\ HostSend(cmd) /\ at = "call" /\ at' = "sent" /\ UNCHANGED reports
  BY DEF Call, PollCalls, HomeCalls, CliCalls
<1>2. i \in 1..3 /\ Len(reports) \in Nat /\ Len(reports) = i - 1
  BY <1>1, HomeHasThree DEF ProgInv
<1> HIDE DEF i
<1>3. ~AskedThird /\ (i = 3 => AskedThird')
  BY <1>1, <1>2 DEF AskedThird
<1>4. NoneAsks(dbuf) /\ NoneAsks(txq) /\ Told(replies) = {} /\ Tells(txq, {})
  BY <1>3 DEF HomeParts, AskInv, ToldOnce
<1>5. /\ UNCHANGED <<rxq, wire, dbuf, pbuf, replies>> /\ result'.tag # "Ok"
      /\ \E n \in 0..Len(EncodeInto(cmd)) : txq' = txq \o SubSeq(EncodeInto(cmd), 1, n)
  <2> DEFINE f == EncodeInto(cmd)
  <2>1. PICK F : f \in Seq(F)
    BY <1>2, HomeFramesTell DEF Tells
  <2>2. PICK S : txq \in Seq(S)
    BY <1>4 DEF NoneAsks
  <2>3. SubSeq(f, 1, Len(f)) = f /\ SubSeq(f, 1, 0) = <<>> /\ txq \o <<>> = txq
        /\ Len(f) \in 0..Len(f) /\ 0 \in 0..Len(f)
    BY <2>1, <2>2, SubSeqFull
  <2> HIDE DEF f, cmd
  <2>4. /\ UNCHANGED <<rxq, wire, dbuf, pbuf, replies>>
        /\ result' \in {InvalidParam, Pending, Transport}
        /\ \/ txq' = txq
           \/ txq' = txq \o f
           \/ \E n \in 0..Len(f) : txq' = txq \o SubSeq(f, 1, n)
    BY <1>1 DEF HostSend, SendInvalid, SendWrite, SendWriteFails, deviceVars, f
  <2>5. result'.tag # "Ok"
    BY <2>4 DEF InvalidParam, Pending, Transport
  <2> QED
    BY <2>3, <2>4, <2>5 DEF f
<1>6. Tells(txq', {}) /\ OneAsks(txq') /\ (i # 3 => NoneAsks(txq'))
  BY <1>2, <1>4, <1>5, FrameSent
<1> HIDE DEF cmd
<1>7. HeardInv' /\ ResultInv'
  BY <1>5 DEF HomeParts, HeardInv, ResultInv
<1>8. AskInv' /\ ToldOnce'
  BY <1>3, <1>4, <1>5, <1>6 DEF HomeParts, AskInv, ToldOnce
<1>9. ShownInv'
  BY <1>1, <1>2 DEF ShownInv
<1> QED
  BY <1>7, <1>8, <1>9 DEF HomeParts

(* The third line is about a position only if send returned one.            *)
LEMMA ThirdVerdict ==
  ASSUME NEW r, Verdict(3, r) = "position" PROVE r.tag = "Ok" /\ r.resp.kind = "Position"
<1>1. Verdict(3, r) = IF r.tag # "Ok" THEN "error"
                      ELSE IF r.resp.kind = "Position" THEN "position" ELSE "unexpected"
  <2>1. 3 # 1 /\ 3 # 2
    OBVIOUS
  <2> QED
    BY <2>1, Zenon DEF Verdict
<1> QED
  BY <1>1

LEMMA PrintKeepsHome ==
  ASSUME ProgInv, HomeParts, prog = "serial_home", PrintResult PROVE HomeParts'
<1> DEFINE v == Verdict(Len(reports) + 1, result)
<1>1. /\ UNCHANGED linkVars /\ reports' = Append(reports, v) /\ at = "sent"
  BY DEF PrintResult, Returned, PollPrints, HomePrints, CliPrints
<1>2. UNCHANGED <<rxq, wire, txq, dbuf, pbuf, replies, result>>
  BY <1>1 DEF linkVars, vars, deviceVars
<1>3. PICK S : reports \in Seq(S)
  BY DEF ProgInv
<1>4. Len(reports) \in Nat /\ Len(reports) < 3
  BY <1>1, <1>3, HomeHasThree DEF ProgInv
<1>5. Len(reports') = Len(reports) + 1 /\ reports'[Len(reports) + 1] = v
  <2> HIDE DEF v
  <2>1. reports \in Seq(S \cup {v}) /\ v \in S \cup {v}
    BY <1>3
  <2> QED
    BY <1>1, <2>1
<1>6. AskedThird => AskedThird'
  BY <1>4, <1>5 DEF AskedThird
<1>7. ShownInv'
  <2> SUFFICES ASSUME Len(reports') = 3, reports'[3] = "position"
               PROVE  result'.tag = "Ok" /\ result'.resp.kind = "Position"
    BY DEF ShownInv
  <2>1. Len(reports) + 1 = 3
    BY <1>4, <1>5
  <2>2. Verdict(3, result) = "position"
    BY <1>5, <2>1
  <2> QED
    BY <1>2, <2>2, ThirdVerdict
<1>8. HeardInv' /\ AskInv' /\ ToldOnce' /\ ResultInv'
  BY <1>2, <1>6 DEF HomeParts, HeardInv, AskInv, ToldOnce, ResultInv
<1> QED
  BY <1>7, <1>8 DEF HomeParts

(* While the rotator or the line is at work, only what is on its way changes,
   and while send reads, there is no third line yet.                        *)
LEMMA ReceiveKeepsHome ==
  ASSUME ProgInv, HomeParts, prog = "serial_home", Receive PROVE HomeParts'
<1>1. pc = "reading" /\ UNCHANGED <<at, reports, txq, dbuf, replies>>
  BY DEF Receive, HostReads, HostReadsText, HostReadsTerm, HostGivesUp, ReadText, ReadTerm,
         ReadNothing, ReadFails, deviceVars
<1>2. Len(reports) # 3
  <2>1. at = "sent" /\ Len(HomeCommands) = 3
    BY <1>1, HomeHasThree DEF ProgInv
  <2>2. Len(reports) < 3
    BY <2>1 DEF ProgInv
  <2> QED
    BY <2>2
<1>3. AskInv' /\ ToldOnce' /\ ShownInv'
  BY <1>1, <1>2 DEF HomeParts, AskInv, ToldOnce, ShownInv, AskedThird
<1>4. CASE HostReadsText
  <2>1. UNCHANGED <<result, replies>>
    BY <1>4 DEF HostReadsText, ReadText, deviceVars
  <2> QED
    BY <1>3, <1>4, <2>1, HomeHearsText DEF HomeParts, ResultInv
<1>5. CASE HostReadsTerm
  BY <1>3, <1>5, HomeHearsTerm DEF HomeParts
<1>6. CASE HostGivesUp
  <2>1. UNCHANGED <<rxq, wire, pbuf, replies>> /\ result' \in {Timeout, Transport}
    BY <1>6 DEF HostGivesUp, ReadNothing, ReadFails, Return, deviceVars
  <2>2. result'.tag # "Ok"
    BY <2>1 DEF Timeout, Transport
  <2> QED
    BY <1>3, <2>1, <2>2 DEF HomeParts, HeardInv, ResultInv
<1> QED
  BY <1>4, <1>5, <1>6 DEF Receive, HostReads

LEMMA HomeStep == ASSUME HomeInv, [ClientNext]_clientVars PROVE HomeInv'
<1>1. ProgInv' /\ ProgInv
  BY ProgStep DEF HomeInv
<1>0. NoList'
  BY DEF HomeInv, NoList, ClientNext, Call, PrintResult, PollPrints, HomePrints, CliPrints, CliEnds,
         Receive, Transmit, Rotator, Lose, clientVars
<1> SUFFICES ASSUME prog = "serial_home", HomeParts PROVE HomeParts'
  <2>1. UNCHANGED prog
    BY DEF ClientNext, Call, PrintResult, CliEnds, Receive, Transmit, Rotator, Lose, clientVars
  <2> QED
    BY <1>0, <1>1, <2>1 DEF HomeInv
<1>2. CASE Transmit
  <2>1. /\ UNCHANGED <<txq, dbuf, replies, pbuf, result, at, reports>> /\ wire # <<>>
        /\ rxq' = Append(rxq, Head(wire)) /\ wire' = Tail(wire)
    BY <1>2 DEF Transmit, Deliver
  <2> QED
    BY <2>1, HomeCellMoves DEF HomeParts, AskInv, ToldOnce, ResultInv, ShownInv, AskedThird
<1>3. CASE Rotator
  <2>1. PICK sum \in BOOLEAN : DeviceRead(sum)
    BY <1>3, SwitchesAssumption DEF Rotator
  <2>2. UNCHANGED <<at, reports, result>>
    BY <1>3, <2>1 DEF Rotator, DeviceRead
  <2>3. HeardInv' /\ AskInv' /\ ToldOnce' /\ Told(replies) \subseteq Told(replies')
    BY <2>1, <2>2, RotatorHearsText, RotatorHearsTerm DEF HomeParts
  <2>4. ResultInv' /\ ShownInv'
    BY <2>2, <2>3 DEF HomeParts, ResultInv, ShownInv
  <2> QED
    BY <2>3, <2>4 DEF HomeParts
<1>4. CASE Lose
  <2>1. UNCHANGED <<rxq, dbuf, replies, pbuf, result, at, reports>>
    BY <1>4 DEF Lose
  <2>2. CASE wire # <<>> /\ wire' = Tail(wire) /\ UNCHANGED txq
    BY <2>1, <2>2, HomeCellMoves DEF HomeParts, AskInv, ToldOnce, ResultInv, ShownInv, AskedThird
  <2>3. CASE txq # <<>> /\ txq' = Tail(txq) /\ UNCHANGED wire
    <3>1. Tells(txq', {}) /\ OneAsks(txq') /\ (NoneAsks(txq) => NoneAsks(txq'))
      BY <2>3, TellsTail, AsksTail DEF HomeParts, AskInv
    <3> QED
      BY <2>1, <2>3, <3>1 DEF HomeParts, HeardInv, AskInv, ToldOnce, ResultInv, ShownInv, AskedThird
  <2> QED
    BY <1>4, <2>2, <2>3 DEF Lose
<1>5. CASE UNCHANGED clientVars
  <2>1. UNCHANGED <<rxq, txq, wire, dbuf, replies, pbuf, result, at, reports>>
    BY <1>5 DEF clientVars, linkVars, vars, deviceVars
  <2> QED
    BY <2>1 DEF HomeParts, HeardInv, AskInv, ToldOnce, ResultInv, ShownInv, AskedThird
<1>6. ~CliEnds
  BY DEF CliEnds
<1> QED
  BY <1>1, <1>2, <1>3, <1>4, <1>5, <1>6, CallKeepsHome, PrintKeepsHome, ReceiveKeepsHome DEF ClientNext

(* The position serial_home ends with is one the rotator reported, though sends
   before it failed, cells were lost, and replies were torn and joined.     *)
THEOREM ClientHomePositionGenuine == ClientSpec => []HomePositionGenuine
<1>1. HomeInv => HomePositionGenuine
  <2> SUFFICES ASSUME HomeInv, Len(reports) = 3, reports[3] = "position"
               PROVE  result.resp \in Reported
    BY DEF HomePositionGenuine
  <2>1. prog = "serial_home"
    BY NothingIsText DEF HomeInv, NoList
  <2>2. result.resp \in Told(replies)
    BY <2>1 DEF HomeInv, HomeParts, ShownInv, ResultInv
  <2> QED
    BY <2>2 DEF Told, Reported
<1>2. HomeInv /\ [ClientNext]_clientVars => HomeInv'
  BY HomeStep
<1> QED
  BY <1>1, <1>2, InitHomeInv, PTL DEF ClientSpec

-----------------------------------------------------------------------------
(* Refusals                                                                 *)

(* One odd byte has an odd checksum.                                        *)
LEMMA OddByte ==
  ASSUME NEW s, DOMAIN s = {1}, s[1] \in Nat, s[1] % 2 = 1
  PROVE  XorAll(s) \in Nat /\ XorAll(s) % 2 = 1
<1>1. IsFiniteSet(DOMAIN s)
  BY FS_Singleton
<1>2. \A i : Parity(s, i) \in 0..1
  BY <1>1, ParityIsBit
<1>3. Parity(s, 0) = 1
  <2>1. Bit(s[1], 0) = 1
    <3>1. 2^0 = 1 /\ s[1] \div 1 = s[1]
      OBVIOUS
    <3> QED
      BY <3>1 DEF Bit
  <2>2. {j \in DOMAIN s : Bit(s[j], 0) = 1} = {1}
    BY <2>1
  <2>3. Cardinality({1}) = 1
    BY FS_Singleton
  <2> QED
    BY <2>2, <2>3 DEF Parity
<1> QED
  BY <1>2, <1>3 DEF XorAll

LEMMA RefusalSummed == XorChecksum(<<Word("?")>>) # 0
<1> DEFINE c == Word("?")
           f == [i \in DOMAIN <<c>> |-> XorAll(<<Label(<<c>>[i])>> \o Chars(<<c>>[i]))]
<1>1. c.k = "?"
  BY DEF Word, Cell
<1>2. Label(c) = 63
  BY <1>1, Zenon DEF Label, LabelOf
<1>3. Chars(c) = <<>>
  <2>1. /\ "?" \notin ThreeDigits /\ "?" \notin Decimal /\ "?" # ".#" /\ "?" # "*#"
    BY Zenon DEF ThreeDigits, Decimal
  <2> QED
    BY <1>1, <2>1, Zenon DEF Chars
<1> HIDE DEF c
<1>4. DOMAIN <<c>> = {1} /\ <<c>>[1] = c
  OBVIOUS
<1>5. DOMAIN f = {1} /\ f[1] = XorAll(<<Label(c)>> \o Chars(c))
  BY <1>4
<1>6. <<63>> \o <<>> = <<63>> /\ DOMAIN <<63>> = {1} /\ <<63>>[1] = 63 /\ 63 % 2 = 1 /\ 63 \in Nat
  OBVIOUS
<1>7. f[1] = XorAll(<<63>>)
  BY <1>2, <1>3, <1>5, <1>6
<1>8. f[1] \in Nat /\ f[1] % 2 = 1
  BY <1>6, <1>7, OddByte
<1>9. XorChecksum(<<c>>) = XorAll(f)
  BY DEF XorChecksum
<1> HIDE DEF f
<1>10. XorAll(f) \in Nat /\ XorAll(f) % 2 = 1
  BY <1>5, <1>8, OddByte
<1> QED
  BY <1>9, <1>10 DEF c

(* The cells of a refusal, with a checksum or without.                      *)
RefusalCells == {Word("?"), Cell("*#", XorChecksum(<<Word("?")>>))} \cup {Cell("cr", id) : id \in Nat}

(* They are not read as an acknowledgement, however many of them are lost.  *)
LEMMA RefusalIsNoAck ==
  ASSUME NEW s \in Seq(RefusalCells), IsText(s) PROVE Decode(s) # Ok(Ack)
<1> SUFFICES ASSUME Decode(s) = Ok(Ack) PROVE FALSE
  OBVIOUS
<1>1. PICK p \in Seq(RefusalCells) :
        /\ DecodePayload(p) = Ok(Ack)
        /\ \/ p = s /\ s # <<>>
           \/ \E i \in 1..Len(s) : s[i].k = "*#" /\ s[i].v = XorChecksum(p)
  BY DecodedPart
<1>2. p \in {<<>>, <<Word("+")>>}
  <2>1. \A x, y : Ack # [kind |-> "Position", az |-> x, el |-> y]
    BY DEF Ack
  <2>2. Ack.kind = "Ack"
    BY DEF Ack
  <2> QED
    BY <1>1, <2>1, <2>2, DecodedForms, OkDiffers
<1>3. CASE p = <<Word("+")>>
  <2>1. Word("+") \in RefusalCells
    <3>1. \A c : <<c>> \in Seq(RefusalCells) => c \in RefusalCells
      <4> SUFFICES ASSUME NEW c, <<c>> \in Seq(RefusalCells) PROVE c \in RefusalCells
        OBVIOUS
      <4>1. <<c>>[1] = c /\ 1 \in 1..Len(<<c>>)
        OBVIOUS
      <4> QED
        BY <4>1, ElementOfSeq
    <3> QED
      BY <1>3, <3>1
  <2> QED
    BY <2>1 DEF RefusalCells, Word, Cell
<1>4. CASE p = <<>>
  <2>1. PICK i \in 1..Len(s) : s[i].k = "*#" /\ s[i].v = 0
    BY <1>1, <1>4, NothingSummed
  <2>2. s[i] \in RefusalCells
    BY <2>1
  <2>3. ASSUME NEW c \in RefusalCells, c.k = "*#" PROVE c.v # 0
    <3>1. c = Cell("*#", XorChecksum(<<Word("?")>>))
      BY <2>3 DEF RefusalCells, Word, Cell
    <3> QED
      BY <3>1, CellFields, RefusalSummed
  <2> QED
    BY <2>1, <2>2, <2>3
<1> QED
  BY <1>2, <1>3, <1>4

LEMMA RefusalFrame ==
  ASSUME Newlines = FALSE, NEW r \in {DeviceError, None}, NEW sum \in BOOLEAN, NEW id \in Nat
  PROVE  ReplyFrame(r, sum, id) \in Seq(RefusalCells)
<1> DEFINE q == Word("?")
           k == Cell("*#", XorChecksum(<<q>>))
           D == {q, k, CR}
           plain == EncodeResponse(r)
           body  == IF sum THEN Summed(plain) ELSE plain
           cells == IF r = None THEN <<>> ELSE body \o (IF Newlines THEN <<LF>> ELSE <<>>)
           f     == [i \in DOMAIN cells |-> IF IsTerm(cells[i]) THEN Cell(cells[i].k, id) ELSE cells[i]]
<1>1. ReplyFrame(r, sum, id) = f
  BY DEF ReplyFrame
<1>2. cells \in Seq(D)
  <2>1. CASE r = None
    BY <2>1
  <2>2. CASE r # None
    <3>1. r.kind = "Error"
      BY <2>2 DEF DeviceError
    <3>2. plain = <<q, CR>>
      BY <3>1 DEF EncodeResponse
    <3>3. Summed(plain) = <<q>> \o <<k, CR>>
      <4>1. IsText(<<q>>)
        <5>1. ~IsTerm(q)
          BY DEF IsTerm, Word, Cell
        <5> QED
          BY <5>1, OneCellIsText
      <4> HIDE DEF q, k
      <4>2. Append(<<q>>, CR) = <<q, CR>>
        BY AppendToOne, Zenon
      <4>3. Front(Append(<<q>>, CR)) = <<q>> /\ Last(Append(<<q>>, CR)) = CR
        BY <4>1, FrontOfFrame
      <4>4. Front(<<q, CR>>) = <<q>> /\ Last(<<q, CR>>) = CR
        BY <4>2, <4>3
      <4>5. Summed(<<q, CR>>) = <<q>> \o <<Cell("*#", XorChecksum(<<q>>)), CR>>
        BY <4>4, Zenon DEF Summed
      <4> QED
        BY <3>2, <4>5 DEF k
    <3> HIDE DEF q, k, plain
    <3>4. <<q, CR>> \in Seq(D) /\ <<q>> \in Seq(D) /\ <<k, CR>> \in Seq(D)
      OBVIOUS
    <3> HIDE DEF D
    <3>5. <<q>> \o <<k, CR>> \in Seq(D)
      BY <3>4, ConcatProperties
    <3>6. body \in Seq(D)
      BY <3>2, <3>3, <3>4, <3>5
    <3> HIDE DEF body
    <3>7. body \o <<>> = body
      BY <3>6
    <3>8. cells = body \o <<>>
      BY <2>2, Zenon
    <3> QED
      BY <3>6, <3>7, <3>8, Zenon
  <2> QED
    BY <2>1, <2>2
<1>3. ASSUME NEW c \in D PROVE (IF IsTerm(c) THEN Cell(c.k, id) ELSE c) \in RefusalCells
  <2>1. CASE c = CR
    <3>1. IsTerm(c) /\ c.k = "cr"
      BY <2>1 DEF IsTerm, CR, Word, Cell
    <3>2. Cell("cr", id) \in RefusalCells
      BY DEF RefusalCells
    <3> QED
      BY <3>1, <3>2
  <2>2. CASE c \in {q, k}
    <3>1. ~IsTerm(c)
      BY <2>2 DEF IsTerm, Word, Cell
    <3>2. c \in RefusalCells
      BY <2>2 DEF RefusalCells
    <3> QED
      BY <3>1, <3>2
  <2> QED
    BY <2>1, <2>2
<1> HIDE DEF cells, D
<1>4. ASSUME NEW i \in DOMAIN cells PROVE f[i] \in RefusalCells
  BY <1>2, <1>3
<1>5. DOMAIN cells = 1..Len(cells) /\ Len(cells) \in Nat
  BY <1>2
<1> QED
  BY <1>1, <1>4, <1>5

-----------------------------------------------------------------------------
(* One terminator, at the end                                               *)
TermLast(s) == (\E S : s \in Seq(S)) /\ \A i \in 1..Len(s) : IsTerm(s[i]) => i = Len(s)

LEMMA NothingEnds == TermLast(<<>>)
  BY NothingIsText, Zenon DEF TermLast, IsText

LEMMA LineEnds == ASSUME NEW s, IsLine(s) PROVE TermLast(s)
  BY Zenon DEF IsLine, TermLast

LEMMA TextEnds == ASSUME NEW S, NEW s \in Seq(S), IsText(s), NEW c PROVE TermLast(Append(s, c))
<1> DEFINE t == Append(s, c)
<1>1. s \in Seq(S \cup {c}) /\ c \in S \cup {c}
  OBVIOUS
<1>2. /\ t \in Seq(S \cup {c}) /\ Len(t) = Len(s) + 1 /\ Len(s) \in Nat
      /\ \A i \in 1..Len(s) : t[i] = s[i]
  BY <1>1
<1> HIDE DEF t
<1>3. \A i \in 1..Len(t) : i \in 1..Len(s) \/ i = Len(t)
  BY <1>2
<1>4. \A i \in 1..Len(s) : ~IsTerm(s[i])
  BY DEF IsText
<1>5. \A i \in 1..Len(t) : IsTerm(t[i]) => i = Len(t)
  BY <1>2, <1>3, <1>4, Zenon
<1> QED
  BY <1>2, <1>5, Zenon DEF TermLast, t

(* A terminator that comes first comes last.                                *)
LEMMA EndsTail ==
  ASSUME NEW s, s # <<>>, TermLast(s)
  PROVE  /\ TermLast(Tail(s)) /\ (IsTerm(Head(s)) => Tail(s) = <<>>)
         /\ IsText(s) => IsText(Tail(s)) /\ ~IsTerm(Head(s))
<1>1. PICK S : s \in Seq(S)
  BY DEF TermLast
<1> DEFINE t == Tail(s)
<1>2. /\ t \in Seq(S) /\ Len(t) = Len(s) - 1 /\ Len(s) \in Nat \ {0} /\ Head(s) = s[1]
      /\ \A i \in 1..Len(t) : t[i] = s[i + 1]
  BY <1>1
<1>3. Len(s) = 1 => t = <<>>
  BY <1>1
<1> HIDE DEF t
<1>4. \A i \in 1..Len(t) : i + 1 \in 1..Len(s) /\ (i + 1 = Len(s) => i = Len(t))
  BY <1>2
<1>5. 1 \in 1..Len(s)
  BY <1>2
<1>6. \A i \in 1..Len(t) : IsTerm(t[i]) => i = Len(t)
  BY <1>2, <1>4, Zenon DEF TermLast
<1>7. IsTerm(Head(s)) => t = <<>>
  BY <1>2, <1>3, <1>5 DEF TermLast
<1>8. IsText(s) => (\A i \in 1..Len(t) : ~IsTerm(t[i])) /\ ~IsTerm(Head(s))
  BY <1>2, <1>4, <1>5, Zenon DEF IsText
<1> QED
  BY <1>2, <1>6, <1>7, <1>8, Zenon DEF TermLast, IsText, t

-----------------------------------------------------------------------------
(* What the rotator makes of the homing command                             *)
W == Cell("W#", 0)
P == Cell(" #", 0)

(* What it may have read of it.                                             *)
HomeParted == {<<>>, <<W>>, <<P>>, <<W, P>>}

HalfKinds   == {"W#", " #"}
SpacedKinds == {" #", " EL=#", " EL#", "SA SE"}

LEMMA HalfIsNothing ==
  ASSUME NEW c, c.k \in HalfKinds PROVE DecodeCommand(<<c>>) = None
<1> DEFINE s == <<c>>
           space == FirstOf(s, SpacedKinds)
           left  == SubSeq(s, 1, space - 1)
           right == SubSeq(s, space, Len(s))
<1>1. s \in Seq({c}) /\ Len(s) = 1 /\ s[1] = c /\ s # <<>> /\ Len(s) # 2 /\ Len(s) # 3
  OBVIOUS
<1>2. /\ c.k # "*#" /\ c.k \notin {"AZ#"} /\ c.k \notin {"EL#"} /\ c.k # "A#" /\ c.k # "E#"
      /\ c.k \notin {"VL#", "VR#", "VU#", "VD#", "CW#", "CR#", "GS", "GS#"}
      /\ c.k \notin {"C", "S", "SA SE", "SA", "SE", "?", "GS", "GE", "AZ", "EL", "RESET", "PARK"}
  BY Zenon DEF HalfKinds
<1>3. Keyword(c.k) = None
  BY <1>2, Zenon DEF Keyword
<1> HIDE DEF s
<1>4. DecodeFixed(s) = None
  BY <1>1, <1>2, Zenon DEF DecodeFixed
<1>5. left = <<>>
  <2> HIDE DEF space
  <2>1. space # 0 => space \in 1..Len(s)
    BY <1>1, FirstOfFound DEF space
  <2>2. space \in {0, 1}
    BY <1>1, <2>1
  <2>3. SubSeq(s, 1, 0 - 1) = <<>> /\ SubSeq(s, 1, 1 - 1) = <<>>
    BY <1>1
  <2> QED
    BY <2>2, <2>3
<1>6. ~IsFloat(left, {"AZ#"})
  BY <1>5, Zenon DEF IsFloat
<1>7. ~IsFloat(s, {"AZ#"}) /\ ~IsFloat(s, {"EL#"})
  BY <1>1, <1>2, Zenon DEF IsFloat
<1>8. DecodeAxes(s) = None
  BY <1>6, <1>7, Zenon DEF DecodeAxes, SpacedKinds
<1>9. TryParseEasycomm(s) = None
  BY <1>1, <1>2, <1>8, Zenon DEF TryParseEasycomm
<1>10. NoStar(s)
  BY <1>2, OneNoStar DEF s
<1> QED
  BY <1>1, <1>3, <1>4, <1>9, <1>10, DecodeBare, Zenon DEF s

LEMMA HomeHeard ==
  ASSUME NEW b \in HomeParted PROVE DecodeCommand(b) \in {Home, None}
<1>1. CASE b = <<>>
  <2>1. LastOf(<<>>, {"*#"}) = 0
    <3>1. \A i \in 1..Len(<<>>) : (<<>>)[i].k \notin {"*#"}
      BY NothingIsText
    <3> QED
      BY <3>1, LastOfNone, Zenon
  <2> QED
    BY <1>1, <2>1, Zenon DEF DecodeCommand
<1>2. CASE b = <<W>> \/ b = <<P>>
  <2>1. W.k \in HalfKinds /\ P.k \in HalfKinds
    BY CellFields, Zenon DEF W, P, HalfKinds
  <2>2. DecodeCommand(<<W>>) = None /\ DecodeCommand(<<P>>) = None
    BY <2>1, HalfIsNothing, Zenon
  <2> QED
    BY <1>2, <2>2, Zenon
<1>3. CASE b = <<W, P>>
  <2>1. Home \in AnyCommand /\ Home.op = "AzimuthElevation" /\ InRange(Home)
    <3>1. 0 \in U16Values
      BY DEF U16Values
    <3>2. Home \in [op : {"AzimuthElevation"}, az : U16Values, el : U16Values]
      BY <3>1 DEF Home
    <3>3. Home \in AnyCommand
      BY <3>2, Zenon DEF AnyCommand, CommandsOver
    <3> QED
      BY <3>3 DEF Home, InRange
  <2>2. PICK heard : HeardFor(heard, Home)
    BY <2>1, PayloadHeard, Zenon
  <2>3. Payload(Home) = <<W, P>>
    <3>1. Home.az = 0 /\ Home.el = 0
      BY DEF Home
    <3> QED
      BY <2>1, <3>1, Zenon DEF Payload, W, P
  <2>4. Home.op # "QueryStatus" /\ Home.op # "Offset"
    BY <2>1
  <2>5. DecodeCommand(<<W, P>>) = Home
    BY <2>2, <2>3, <2>4, Zenon DEF HeardFor, Spoken
  <2> QED
    BY <1>3, <2>5, Zenon
<1> QED
  BY <1>1, <1>2, <1>3, Zenon DEF HomeParted

(* To the homing command the rotator answers that it obeys, that it does not,
   or nothing; to a part of it never that it obeys.                         *)
LEMMA HomeAnswered ==
  ASSUME NEW cmd \in {Home, None}, NEW r \in Firmware(cmd)
  PROVE  r \in {DeviceError, None} \/ (r = Ack /\ cmd = Home)
<1>1. CASE cmd = None
  BY <1>1 DEF Firmware
<1>2. CASE cmd = Home /\ cmd # None
  <2>1. cmd.op = "AzimuthElevation"
    BY <1>2 DEF Home
  <2>2. ResponsesTo(cmd) \subseteq {Ack, DeviceError}
    BY <2>1 DEF ResponsesTo
  <2> QED
    BY <1>2, <2>2 DEF Firmware
<1> QED
  BY <1>1, <1>2

-----------------------------------------------------------------------------
(* What serial_home says about homing                                       *)

Silent == rxq = <<>> /\ wire = <<>> /\ pbuf = <<>>
Quiet  == Silent /\ txq = <<>> /\ dbuf = <<>>

(* The phases of its first two sends, until it is settled what it prints or
   what the rotator does.                                                   *)
StopNext   == at = "call" /\ Len(reports) = 0 /\ pc = "idle" /\ Quiet /\ Len(replies) = 0
StopUnread ==
  at = "sent" /\ Len(reports) = 0 /\ pc = "reading" /\ Silent /\ TermLast(txq) /\ Len(replies) = 0
StopRead ==
  /\ at = "sent" /\ Len(reports) = 0 /\ pc = "reading" /\ txq = <<>> /\ dbuf = <<>>
  /\ Len(replies) = 1
  /\ TermLast(rxq) /\ TermLast(wire) /\ (IsText(rxq) \/ wire = <<>>)
StopAnswered == at = "sent" /\ Len(reports) = 0 /\ pc = "idle" /\ Quiet /\ Len(replies) = 1
StopFailed   == at = "sent" /\ Len(reports) = 0 /\ pc = "idle" /\ result.tag # "Ok"
NotStopped   == Len(reports) >= 1 /\ reports[1] # "stopped"

Unread ==
  \/ txq = <<W, P, CR>> /\ dbuf = <<>>
  \/ txq = <<P, CR>> /\ dbuf \in {<<>>, <<W>>}
  \/ txq = <<CR>> /\ dbuf \in HomeParted
  \/ txq = <<>>

HomeNext   == at = "call" /\ Len(reports) = 1 /\ pc = "idle" /\ Quiet /\ Len(replies) = 1
HomeUnread ==
  at = "sent" /\ Len(reports) = 1 /\ pc = "reading" /\ Silent /\ Unread /\ Len(replies) = 1
HomeRefused ==
  /\ at = "sent" /\ Len(reports) = 1 /\ pc = "reading" /\ txq = <<>>
  /\ pbuf \in Seq(RefusalCells) /\ rxq \in Seq(RefusalCells) /\ wire \in Seq(RefusalCells)
HomeFailed == at = "sent" /\ Len(reports) = 1 /\ pc = "idle" /\ result # Ok(Ack)
HomeObeyed == at = "sent" /\ Len(reports) = 1 /\ Obeyed(2, Ack)
HomeShown  == Len(reports) >= 2 /\ (reports[2] = "accepted" => Obeyed(2, Ack))

StopPhase == StopNext \/ StopUnread \/ StopRead \/ StopAnswered \/ StopFailed
HomePhase == HomeNext \/ HomeUnread \/ HomeRefused \/ HomeFailed \/ HomeObeyed
SomePhase == StopPhase \/ NotStopped \/ HomePhase \/ HomeShown
ToldInv   == HomeInv /\ (prog = "serial_home" => SomePhase)

RepliesGrow == UNCHANGED replies \/ \E e : replies' = Append(replies, e)

(* What the rotator did is not undone.                                      *)
LEMMA StillObeyed ==
  ASSUME RepliesGrow, AskInv, Obeyed(2, Ack) PROVE Obeyed(2, Ack)'
<1>1. CASE UNCHANGED replies
  BY <1>1 DEF Obeyed, HomeCommands, Stop, Home, Query, Ack
<1>2. CASE \E e : replies' = Append(replies, e)
  <2>1. PICK e : replies' = Append(replies, e)
    BY <1>2
  <2>2. PICK E : replies \in Seq(E)
    BY DEF AskInv
  <2>3. replies \in Seq(E \cup {e}) /\ e \in E \cup {e}
    BY <2>2
  <2>4. Len(replies') = Len(replies) + 1 /\ Len(replies) \in Nat
        /\ \A i \in 1..Len(replies) : replies'[i] = replies[i]
    BY <2>1, <2>3
  <2>5. Len(replies) >= 2
    BY DEF Obeyed
  <2>6. replies'[2] = replies[2] /\ Len(replies') >= 2
    BY <2>4, <2>5
  <2> QED
    BY <2>6 DEF Obeyed, HomeCommands, Stop, Home, Query, Ack
<1> QED
  BY <1>1, <1>2 DEF RepliesGrow

(* Nor is what serial_home printed.                                         *)
LEMMA StillSettled ==
  ASSUME RepliesGrow, AskInv, UNCHANGED reports
  PROVE  /\ NotStopped \/ HomeShown => SomePhase'
         /\ HomeObeyed /\ UNCHANGED at => SomePhase'
<1>1. NotStopped => NotStopped'
  BY DEF NotStopped
<1>2. HomeShown => HomeShown'
  BY StillObeyed DEF HomeShown
<1>3. HomeObeyed /\ UNCHANGED at => HomeObeyed'
  BY StillObeyed DEF HomeObeyed
<1> QED
  BY <1>1, <1>2, <1>3 DEF SomePhase, HomePhase

(* A step of the line or the rotator changes no result.                     *)
LEMMA StillFailed ==
  ASSUME RepliesGrow, AskInv, UNCHANGED <<at, reports, pc, result>>,
         NotStopped \/ HomeShown \/ HomeObeyed \/ StopFailed \/ HomeFailed
  PROVE  SomePhase'
<1>1. CASE StopFailed
  <2>1. StopFailed'
    BY <1>1 DEF StopFailed
  <2> QED
    BY <2>1 DEF StopPhase, SomePhase
<1>2. CASE HomeFailed
  <2>1. HomeFailed'
    BY <1>2 DEF HomeFailed, Ok, Ack
  <2> QED
    BY <2>1 DEF HomePhase, SomePhase
<1> QED
  BY <1>1, <1>2, StillSettled

LEMMA NoFrame == ASSUME NEW sum, NEW id PROVE ReplyFrame(None, sum, id) = <<>>
<1> DEFINE plain == EncodeResponse(None)
           cells == IF None = None THEN <<>>
                    ELSE (IF sum THEN Summed(plain) ELSE plain) \o (IF Newlines THEN <<LF>> ELSE <<>>)
           f == [i \in DOMAIN cells |-> IF IsTerm(cells[i]) THEN Cell(cells[i].k, id) ELSE cells[i]]
<1>1. ReplyFrame(None, sum, id) = f
  BY DEF ReplyFrame
<1>2. cells = <<>>
  OBVIOUS
<1> HIDE DEF cells
<1>3. DOMAIN cells = {}
  BY <1>2
<1> QED
  BY <1>1, <1>3

(* A cell of a command reaches the rotator.                                 *)
LEMMA RotatorTakes ==
  ASSUME Echoes = FALSE, HeardInv, NEW sum, DeviceRead(sum)
  PROVE  /\ txq # <<>> /\ txq' = Tail(txq) /\ UNCHANGED <<rxq, pbuf, pc, result>> /\ RepliesGrow
         /\ ~IsTerm(Head(txq)) =>
              UNCHANGED <<replies, wire>> /\ dbuf' \in {Append(dbuf, Head(txq)), <<>>}
         /\ IsTerm(Head(txq)) =>
              /\ dbuf' = <<>>
              /\ \E r \in Firmware(DecodeCommand(dbuf)) :
                   /\ replies' = Append(replies, [to |-> DecodeCommand(dbuf), resp |-> r])
                   /\ wire' = wire \o ReplyFrame(r, sum, Len(replies'))
<1> DEFINE c   == Head(txq)
           cmd == DecodeCommand(dbuf)
<1>1. PICK S : wire \in Seq(S)
  BY DEF HeardInv, Tells
<1>2. EchoOf(c) = <<>> /\ wire \o <<>> = wire
  BY <1>1 DEF EchoOf
<1>3. txq # <<>> /\ txq' = Tail(txq) /\ UNCHANGED <<rxq, pbuf, pc, result>>
  BY DEF DeviceRead
<1>4. CASE IsTerm(c)
  <2>1. FeedCommand(dbuf, c).out = cmd /\ FeedCommand(dbuf, c).buf = <<>>
    BY <1>4 DEF FeedCommand
  <2> HIDE DEF cmd, c
  <2>2. PICK r \in Firmware(cmd) :
               /\ replies' = Append(replies, [to |-> cmd, resp |-> r])
               /\ wire' = wire \o EchoOf(c) \o ReplyFrame(r, sum, Len(replies'))
    BY <1>4, <2>1, Zenon DEF DeviceRead, c
  <2>3. wire' = wire \o ReplyFrame(r, sum, Len(replies'))
    BY <1>2, <2>2
  <2>4. dbuf' = <<>>
    BY <2>1 DEF DeviceRead, c
  <2>5. RepliesGrow
    BY <2>2 DEF RepliesGrow
  <2> QED
    BY <1>3, <1>4, <2>2, <2>3, <2>4, <2>5, Zenon DEF c, cmd
<1>5. CASE ~IsTerm(c)
  <2>1. dbuf' \in {Append(dbuf, c), <<>>}
    BY <1>5 DEF DeviceRead, FeedCommand
  <2>2. UNCHANGED replies /\ wire' = wire \o EchoOf(c)
    BY <1>5 DEF DeviceRead
  <2> QED
    BY <1>2, <1>3, <1>5, <2>1, <2>2 DEF RepliesGrow
<1> QED
  BY <1>4, <1>5

LEMMA OneGone == \A a, b, c : /\ Head(<<a, b, c>>) = a /\ Tail(<<a, b, c>>) = <<b, c>>
                              /\ Head(<<a, b>>) = a /\ Tail(<<a, b>>) = <<b>>
                              /\ Head(<<a>>) = a /\ Tail(<<a>>) = <<>>
<1> SUFFICES ASSUME NEW a, NEW b, NEW c
             PROVE  /\ Head(<<a, b, c>>) = a /\ Tail(<<a, b, c>>) = <<b, c>>
                    /\ Head(<<a, b>>) = a /\ Tail(<<a, b>>) = <<b>>
                    /\ Head(<<a>>) = a /\ Tail(<<a>>) = <<>>
  OBVIOUS
<1>1. Head(<<a, b, c>>) = a /\ Head(<<a, b>>) = a /\ Head(<<a>>) = a /\ Tail(<<a>>) = <<>>
  OBVIOUS
<1>2. Tail(<<a, b>>) = <<b>>
  OBVIOUS
<1>3. Tail(<<a, b, c>>) = <<b, c>>
  OBVIOUS
<1> QED
  BY <1>1, <1>2, <1>3

(* serial_home sends its next command.                                      *)
LEMMA CallKeepsTold ==
  ASSUME ProgInv, HomeParts, prog = "serial_home", SomePhase, Call PROVE SomePhase'
<1> DEFINE cmd == HomeCommands[Len(reports) + 1]
<1>1. /\ HostSend(cmd) /\ at = "call" /\ at' = "sent" /\ UNCHANGED reports
  BY DEF Call, PollCalls, HomeCalls, CliCalls
<1> DEFINE f == EncodeInto(cmd)
           Went == /\ pc' = "reading" /\ txq' = txq \o f /\ UNCHANGED <<rxq, wire, pbuf, dbuf>>
           Stuck == pc' = "idle" /\ result'.tag # "Ok"
<1>2. UNCHANGED replies /\ (Went \/ Stuck)
  <2> HIDE DEF cmd
  <2>1. /\ UNCHANGED <<rxq, wire, dbuf, pbuf, replies>>
        /\ \/ pc' = "reading" /\ txq' = txq \o f
           \/ pc' = "idle" /\ result' \in {InvalidParam, Transport}
    BY <1>1 DEF HostSend, SendInvalid, SendWrite, SendWriteFails, deviceVars
  <2> QED
    BY <2>1 DEF InvalidParam, Transport
<1>3. RepliesGrow /\ AskInv
  BY <1>2 DEF RepliesGrow, HomeParts
<1>4. CASE StopNext
  <2>1. cmd = HomeCommands[1] /\ Len(reports) = 0 /\ Quiet /\ Len(replies) = 0
    BY <1>4 DEF StopNext
  <2>2. IsLine(f)
    BY <2>1, HomeHasThree, CommandIsLine
  <2> HIDE DEF f, cmd
  <2>3. PICK F : f \in Seq(F)
    BY <2>2 DEF IsLine
  <2>4. TermLast(f) /\ <<>> \o f = f
    BY <2>2, <2>3, LineEnds
  <2>5. CASE Went
    <3>1. StopUnread'
      BY <1>1, <1>2, <2>1, <2>4, <2>5 DEF StopUnread, Quiet, Silent
    <3> QED
      BY <3>1 DEF StopPhase, SomePhase
  <2>6. CASE Stuck
    <3>1. StopFailed'
      BY <1>1, <2>1, <2>6 DEF StopFailed
    <3> QED
      BY <3>1 DEF StopPhase, SomePhase
  <2> QED
    BY <1>2, <2>5, <2>6
<1>5. CASE HomeNext
  <2>1. cmd = HomeCommands[2] /\ Len(reports) = 1 /\ Quiet /\ Len(replies) = 1
    BY <1>5 DEF HomeNext
  <2>2. f = <<W, P, CR>>
    BY <2>1, HomeFrames, Zenon DEF W, P
  <2> HIDE DEF f, cmd
  <2>4. <<>> \o <<W, P, CR>> = <<W, P, CR>>
    OBVIOUS
  <2>5. CASE Went
    <3>1. txq' = <<W, P, CR>> /\ dbuf' = <<>>
      BY <2>1, <2>2, <2>4, <2>5 DEF Quiet
    <3>2. Unread'
      BY <3>1 DEF Unread, W, P, CR
    <3>3. HomeUnread'
      BY <1>1, <1>2, <2>1, <2>5, <3>2 DEF HomeUnread, Quiet, Silent
    <3> QED
      BY <3>3 DEF HomePhase, SomePhase
  <2>6. CASE Stuck
    <3>1. HomeFailed'
      BY <1>1, <2>1, <2>6 DEF HomeFailed, Ok
    <3> QED
      BY <3>1 DEF HomePhase, SomePhase
  <2> QED
    BY <1>2, <2>5, <2>6
<1>6. CASE NotStopped \/ HomeShown
  BY <1>1, <1>3, <1>6, StillSettled
<1>7. StopNext \/ HomeNext \/ NotStopped \/ HomeShown
  BY <1>1 DEF SomePhase, StopPhase, HomePhase, StopUnread, StopRead, StopAnswered, StopFailed,
              HomeUnread, HomeRefused, HomeFailed, HomeObeyed
<1> QED
  BY <1>4, <1>5, <1>6, <1>7

(* What it prints is "stopped" only if Stop was answered, and "accepted" only
   if send returned an acknowledgement.                                     *)
LEMMA FirstVerdict == ASSUME NEW r, r.tag # "Ok" PROVE Verdict(1, r) # "stopped"
  BY DEF Verdict

LEMMA SecondVerdict ==
  ASSUME NEW r, Verdict(2, r) = "accepted" PROVE r.tag = "Ok" /\ r.resp = Ack
<1>1. Verdict(2, r) = IF r.tag # "Ok" THEN "error"
                      ELSE IF r.resp = Ack THEN "accepted"
                      ELSE IF r.resp = DeviceError THEN "rejected" ELSE "unexpected"
  <2>1. 2 # 1 /\ 2 # 3
    OBVIOUS
  <2> QED
    BY <2>1, Zenon DEF Verdict
<1> QED
  BY <1>1

LEMMA PrintKeepsTold ==
  ASSUME ProgInv, HomeParts, prog = "serial_home", SomePhase, PrintResult PROVE SomePhase'
<1> DEFINE v == Verdict(Len(reports) + 1, result)
<1>1. /\ UNCHANGED linkVars /\ reports' = Append(reports, v) /\ at = "sent" /\ pc = "idle"
      /\ at' = IF Len(reports') = Len(HomeCommands) THEN "ended" ELSE "call"
  BY DEF PrintResult, Returned, PollPrints, HomePrints, CliPrints
<1>2. UNCHANGED <<rxq, wire, txq, dbuf, pbuf, replies, result, pc>>
  BY <1>1 DEF linkVars, vars, deviceVars
<1>3. PICK S : reports \in Seq(S)
  BY DEF ProgInv
<1>4. /\ Len(reports') = Len(reports) + 1 /\ Len(reports) \in Nat
      /\ reports'[Len(reports) + 1] = v /\ \A i \in 1..Len(reports) : reports'[i] = reports[i]
  <2> HIDE DEF v
  <2>1. reports \in Seq(S \cup {v}) /\ v \in S \cup {v}
    BY <1>3
  <2> QED
    BY <1>1, <2>1
<1>5. RepliesGrow /\ AskInv /\ (Obeyed(2, Ack) => Obeyed(2, Ack)')
  BY <1>2, StillObeyed DEF RepliesGrow, HomeParts
<1>6. CASE StopAnswered
  <2>1. Len(reports') = 1 /\ at' = "call"
    BY <1>1, <1>4, <1>6, HomeHasThree DEF StopAnswered
  <2>2. HomeNext'
    BY <1>1, <1>2, <1>6, <2>1 DEF StopAnswered, HomeNext, Quiet, Silent
  <2> QED
    BY <2>2 DEF HomePhase, SomePhase
<1>7. CASE StopFailed
  <2>1. Len(reports') = 1 /\ reports'[1] = Verdict(1, result)
    BY <1>4, <1>7 DEF StopFailed
  <2>2. NotStopped'
    BY <1>7, <2>1, FirstVerdict DEF StopFailed, NotStopped
  <2> QED
    BY <2>2 DEF SomePhase
<1>8. CASE NotStopped
  <2>1. 1 \in 1..Len(reports)
    BY <1>4, <1>8 DEF NotStopped
  <2>2. reports'[1] = reports[1] /\ Len(reports') >= 1
    BY <1>4, <2>1
  <2>3. NotStopped'
    BY <1>8, <2>2 DEF NotStopped
  <2> QED
    BY <2>3 DEF SomePhase
<1>9. CASE HomeFailed
  <2>1. Len(reports') = 2 /\ reports'[2] = Verdict(2, result)
    BY <1>4, <1>9 DEF HomeFailed
  <2>2. result.tag = "Ok" => result.resp # Ack
    BY <1>9 DEF HomeFailed, HomeParts, ResultInv
  <2>3. reports'[2] # "accepted"
    BY <2>1, <2>2, SecondVerdict
  <2>4. HomeShown'
    BY <2>1, <2>3 DEF HomeShown
  <2> QED
    BY <2>4 DEF SomePhase
<1>10. CASE HomeObeyed
  <2>1. Len(reports') = 2
    BY <1>4, <1>10 DEF HomeObeyed
  <2>2. HomeShown'
    BY <1>5, <1>10, <2>1 DEF HomeObeyed, HomeShown
  <2> QED
    BY <2>2 DEF SomePhase
<1>11. CASE HomeShown
  <2>1. 2 \in 1..Len(reports)
    BY <1>4, <1>11 DEF HomeShown
  <2>2. reports'[2] = reports[2] /\ Len(reports') >= 2
    BY <1>4, <2>1
  <2>3. HomeShown'
    BY <1>5, <1>11, <2>2 DEF HomeShown
  <2> QED
    BY <2>3 DEF SomePhase
<1> QED
  BY <1>1, <1>6, <1>7, <1>8, <1>9, <1>10, <1>11
  DEF SomePhase, StopPhase, HomePhase, StopNext, StopUnread, StopRead, HomeNext, HomeUnread, HomeRefused

LEMMA CellsTaken ==
  \A D : \A s \in Seq(D) : /\ s # <<>> => Tail(s) \in Seq(D) /\ Head(s) \in D
                          /\ \A c \in D : Append(s, c) \in Seq(D)
                          /\ <<>> \in Seq(D)
  OBVIOUS

(* send waits for an answer.                                                *)
LEMMA ReceiveKeepsTold ==
  ASSUME HomeParts, SomePhase, Receive PROVE SomePhase'
<1>1. pc = "reading" /\ UNCHANGED <<at, reports, txq, dbuf, wire, replies>>
  BY DEF Receive, HostReads, HostReadsText, HostReadsTerm, HostGivesUp, ReadText, ReadTerm,
         ReadNothing, ReadFails, deviceVars
<1> DEFINE c       == Head(rxq)
           Took    == rxq # <<>> /\ rxq' = Tail(rxq)
           Text    == /\ Took /\ ~IsTerm(c) /\ UNCHANGED <<pc, result>>
                      /\ pbuf' \in {Append(pbuf, c), <<>>}
           Term    == /\ Took /\ IsTerm(c) /\ pbuf' = <<>>
                      /\ UNCHANGED <<pc, result>> \/ (pc' = "idle" /\ result' = Decode(pbuf))
           GaveUp  == UNCHANGED <<rxq, pbuf>> /\ pc' = "idle" /\ result'.tag # "Ok"
<1>2. Text \/ Term \/ GaveUp
  <2>1. CASE HostReadsText
    BY <2>1 DEF HostReadsText, ReadText, Feed
  <2>2. CASE HostReadsTerm
    BY <2>2 DEF HostReadsTerm, ReadTerm, Feed, Return
  <2>3. CASE HostGivesUp
    BY <2>3 DEF HostGivesUp, ReadNothing, ReadFails, Return, Timeout, Transport
  <2> QED
    BY <2>1, <2>2, <2>3 DEF Receive, HostReads
<1> HIDE DEF c
<1>3. RepliesGrow /\ AskInv
  BY <1>1 DEF RepliesGrow, HomeParts
<1>4. CASE NotStopped \/ HomeShown \/ HomeObeyed
  BY <1>1, <1>3, <1>4, StillSettled
<1>5. CASE (StopUnread \/ StopRead) /\ GaveUp
  <2>1. StopFailed'
    BY <1>1, <1>5 DEF StopUnread, StopRead, StopFailed
  <2> QED
    BY <2>1 DEF StopPhase, SomePhase
<1>6. CASE (HomeUnread \/ HomeRefused) /\ GaveUp
  <2>1. HomeFailed'
    BY <1>1, <1>6 DEF HomeUnread, HomeRefused, HomeFailed, Ok
  <2> QED
    BY <2>1 DEF HomePhase, SomePhase
<1>7. CASE StopRead /\ (Text \/ Term)
  <2>1. /\ TermLast(rxq') /\ (IsTerm(c) => rxq' = <<>>) /\ (IsText(rxq) => IsText(rxq') /\ ~IsTerm(c))
    BY <1>7, EndsTail DEF StopRead, c
  <2>2. CASE UNCHANGED pc
    <3>1. StopRead'
      BY <1>1, <1>7, <2>1, <2>2 DEF StopRead
    <3> QED
      BY <3>1 DEF StopPhase, SomePhase
  <2>3. CASE Term /\ pc' = "idle"
    <3>1. rxq' = <<>> /\ wire' = <<>> /\ pbuf' = <<>>
      BY <1>1, <1>7, <2>1, <2>3 DEF StopRead
    <3>2. StopAnswered'
      BY <1>1, <1>7, <2>3, <3>1 DEF StopRead, StopAnswered, Quiet, Silent
    <3> QED
      BY <3>2 DEF StopPhase, SomePhase
  <2> QED
    BY <1>7, <2>2, <2>3
<1>8. CASE HomeRefused /\ (Text \/ Term)
  <2>1. rxq' \in Seq(RefusalCells) /\ c \in RefusalCells
    BY <1>8, CellsTaken, Zenon DEF HomeRefused, c
  <2>2. pbuf' \in Seq(RefusalCells)
    <3>1. Append(pbuf, c) \in Seq(RefusalCells) /\ <<>> \in Seq(RefusalCells)
      BY <1>8, <2>1, CellsTaken, Zenon DEF HomeRefused
    <3> QED
      BY <1>8, <3>1
  <2>3. CASE UNCHANGED pc
    <3>1. HomeRefused'
      BY <1>1, <1>8, <2>1, <2>2, <2>3 DEF HomeRefused, RefusalCells, Word, Cell
    <3> QED
      BY <3>1 DEF HomePhase, SomePhase
  <2>4. CASE Term /\ pc' = "idle" /\ result' = Decode(pbuf)
    <3>1. Decode(pbuf) # Ok(Ack)
      BY <1>8, RefusalIsNoAck DEF HomeRefused, HomeParts, HeardInv
    <3>2. HomeFailed'
      BY <1>1, <1>8, <2>4, <3>1 DEF HomeRefused, HomeFailed, Ok, Ack
    <3> QED
      BY <3>2 DEF HomePhase, SomePhase
  <2> QED
    BY <1>8, <2>3, <2>4
<1>9. CASE (StopUnread \/ HomeUnread) /\ (Text \/ Term)
  BY <1>9 DEF StopUnread, HomeUnread, Silent
<1> QED
  BY <1>1, <1>2, <1>4, <1>5, <1>6, <1>7, <1>8, <1>9
  DEF SomePhase, StopPhase, HomePhase, StopNext, StopAnswered, StopFailed, HomeNext, HomeFailed

(* A cell of a reply arrives or is lost.                                    *)
LEMMA MoveKeepsTold ==
  ASSUME HomeParts, SomePhase, wire # <<>>, wire' = Tail(wire),
         UNCHANGED rxq \/ rxq' = Append(rxq, Head(wire)),
         UNCHANGED <<txq, dbuf, pbuf, pc, result, replies, at, reports>>
  PROVE  SomePhase'
<1> DEFINE c == Head(wire)
<1>1. RepliesGrow /\ AskInv
  BY DEF RepliesGrow, HomeParts
<1>2. CASE NotStopped \/ HomeShown \/ HomeObeyed \/ StopFailed \/ HomeFailed
  BY <1>1, <1>2, StillFailed
<1>3. CASE StopRead
  <2>1. TermLast(wire') /\ (IsTerm(c) => wire' = <<>>)
    BY <1>3, EndsTail DEF StopRead
  <2>2. IsText(rxq)
    BY <1>3 DEF StopRead
  <2>3. PICK S : rxq \in Seq(S)
    BY <2>2 DEF IsText
  <2>4. TermLast(Append(rxq, c))
    BY <2>2, <2>3, TextEnds
  <2>5. ~IsTerm(c) => IsText(Append(rxq, c))
    <3>1. rxq \in Seq(S \cup {c}) /\ c \in S \cup {c}
      BY <2>3
    <3> QED
      BY <2>2, <3>1, TextGrows
  <2> HIDE DEF c
  <2>6. TermLast(rxq') /\ (IsText(rxq') \/ wire' = <<>>)
    BY <1>3, <2>1, <2>2, <2>4, <2>5 DEF StopRead, c
  <2>7. StopRead'
    BY <1>3, <2>1, <2>6 DEF StopRead
  <2> QED
    BY <2>7 DEF StopPhase, SomePhase
<1>4. CASE HomeRefused
  <2>1. wire' \in Seq(RefusalCells) /\ c \in RefusalCells
    BY <1>4, CellsTaken, Zenon DEF HomeRefused
  <2> HIDE DEF c
  <2>2. rxq' \in Seq(RefusalCells)
    <3>1. Append(rxq, c) \in Seq(RefusalCells) /\ rxq \in Seq(RefusalCells)
      BY <1>4, <2>1, CellsTaken, Zenon DEF HomeRefused
    <3> QED
      BY <3>1 DEF c
  <2>3. HomeRefused'
    BY <1>4, <2>1, <2>2 DEF HomeRefused, RefusalCells, Word, Cell
  <2> QED
    BY <2>3 DEF HomePhase, SomePhase
<1> QED
  BY <1>2, <1>3, <1>4 DEF SomePhase, StopPhase, HomePhase, StopNext, StopUnread, StopAnswered,
                          HomeNext, HomeUnread, Quiet, Silent

(* A cell of a command is lost.                                             *)
LEMMA LossKeepsTold ==
  ASSUME HomeParts, SomePhase, txq # <<>>, txq' = Tail(txq),
         UNCHANGED <<rxq, wire, dbuf, pbuf, pc, result, replies, at, reports>>
  PROVE  SomePhase'
<1>1. RepliesGrow /\ AskInv
  BY DEF RepliesGrow, HomeParts
<1>2. CASE NotStopped \/ HomeShown \/ HomeObeyed \/ StopFailed \/ HomeFailed
  BY <1>1, <1>2, StillFailed
<1>3. CASE StopUnread
  <2>1. TermLast(txq')
    BY <1>3, EndsTail DEF StopUnread
  <2>2. StopUnread'
    BY <1>3, <2>1 DEF StopUnread, Silent
  <2> QED
    BY <2>2 DEF StopPhase, SomePhase
<1>4. CASE HomeUnread
  <2>1. Unread'
    <3>1. CASE txq = <<W, P, CR>> /\ dbuf = <<>>
      <4>1. txq' = <<P, CR>> /\ dbuf' = <<>>
        BY <3>1, OneGone
      <4> QED
        BY <4>1 DEF Unread, W, P, CR
    <3>2. CASE txq = <<P, CR>> /\ dbuf \in {<<>>, <<W>>}
      <4>1. txq' = <<CR>> /\ dbuf' = dbuf /\ dbuf \in HomeParted
        BY <3>2, OneGone DEF HomeParted
      <4> QED
        BY <4>1 DEF Unread, W, P, CR, HomeParted
    <3>3. CASE txq = <<CR>>
      <4>1. txq' = <<>>
        BY <3>3, OneGone
      <4> QED
        BY <4>1 DEF Unread
    <3> QED
      BY <1>4, <3>1, <3>2, <3>3 DEF HomeUnread, Unread
  <2>2. HomeUnread'
    BY <1>4, <2>1 DEF HomeUnread, Silent
  <2> QED
    BY <2>2 DEF HomePhase, SomePhase
<1> QED
  BY <1>2, <1>3, <1>4 DEF SomePhase, StopPhase, HomePhase, StopNext, StopRead, StopAnswered,
                          HomeNext, HomeRefused, Quiet

(* The rotator reads a cell of Stop.                                        *)
LEMMA StopIsRead ==
  ASSUME Echoes = FALSE, Newlines = FALSE, HomeParts, StopUnread, NEW sum \in BOOLEAN, DeviceRead(sum),
         UNCHANGED <<at, reports>>
  PROVE  StopUnread' \/ StopRead'
<1>1. txq # <<>> /\ txq' = Tail(txq) /\ UNCHANGED <<rxq, pbuf, pc>>
  BY RotatorTakes DEF HomeParts
<1>2. TermLast(txq') /\ (IsTerm(Head(txq)) => txq' = <<>>)
  BY <1>1, EndsTail DEF StopUnread
<1>3. CASE ~IsTerm(Head(txq))
  <2>1. UNCHANGED <<replies, wire>>
    BY <1>3, RotatorTakes DEF HomeParts
  <2> QED
    BY <1>1, <1>2, <2>1 DEF StopUnread, Silent
<1>4. CASE IsTerm(Head(txq))
  <2> DEFINE cmd == DecodeCommand(dbuf)
  <2>1. /\ dbuf' = <<>>
        /\ \E r \in Firmware(cmd) :
             /\ replies' = Append(replies, [to |-> cmd, resp |-> r])
             /\ wire' = wire \o ReplyFrame(r, sum, Len(replies'))
    BY <1>4, RotatorTakes DEF HomeParts
  <2> HIDE DEF cmd
  <2>2. PICK r \in Firmware(cmd) : /\ replies' = Append(replies, [to |-> cmd, resp |-> r])
                                   /\ wire' = wire \o ReplyFrame(r, sum, Len(replies'))
    BY <2>1, Zenon
  <2>3. Len(replies') = 1
    <3> DEFINE e == [to |-> cmd, resp |-> r]
    <3>1. PICK E : replies \in Seq(E)
      BY DEF HomeParts, AskInv
    <3>2. replies' = Append(replies, e)
      BY <2>2
    <3> HIDE DEF e
    <3> QED
      BY <3>1, <3>2 DEF StopUnread
  <2> DEFINE f == ReplyFrame(r, sum, 1)
  <2>4. TermLast(f)
    <3>1. CASE r = None
      BY <3>1, NoFrame, NothingEnds
    <3>2. CASE r # None
      <4>1. r.kind \in Kinds
        BY <3>2, FirmwareAnswers
      <4>2. 1 \in Int
        OBVIOUS
      <4>3. IsLine(ReplyFrame(r, sum, 1))
        BY <3>2, <4>1, <4>2, ReplyIsLine, Zenon
      <4> QED
        BY <4>3, LineEnds
    <3> QED
      BY <3>1, <3>2
  <2> HIDE DEF f
  <2>5. PICK F : f \in Seq(F)
    BY <2>4 DEF TermLast
  <2>6. <<>> \o f = f
    BY <2>5
  <2>7. wire' = f
    <3>1. wire = <<>>
      BY DEF StopUnread, Silent
    <3> QED
      BY <2>2, <2>3, <2>6, <3>1 DEF f
  <2>8. rxq' = <<>> /\ TermLast(rxq') /\ IsText(rxq')
    BY <1>1, NothingIsText, NothingEnds DEF StopUnread, Silent
  <2>9. StopRead'
    BY <1>1, <1>2, <1>4, <2>1, <2>3, <2>4, <2>7, <2>8 DEF StopUnread, StopRead
  <2> QED
    BY <2>9
<1> QED
  BY <1>3, <1>4

(* The rotator reads a cell of the homing command.                          *)
LEMMA HomeIsRead ==
  ASSUME Echoes = FALSE, Newlines = FALSE, HomeParts, HomeUnread, NEW sum \in BOOLEAN, DeviceRead(sum),
         UNCHANGED <<at, reports>>
  PROVE  HomeUnread' \/ HomeObeyed' \/ HomeRefused'
<1>1. txq # <<>> /\ txq' = Tail(txq) /\ UNCHANGED <<rxq, pbuf, pc>>
  BY RotatorTakes DEF HomeParts
<1>2. ~IsTerm(W) /\ ~IsTerm(P) /\ IsTerm(CR)
  <2>1. "W#" \notin {"cr", "lf"} /\ " #" \notin {"cr", "lf"}
    BY Zenon
  <2> QED
    BY <2>1, WordTerms, Zenon DEF W, P
<1>3. CASE ~IsTerm(Head(txq))
  <2>1. UNCHANGED <<replies, wire>> /\ dbuf' \in {Append(dbuf, Head(txq)), <<>>}
    BY <1>3, RotatorTakes DEF HomeParts
  <2>2. ASSUME txq = <<W, P, CR>>, dbuf = <<>> PROVE Unread'
    <3>1. txq' = <<P, CR>> /\ dbuf' \in {Append(<<>>, W), <<>>}
      BY <1>1, <2>1, <2>2, OneGone
    <3>2. dbuf' \in {<<>>, <<W>>}
      BY <3>1, StartsWithOne
    <3> QED
      BY <3>1, <3>2 DEF Unread, W, P, CR
  <2>3. ASSUME txq = <<P, CR>>, dbuf \in {<<>>, <<W>>} PROVE Unread'
    <3>1. txq' = <<CR>> /\ dbuf' \in {Append(<<>>, P), Append(<<W>>, P), <<>>}
      BY <1>1, <2>1, <2>3, OneGone
    <3>2. dbuf' \in HomeParted
      BY <3>1, StartsWithOne, AppendToOne DEF HomeParted
    <3> QED
      BY <3>1, <3>2 DEF Unread, W, P, CR, HomeParted
  <2>4. txq # <<CR>>
    BY <1>2, <1>3, OneGone
  <2>5. Unread'
    BY <1>1, <2>2, <2>3, <2>4 DEF HomeUnread, Unread
  <2> QED
    BY <1>1, <2>1, <2>5 DEF HomeUnread, Silent
<1>4. CASE IsTerm(Head(txq))
  <2> DEFINE cmd == DecodeCommand(dbuf)
  <2>1. txq = <<CR>> /\ dbuf \in HomeParted
    BY <1>1, <1>2, <1>4, OneGone DEF HomeUnread, Unread
  <2>2. cmd \in {Home, None}
    BY <2>1, HomeHeard
  <2>3. \E r \in Firmware(cmd) :
             /\ replies' = Append(replies, [to |-> cmd, resp |-> r])
             /\ wire' = wire \o ReplyFrame(r, sum, Len(replies'))
    BY <1>4, RotatorTakes DEF HomeParts
  <2> HIDE DEF cmd
  <2>4. PICK r \in Firmware(cmd) : /\ replies' = Append(replies, [to |-> cmd, resp |-> r])
                                   /\ wire' = wire \o ReplyFrame(r, sum, Len(replies'))
    BY <2>3, Zenon
  <2>5. Len(replies') = 2 /\ replies'[2] = [to |-> cmd, resp |-> r]
    <3> DEFINE e == [to |-> cmd, resp |-> r]
    <3>1. PICK E : replies \in Seq(E)
      BY DEF HomeParts, AskInv
    <3>2. replies' = Append(replies, e)
      BY <2>4
    <3> HIDE DEF e
    <3>3. replies \in Seq(E \cup {e}) /\ e \in E \cup {e} /\ Len(replies) = 1
      BY <3>1 DEF HomeUnread
    <3>4. /\ Len(Append(replies, e)) = Len(replies) + 1
          /\ Append(replies, e)[Len(replies) + 1] = e
      BY <3>3, SMTT(60)
    <3>5. 1 + 1 = 2
      OBVIOUS
    <3>6. Len(replies') = 2 /\ replies'[2] = e
      BY <3>2, <3>3, <3>4, <3>5, Zenon
    <3> QED
      BY <3>6 DEF e
  <2>6. CASE r = Ack /\ cmd = Home
    <3>1. replies'[2].to = HomeCommands[2] /\ replies'[2].resp = Ack
      BY <2>5, <2>6 DEF HomeCommands
    <3>2. Obeyed(2, Ack)'
      BY <2>5, <3>1 DEF Obeyed, HomeCommands, Stop, Home, Query, Ack
    <3> QED
      BY <3>2 DEF HomeUnread, HomeObeyed
  <2>7. CASE r \in {DeviceError, None}
    <3>1. ReplyFrame(r, sum, 2) \in Seq(RefusalCells)
      BY <2>7, RefusalFrame
    <3>2. wire' = <<>> \o ReplyFrame(r, sum, 2)
      BY <2>4, <2>5 DEF HomeUnread, Silent
    <3>3. wire' \in Seq(RefusalCells)
      <4>1. \A D : \A s \in Seq(D) : <<>> \o s = s
        OBVIOUS
      <4> QED
        BY <3>1, <3>2, <4>1, Zenon
    <3>4. rxq' \in Seq(RefusalCells) /\ pbuf' \in Seq(RefusalCells)
      BY <1>1 DEF HomeUnread, Silent
    <3>5. txq' = <<>>
      BY <1>1, <2>1, OneGone
    <3>6. HomeRefused'
      BY <1>1, <3>3, <3>4, <3>5 DEF HomeUnread, HomeRefused, RefusalCells, Word, Cell
    <3> QED
      BY <3>6
  <2> QED
    BY <2>2, <2>4, <2>6, <2>7, HomeAnswered
<1> QED
  BY <1>3, <1>4

LEMMA RotatorKeepsTold ==
  ASSUME Echoes = FALSE, Newlines = FALSE, HomeParts, SomePhase, NEW sum \in BOOLEAN, DeviceRead(sum),
         UNCHANGED <<at, reports>>
  PROVE  SomePhase'
<1>1. RepliesGrow /\ AskInv /\ txq # <<>> /\ UNCHANGED <<pc, result>>
  BY RotatorTakes DEF HomeParts
<1>2. CASE NotStopped \/ HomeShown \/ HomeObeyed \/ StopFailed \/ HomeFailed
  BY <1>1, <1>2, StillFailed
<1>3. CASE StopUnread
  BY <1>3, StopIsRead DEF StopPhase, SomePhase
<1>4. CASE HomeUnread
  BY <1>4, HomeIsRead DEF HomePhase, SomePhase
<1> QED
  BY <1>1, <1>2, <1>3, <1>4 DEF SomePhase, StopPhase, HomePhase, StopNext, StopRead, StopAnswered,
                                HomeNext, HomeRefused, Quiet

LEMMA InitToldInv == ClientInit => ToldInv
<1> SUFFICES ASSUME ClientInit PROVE ToldInv
  OBVIOUS
<1>1. StopNext
  BY NothingIsText DEF ClientInit, LinkInit, Init, StopNext, Quiet, Silent
<1> QED
  BY <1>1, InitHomeInv DEF ToldInv, SomePhase, StopPhase

LEMMA NothingMoves ==
  ASSUME HomeParts, SomePhase,
         UNCHANGED <<rxq, txq, wire, dbuf, replies, pbuf, pc, result, at, reports>>
  PROVE  SomePhase'
<1>1. RepliesGrow /\ AskInv
  BY DEF RepliesGrow, HomeParts
<1>2. CASE NotStopped \/ HomeShown \/ HomeObeyed \/ StopFailed \/ HomeFailed
  BY <1>1, <1>2, StillFailed
<1>3. CASE StopNext \/ StopUnread \/ StopRead \/ StopAnswered
  BY <1>3 DEF SomePhase, StopPhase, StopNext, StopUnread, StopRead, StopAnswered, Quiet, Silent
<1>4. CASE HomeNext
  BY <1>4 DEF SomePhase, HomePhase, HomeNext, Quiet, Silent
<1>5. CASE HomeUnread
  <2>1. Unread'
    BY <1>5 DEF HomeUnread, Unread, HomeParted, W, P, CR
  <2>2. HomeUnread'
    BY <1>5, <2>1 DEF HomeUnread, Silent
  <2> QED
    BY <2>2 DEF SomePhase, HomePhase
<1>6. CASE HomeRefused
  <2>1. HomeRefused'
    BY <1>6 DEF HomeRefused, RefusalCells, Word, Cell
  <2> QED
    BY <2>1 DEF SomePhase, HomePhase
<1> QED
  BY <1>2, <1>3, <1>4, <1>5, <1>6 DEF SomePhase, StopPhase, HomePhase

LEMMA ToldStep ==
  ASSUME Echoes = FALSE, Newlines = FALSE, ToldInv, [ClientNext]_clientVars PROVE ToldInv'
<1>1. HomeInv' /\ HomeInv
  BY HomeStep DEF ToldInv
<1> SUFFICES ASSUME prog = "serial_home" PROVE SomePhase'
  <2>1. UNCHANGED prog
    BY DEF ClientNext, Call, PrintResult, CliEnds, Receive, Transmit, Rotator, Lose, clientVars
  <2> QED
    BY <1>1, <2>1 DEF ToldInv
<1>2. SomePhase /\ HomeParts /\ ProgInv
  BY DEF ToldInv, HomeInv
<1>3. CASE Transmit
  <2>1. /\ UNCHANGED <<txq, dbuf, replies, pbuf, pc, result, at, reports>> /\ wire # <<>>
        /\ rxq' = Append(rxq, Head(wire)) /\ wire' = Tail(wire)
    BY <1>3 DEF Transmit, Deliver
  <2> QED
    BY <1>2, <2>1, MoveKeepsTold
<1>4. CASE Rotator
  <2>1. PICK sum \in BOOLEAN : DeviceRead(sum)
    BY <1>4, SwitchesAssumption DEF Rotator
  <2> QED
    BY <1>2, <1>4, <2>1, RotatorKeepsTold DEF Rotator
<1>5. CASE Lose
  <2>1. UNCHANGED <<rxq, dbuf, replies, pbuf, pc, result, at, reports>>
    BY <1>5 DEF Lose
  <2> QED
    BY <1>2, <1>5, <2>1, MoveKeepsTold, LossKeepsTold DEF Lose
<1>6. CASE UNCHANGED clientVars
  <2>1. UNCHANGED <<rxq, txq, wire, dbuf, replies, pbuf, pc, result, at, reports>>
    BY <1>6 DEF clientVars, linkVars, vars, deviceVars
  <2> QED
    BY <1>2, <2>1, NothingMoves
<1>7. ~CliEnds
  BY DEF CliEnds
<1> QED
  BY <1>2, <1>3, <1>4, <1>5, <1>6, <1>7, CallKeepsTold, PrintKeepsTold, ReceiveKeepsTold DEF ClientNext

(* If Stop was answered, "Homing command accepted." is the truth, although an
   answer need not be the one to the command just sent.  The hypotheses are
   those of the run: no echoes, and one terminator to a reply.              *)
THEOREM ClientHomeIsTold ==
  ASSUME Echoes = FALSE, Newlines = FALSE PROVE ClientSpec => []HomeIsTold
<1>1. ToldInv => HomeIsTold
  <2> SUFFICES ASSUME ToldInv, prog = "serial_home", Len(reports) >= 2, reports[1] = "stopped",
                      reports[2] = "accepted"
               PROVE  Obeyed(2, Ack)
    BY DEF HomeIsTold
  <2>1. HomeShown
    BY DEF ToldInv, SomePhase, StopPhase, HomePhase, StopNext, StopUnread, StopRead, StopAnswered,
           StopFailed, NotStopped, HomeNext, HomeUnread, HomeRefused, HomeFailed, HomeObeyed
  <2> QED
    BY <2>1 DEF HomeShown
<1>2. ToldInv /\ [ClientNext]_clientVars => ToldInv'
  BY ToldStep
<1> QED
  BY <1>1, <1>2, InitToldInv, PTL DEF ClientSpec

-----------------------------------------------------------------------------
(* What serial_home says about Stop                                         *)
StopCell == Word("S")

(* The rotator will read Stop, if no cell of it is lost.                    *)
StopWhole ==
  \/ txq = <<StopCell, CR>> /\ dbuf = <<>>
  \/ txq = <<CR>> /\ dbuf = <<StopCell>>

FirstRead == Len(replies) >= 1 /\ (lost = 0 => replies[1].to = Stop)

(* A first line that is not answered leaves the line silent.                *)
StopInv ==
  \/ NotStopped \/ StopFailed \/ StopNext
  \/ StopUnread /\ (lost = 0 => StopWhole)
  \/ StopRead /\ FirstRead /\ (replies[1].resp = None => rxq = <<>> /\ wire = <<>>)
  \/ (StopAnswered \/ Len(reports) >= 1) /\ FirstRead /\ replies[1].resp # None

HomeStopInv == ToldInv /\ (prog = "serial_home" => StopInv)

(* In its first send it waits before or after the rotator has read, has an
   answer or none.                                                          *)
LEMMA FirstPhase ==
  ASSUME SomePhase', at' = "sent", Len(reports') = 0
  PROVE  /\ pc' = "reading" /\ Len(replies') = 0 => StopUnread'
         /\ pc' = "reading" /\ Len(replies') >= 1 => StopRead'
         /\ pc' = "idle" => StopAnswered' \/ StopFailed'
         /\ pc' \in {"reading", "idle"}
  BY DEF SomePhase, StopPhase, HomePhase, StopNext, StopUnread, StopRead, StopAnswered, StopFailed,
         NotStopped, HomeNext, HomeUnread, HomeRefused, HomeFailed, HomeObeyed, HomeShown

LEMMA StopHeard == DecodeCommand(<<StopCell>>) = Stop
<1>1. Stop \in AnyCommand /\ InRange(Stop) /\ Stop.op = "Stop"
  <2>1. Stop \in [op : {"QueryPosition", "QueryAzimuth", "QueryElevation", "QueryStatus", "Stop",
                        "KeepAlive", "GetStatusRegister", "GetErrorRegister", "Reset", "Park"}]
    BY DEF Stop
  <2>2. Stop \in AnyCommand
    BY <2>1, Zenon DEF AnyCommand, CommandsOver
  <2> QED
    BY <2>2 DEF Stop, InRange
<1>2. PICK heard : HeardFor(heard, Stop)
  BY <1>1, PayloadHeard, Zenon
<1>3. Payload(Stop) = <<StopCell>>
  BY DEF Payload, Stop, StopCell
<1>4. Stop.op # "QueryStatus" /\ Stop.op # "Offset"
  BY <1>1
<1> QED
  BY <1>2, <1>3, <1>4, Zenon DEF HeardFor, Spoken

(* What the rotator answered is not undone.                                 *)
LEMMA StillFirst ==
  ASSUME AskInv, RepliesGrow, lost \in Nat, lost' \in Nat, lost' >= lost, FirstRead
  PROVE  FirstRead' /\ replies'[1] = replies[1]
<1>1. CASE UNCHANGED replies
  BY <1>1 DEF FirstRead, Stop
<1>2. CASE \E e : replies' = Append(replies, e)
  <2>1. PICK e : replies' = Append(replies, e)
    BY <1>2
  <2>2. PICK E : replies \in Seq(E)
    BY DEF AskInv
  <2>3. replies \in Seq(E \cup {e}) /\ e \in E \cup {e}
    BY <2>2
  <2>4. Len(replies') = Len(replies) + 1 /\ Len(replies) \in Nat
        /\ \A i \in 1..Len(replies) : replies'[i] = replies[i]
    BY <2>1, <2>3
  <2>5. replies'[1] = replies[1] /\ Len(replies') >= 1
    BY <2>4 DEF FirstRead
  <2> QED
    BY <2>5 DEF FirstRead, Stop
<1> QED
  BY <1>1, <1>2 DEF RepliesGrow

(* Once it has printed something, nothing changes any more.                 *)
LEMMA StopSettled ==
  ASSUME AskInv, RepliesGrow, lost \in Nat, lost' \in Nat, lost' >= lost, UNCHANGED reports,
         NotStopped \/ (Len(reports) >= 1 /\ FirstRead /\ replies[1].resp # None)
  PROVE  StopInv'
<1>1. CASE NotStopped
  <2>1. NotStopped'
    BY <1>1 DEF NotStopped
  <2> QED
    BY <2>1 DEF StopInv
<1>2. CASE Len(reports) >= 1 /\ FirstRead /\ replies[1].resp # None
  <2>1. Len(reports') >= 1 /\ FirstRead' /\ replies'[1].resp # None
    BY <1>2, StillFirst
  <2> QED
    BY <2>1 DEF StopInv, None
<1> QED
  BY <1>1, <1>2

LEMMA CallKeepsStop ==
  ASSUME ProgInv, HomeParts, prog = "serial_home", SomePhase, SomePhase', StopInv, Call PROVE StopInv'
<1> DEFINE cmd == HomeCommands[Len(reports) + 1]
           f   == EncodeInto(cmd)
<1>1. /\ HostSend(cmd) /\ at = "call" /\ at' = "sent" /\ UNCHANGED <<reports, lost>>
  BY DEF Call, PollCalls, HomeCalls, CliCalls
<1>2. /\ UNCHANGED <<dbuf, replies>>
      /\ \/ pc' = "reading" /\ txq' = txq \o f
         \/ pc' = "idle" /\ result' \in {InvalidParam, Transport}
  <2> HIDE DEF cmd
  <2> QED
    BY <1>1 DEF HostSend, SendInvalid, SendWrite, SendWriteFails, deviceVars
<1>3. RepliesGrow /\ AskInv /\ lost \in Nat /\ lost' = lost
  BY <1>1, <1>2, ProgramsAssumption DEF RepliesGrow, HomeParts, ProgInv
<1>4. CASE StopNext
  <2>1. cmd = HomeCommands[1] /\ Len(reports) = 0 /\ txq = <<>> /\ dbuf = <<>> /\ Len(replies) = 0
    BY <1>4 DEF StopNext, Quiet
  <2>2. f = <<StopCell, CR>>
    BY <2>1, HomeFrames, Zenon DEF StopCell
  <2> HIDE DEF f, cmd
  <2>3. <<>> \o <<StopCell, CR>> = <<StopCell, CR>>
    OBVIOUS
  <2>4. CASE pc' = "reading" /\ txq' = txq \o f
    <3>1. txq' = <<StopCell, CR>> /\ dbuf' = <<>>
      BY <1>2, <2>1, <2>2, <2>3, <2>4
    <3>2. StopWhole'
      BY <3>1 DEF StopWhole, StopCell, Word, Cell, CR
    <3>3. at' = "sent" /\ Len(reports') = 0 /\ Len(replies') = 0
      BY <1>1, <1>2, <2>1
    <3>4. StopUnread'
      BY <2>4, <3>3, FirstPhase
    <3> QED
      BY <3>2, <3>4 DEF StopInv
  <2>5. CASE pc' = "idle" /\ result' \in {InvalidParam, Transport}
    <3>1. StopFailed'
      BY <1>1, <2>1, <2>5 DEF StopFailed, InvalidParam, Transport
    <3> QED
      BY <3>1 DEF StopInv
  <2> QED
    BY <1>2, <2>4, <2>5
<1>5. CASE NotStopped \/ (Len(reports) >= 1 /\ FirstRead /\ replies[1].resp # None)
  BY <1>1, <1>3, <1>5, StopSettled
<1> QED
  BY <1>1, <1>4, <1>5 DEF StopInv, StopUnread, StopRead, StopAnswered, StopFailed

LEMMA PrintKeepsStop ==
  ASSUME ProgInv, HomeParts, prog = "serial_home", StopInv, PrintResult PROVE StopInv'
<1> DEFINE v == Verdict(Len(reports) + 1, result)
<1>1. /\ UNCHANGED <<linkVars, lost>> /\ reports' = Append(reports, v) /\ at = "sent" /\ pc = "idle"
  BY DEF PrintResult, Returned, PollPrints, HomePrints, CliPrints
<1>2. UNCHANGED <<replies, result, lost>>
  BY <1>1 DEF linkVars, vars, deviceVars
<1>3. PICK S : reports \in Seq(S)
  BY DEF ProgInv
<1>4. /\ Len(reports') = Len(reports) + 1 /\ Len(reports) \in Nat
      /\ reports'[Len(reports) + 1] = v /\ \A i \in 1..Len(reports) : reports'[i] = reports[i]
  <2> HIDE DEF v
  <2>1. reports \in Seq(S \cup {v}) /\ v \in S \cup {v}
    BY <1>3
  <2> QED
    BY <1>1, <2>1
<1>5. CASE StopFailed
  <2>1. Len(reports') = 1 /\ reports'[1] = Verdict(1, result)
    BY <1>4, <1>5 DEF StopFailed
  <2>2. NotStopped'
    BY <1>5, <2>1, FirstVerdict DEF StopFailed, NotStopped
  <2> QED
    BY <2>2 DEF StopInv
<1>6. CASE NotStopped
  <2>1. 1 \in 1..Len(reports)
    BY <1>4, <1>6 DEF NotStopped
  <2>2. reports'[1] = reports[1] /\ Len(reports') >= 1
    BY <1>4, <2>1
  <2>3. NotStopped'
    BY <1>6, <2>2 DEF NotStopped
  <2> QED
    BY <2>3 DEF StopInv
<1>7. CASE (StopAnswered \/ Len(reports) >= 1) /\ FirstRead /\ replies[1].resp # None
  <2>1. Len(reports') >= 1
    BY <1>4
  <2>2. FirstRead' /\ replies'[1].resp # None
    BY <1>2, <1>7 DEF FirstRead, Stop, None
  <2> QED
    BY <2>1, <2>2 DEF StopInv, None
<1> QED
  BY <1>1, <1>5, <1>6, <1>7 DEF StopInv, StopNext, StopUnread, StopRead

LEMMA ReceiveKeepsStop ==
  ASSUME ProgInv, HomeParts, SomePhase', StopInv, Receive PROVE StopInv'
<1>1. pc = "reading" /\ UNCHANGED <<at, reports, wire, replies, lost>>
  BY DEF Receive, HostReads, HostReadsText, HostReadsTerm, HostGivesUp, ReadText, ReadTerm,
         ReadNothing, ReadFails, deviceVars
<1>2. \/ rxq # <<>>
      \/ pc' = "idle" /\ result'.tag # "Ok"
  BY DEF Receive, HostReads, HostReadsText, HostReadsTerm, HostGivesUp, ReadText, ReadTerm,
         ReadNothing, ReadFails, Return, Timeout, Transport
<1>3. RepliesGrow /\ AskInv /\ lost \in Nat /\ lost' = lost
  BY <1>1, ProgramsAssumption DEF RepliesGrow, HomeParts, ProgInv
<1>4. CASE pc' = "idle" /\ result'.tag # "Ok" /\ (StopUnread \/ StopRead)
  <2>1. StopFailed'
    BY <1>1, <1>4 DEF StopFailed, StopUnread, StopRead
  <2> QED
    BY <2>1 DEF StopInv
<1>5. CASE StopRead /\ rxq # <<>> /\ FirstRead /\ (replies[1].resp = None => rxq = <<>> /\ wire = <<>>)
  <2>1. FirstRead' /\ Len(replies') >= 1 /\ replies'[1].resp # None /\ at' = "sent" /\ Len(reports') = 0
    BY <1>1, <1>3, <1>5, StillFirst DEF StopRead, FirstRead, None
  <2>2. StopRead' \/ StopAnswered' \/ StopFailed'
    BY <2>1, FirstPhase
  <2> QED
    BY <2>1, <2>2 DEF StopInv, None
<1>6. CASE NotStopped \/ (Len(reports) >= 1 /\ FirstRead /\ replies[1].resp # None)
  BY <1>1, <1>3, <1>6, StopSettled
<1>7. StopUnread => rxq = <<>>
  BY DEF StopUnread, Silent
<1> QED
  BY <1>1, <1>2, <1>4, <1>5, <1>6, <1>7 DEF StopInv, StopNext, StopAnswered, StopFailed

(* A cell of a reply arrives or is lost.                                    *)
LEMMA MoveKeepsStop ==
  ASSUME ProgInv, ProgInv', HomeParts, SomePhase', StopInv, wire # <<>>, lost' >= lost,
         UNCHANGED <<replies, pc, result, at, reports>>
  PROVE  StopInv'
<1>1. RepliesGrow /\ AskInv /\ lost \in Nat /\ lost' \in Nat
  BY ProgramsAssumption DEF RepliesGrow, HomeParts, ProgInv
<1>2. CASE NotStopped \/ (Len(reports) >= 1 /\ FirstRead /\ replies[1].resp # None)
  BY <1>1, <1>2, StopSettled
<1>3. CASE StopFailed
  <2>1. StopFailed'
    BY <1>3 DEF StopFailed
  <2> QED
    BY <2>1 DEF StopInv
<1>4. CASE StopRead /\ FirstRead /\ replies[1].resp # None
  <2>1. FirstRead' /\ Len(replies') >= 1 /\ replies'[1].resp # None
    BY <1>1, <1>4, StillFirst DEF FirstRead, None
  <2>2. StopRead'
    BY <1>4, <2>1, FirstPhase DEF StopRead
  <2> QED
    BY <2>1, <2>2 DEF StopInv, None
<1> QED
  BY <1>2, <1>3, <1>4 DEF StopInv, StopNext, StopUnread, StopAnswered, Quiet, Silent

(* A cell of a command is lost.                                             *)
LEMMA LossKeepsStop ==
  ASSUME ProgInv, ProgInv', HomeParts, SomePhase', StopInv, txq # <<>>, lost' = lost + 1,
         UNCHANGED <<replies, pc, result, at, reports>>
  PROVE  StopInv'
<1>1. RepliesGrow /\ AskInv /\ lost \in Nat /\ lost' \in Nat /\ lost' >= lost /\ lost' # 0
  BY ProgramsAssumption DEF RepliesGrow, HomeParts, ProgInv
<1>2. CASE NotStopped \/ (Len(reports) >= 1 /\ FirstRead /\ replies[1].resp # None)
  BY <1>1, <1>2, StopSettled
<1>3. CASE StopFailed
  <2>1. StopFailed'
    BY <1>3 DEF StopFailed
  <2> QED
    BY <2>1 DEF StopInv
<1>4. CASE StopUnread
  <2>1. StopUnread'
    BY <1>4, FirstPhase DEF StopUnread
  <2> QED
    BY <1>1, <2>1 DEF StopInv
<1> QED
  BY <1>2, <1>3, <1>4 DEF StopInv, StopNext, StopRead, StopAnswered, Quiet

(* The rotator reads a cell.                                                *)
LEMMA RotatorKeepsStop ==
  ASSUME Echoes = FALSE, Newlines = FALSE, ProgInv, ProgInv', HomeParts, SomePhase', StopInv,
         NEW sum \in BOOLEAN, DeviceRead(sum), UNCHANGED <<at, reports, lost>>
  PROVE  StopInv'
<1>1. /\ RepliesGrow /\ AskInv /\ txq # <<>> /\ txq' = Tail(txq)
      /\ UNCHANGED <<rxq, pc, result>>
  BY RotatorTakes DEF HomeParts
<1>2. lost \in Nat /\ lost' = lost
  BY ProgramsAssumption DEF ProgInv
<1>3. CASE NotStopped \/ (Len(reports) >= 1 /\ FirstRead /\ replies[1].resp # None)
  BY <1>1, <1>2, <1>3, StopSettled
<1>4. CASE StopFailed
  <2>1. StopFailed'
    BY <1>1, <1>4 DEF StopFailed
  <2> QED
    BY <2>1 DEF StopInv
<1>5. CASE StopUnread /\ (lost = 0 => StopWhole)
  <2>0. /\ at' = "sent" /\ Len(reports') = 0 /\ pc' = "reading" /\ Len(replies) = 0
        /\ rxq' = <<>> /\ wire = <<>>
    BY <1>1, <1>5 DEF StopUnread, Silent
  <2>t. ~IsTerm(StopCell) /\ IsTerm(CR)
    <3>1. "S" \notin {"cr", "lf"}
      BY Zenon
    <3> QED
      BY <3>1, WordTerms, Zenon DEF StopCell, Word
  <2>1. CASE ~IsTerm(Head(txq))
    <3>1. UNCHANGED replies
      BY <2>1, RotatorTakes DEF HomeParts
    <3>2. StopUnread'
      BY <2>0, <3>1, FirstPhase
    <3>3. ASSUME lost' = 0 PROVE StopWhole'
      <4>1. StopWhole
        BY <1>2, <1>5, <3>3
      <4>2. txq = <<StopCell, CR>> /\ dbuf = <<>>
        BY <2>1, <2>t, <4>1, OneGone DEF StopWhole
      <4>3. Head(txq) = StopCell /\ txq' = <<CR>>
        BY <1>1, <4>2, OneGone
      <4>4. FeedCommand(<<>>, StopCell).buf = <<StopCell>>
        <5>1. Len(<<>>) < MAX_CMD_FRAME
          BY CapacitiesAssumption
        <5> QED
          BY <2>t, <5>1, StartsWithOne DEF FeedCommand
      <4>5. dbuf' = <<StopCell>>
        BY <4>2, <4>3, <4>4 DEF DeviceRead
      <4> QED
        BY <4>3, <4>5 DEF StopWhole, StopCell, Word, Cell, CR
    <3> QED
      BY <3>2, <3>3 DEF StopInv
  <2>2. CASE IsTerm(Head(txq))
    <3> DEFINE cmd == DecodeCommand(dbuf)
    <3>1. \E r \in Firmware(cmd) :
            /\ replies' = Append(replies, [to |-> cmd, resp |-> r])
            /\ wire' = wire \o ReplyFrame(r, sum, Len(replies'))
      BY <2>2, RotatorTakes DEF HomeParts
    <3>2. lost = 0 => cmd = Stop
      <4> SUFFICES ASSUME lost = 0 PROVE cmd = Stop
        OBVIOUS
      <4>1. dbuf = <<StopCell>>
        BY <1>5, <2>2, <2>t, OneGone DEF StopWhole
      <4> QED
        BY <4>1, StopHeard
    <3> HIDE DEF cmd
    <3>3. PICK r \in Firmware(cmd) : /\ replies' = Append(replies, [to |-> cmd, resp |-> r])
                                     /\ wire' = wire \o ReplyFrame(r, sum, Len(replies'))
      BY <3>1, Zenon
    <3>4. Len(replies') = 1 /\ replies'[1] = [to |-> cmd, resp |-> r]
      <4> DEFINE e == [to |-> cmd, resp |-> r]
      <4>1. PICK E : replies \in Seq(E)
        BY DEF HomeParts, AskInv
      <4>2. replies' = Append(replies, e)
        BY <3>3
      <4> HIDE DEF e
      <4>3. replies = <<>>
        BY <2>0, <4>1
      <4>4. replies' = <<e>>
        BY <4>2, <4>3, StartsWithOne
      <4>5. Len(<<e>>) = 1 /\ <<e>>[1] = e
        OBVIOUS
      <4> QED
        BY <4>4, <4>5, Zenon DEF e
    <3>5. FirstRead' /\ replies'[1].resp = r
      BY <1>2, <3>2, <3>4 DEF FirstRead, Stop
    <3>6. r = None => wire' = <<>>
      BY <2>0, <3>3, NoFrame
    <3>7. StopRead'
      BY <2>0, <3>4, FirstPhase
    <3> QED
      BY <2>0, <3>5, <3>6, <3>7 DEF StopInv, None
  <2> QED
    BY <2>1, <2>2
<1> QED
  BY <1>1, <1>3, <1>4, <1>5 DEF StopInv, StopNext, StopRead, StopAnswered, Quiet

LEMMA StopStep ==
  ASSUME Echoes = FALSE, Newlines = FALSE, HomeStopInv, [ClientNext]_clientVars PROVE HomeStopInv'
<1>1. ToldInv' /\ ToldInv
  BY ToldStep DEF HomeStopInv
<1>2. UNCHANGED prog
  BY DEF ClientNext, Call, PrintResult, CliEnds, Receive, Transmit, Rotator, Lose, clientVars
<1> SUFFICES ASSUME prog = "serial_home" PROVE StopInv'
  BY <1>1, <1>2 DEF HomeStopInv
<1>3. StopInv /\ SomePhase /\ SomePhase' /\ HomeParts /\ ProgInv /\ ProgInv'
  BY <1>1, <1>2 DEF HomeStopInv, ToldInv, HomeInv
<1>4. lost \in Nat
  BY <1>3, ProgramsAssumption DEF ProgInv
<1>5. CASE Transmit
  <2>1. UNCHANGED <<replies, pc, result, at, reports, lost>> /\ wire # <<>>
    BY <1>5 DEF Transmit, Deliver
  <2> QED
    BY <1>3, <1>4, <2>1, MoveKeepsStop
<1>6. CASE Rotator
  <2>1. PICK sum \in BOOLEAN : DeviceRead(sum)
    BY <1>6, SwitchesAssumption DEF Rotator
  <2> QED
    BY <1>3, <1>6, <2>1, RotatorKeepsStop DEF Rotator
<1>7. CASE Lose
  <2>1. /\ UNCHANGED <<replies, pc, result, at, reports>> /\ lost' = lost + 1
        /\ wire # <<>> \/ txq # <<>>
    BY <1>7 DEF Lose
  <2>2. lost' >= lost
    BY <1>4, <2>1
  <2> QED
    BY <1>3, <2>1, <2>2, MoveKeepsStop, LossKeepsStop
<1>8. CASE UNCHANGED clientVars
  <2>1. UNCHANGED <<rxq, txq, wire, dbuf, replies, pbuf, pc, result, at, reports, lost>>
    BY <1>8 DEF clientVars, linkVars, vars, deviceVars
  <2> QED
    BY <1>3, <2>1 DEF StopInv, NotStopped, StopFailed, StopNext, StopUnread, StopRead, StopAnswered,
                      StopWhole, FirstRead, Quiet, Silent
<1>9. ~CliEnds
  BY DEF CliEnds
<1> QED
  BY <1>3, <1>5, <1>6, <1>7, <1>8, <1>9, CallKeepsStop, PrintKeepsStop, ReceiveKeepsStop DEF ClientNext

(* "Stopped." means that the rotator answered the first line it read, be it
   with an error, and read Stop there if no cell was lost.  The hypotheses are
   those of the run: no echoes, and one terminator to a reply.              *)
THEOREM ClientStoppedIsHeard ==
  ASSUME Echoes = FALSE, Newlines = FALSE PROVE ClientSpec => []StoppedIsHeard
<1>1. HomeStopInv => StoppedIsHeard
  <2> SUFFICES ASSUME HomeStopInv, prog = "serial_home", Len(reports) >= 1, reports[1] = "stopped"
               PROVE  /\ Len(replies) >= 1 /\ replies[1].resp # None
                      /\ lost = 0 => replies[1].to = Stop
    BY DEF StoppedIsHeard
  <2>1. FirstRead /\ replies[1].resp # None
    BY DEF HomeStopInv, StopInv, NotStopped, StopFailed, StopNext, StopUnread, StopRead
  <2> QED
    BY <2>1 DEF FirstRead
<1>2. ClientInit => HomeStopInv
  <2> SUFFICES ASSUME ClientInit PROVE HomeStopInv
    OBVIOUS
  <2>1. StopNext
    BY NothingIsText DEF ClientInit, LinkInit, Init, StopNext, Quiet, Silent
  <2> QED
    BY <2>1, InitToldInv DEF HomeStopInv, StopInv
<1>3. HomeStopInv /\ [ClientNext]_clientVars => HomeStopInv'
  BY StopStep
<1> QED
  BY <1>1, <1>2, <1>3, PTL DEF ClientSpec
=============================================================================
