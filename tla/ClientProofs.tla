---------------------------- MODULE ClientProofs ----------------------------
(* Replies to the example programs come in order and lag by at most the sends
   that ended without an answer, however many sends there are, whatever the
   rotator answers, and however much of either direction is lost.  The rotator
   echoes nothing and ends each reply with one terminator.                   *)
EXTENDS Client, SessionProofs

-----------------------------------------------------------------------------
(* Numbered lines.  g gives each terminator of s a number in lo+1..hi, and a
   later one a larger number.                                               *)
Numbered(s, g, lo, hi) ==
  /\ \E S : s \in Seq(S)
  /\ g \in Seq(Int) /\ Len(g) = Len(s)
  /\ \A i \in 1..Len(s) : IsTerm(s[i]) => lo < g[i] /\ g[i] <= hi
  /\ \A i, j \in 1..Len(s) : i < j /\ IsTerm(s[i]) /\ IsTerm(s[j]) => g[i] < g[j]

(* The numbers are those the terminators carry.                             *)
Valued(s, g) == \A i \in 1..Len(s) : IsTerm(s[i]) => s[i].v = g[i]

(* Nothing is lost of a numbering by allowing more numbers.                 *)
LEMMA Widen ==
  ASSUME NEW s, NEW g, NEW lo \in Int, NEW hi \in Int, NEW lo2 \in Int, NEW hi2 \in Int,
         Numbered(s, g, lo, hi), lo2 <= lo, hi <= hi2
  PROVE  Numbered(s, g, lo2, hi2)
<1>1. PICK S : s \in Seq(S)
  BY DEF Numbered
<1>2. g \in Seq(Int) /\ Len(g) = Len(s)
  BY DEF Numbered
<1>3. ASSUME NEW i \in 1..Len(s), IsTerm(s[i]) PROVE lo2 < g[i] /\ g[i] <= hi2
  BY <1>1, <1>2, <1>3 DEF Numbered
<1> QED
  BY <1>2, <1>3, Zenon DEF Numbered

(* The first cell is taken away.                                            *)
LEMMA NumberedTail ==
  ASSUME NEW s, NEW g, NEW lo \in Int, NEW hi \in Int, Numbered(s, g, lo, hi), s # <<>>
  PROVE  /\ Numbered(Tail(s), Tail(g), lo, hi)
         /\ Valued(s, g) => Valued(Tail(s), Tail(g))
<1>1. PICK S : s \in Seq(S)
  BY DEF Numbered
<1>2. g \in Seq(Int) /\ Len(g) = Len(s) /\ Len(s) \in Nat \ {0}
  BY <1>1 DEF Numbered
<1>3. /\ Tail(s) \in Seq(S) /\ Tail(g) \in Seq(Int)
      /\ Len(Tail(s)) = Len(s) - 1 /\ Len(Tail(g)) = Len(s) - 1
      /\ \A i \in 1..Len(Tail(s)) :
           i + 1 \in 1..Len(s) /\ Tail(s)[i] = s[i + 1] /\ Tail(g)[i] = g[i + 1]
  BY <1>1, <1>2
<1>4. \A i \in 1..Len(Tail(s)) : IsTerm(Tail(s)[i]) => lo < Tail(g)[i] /\ Tail(g)[i] <= hi
  BY <1>3 DEF Numbered
<1>5. ASSUME NEW i \in 1..Len(Tail(s)), NEW j \in 1..Len(Tail(s)), i < j,
             IsTerm(Tail(s)[i]), IsTerm(Tail(s)[j])
      PROVE  Tail(g)[i] < Tail(g)[j]
  <2>1. i + 1 < j + 1 /\ i + 1 \in 1..Len(s) /\ j + 1 \in 1..Len(s)
    BY <1>3, <1>5
  <2> QED
    BY <2>1, <1>3, <1>5 DEF Numbered
<1>6. Valued(s, g) => Valued(Tail(s), Tail(g))
  BY <1>3 DEF Valued
<1>7. Len(Tail(g)) = Len(Tail(s))
  BY <1>3
<1> QED
  BY <1>3, <1>4, <1>5, <1>6, <1>7, Zenon DEF Numbered

(* A terminator is taken away: what is left has larger numbers.             *)
LEMMA NumberedTailTerm ==
  ASSUME NEW s, NEW g, NEW lo \in Int, NEW hi \in Int, Numbered(s, g, lo, hi), s # <<>>,
         IsTerm(Head(s))
  PROVE  /\ g[1] \in Int /\ lo < g[1] /\ g[1] <= hi
         /\ Numbered(Tail(s), Tail(g), g[1], hi)
         /\ Valued(s, g) => Head(s).v = g[1]
<1>1. PICK S : s \in Seq(S)
  BY DEF Numbered
<1>2. g \in Seq(Int) /\ Len(g) = Len(s) /\ Len(s) \in Nat \ {0} /\ Head(s) = s[1] /\ 1 \in 1..Len(s)
  BY <1>1 DEF Numbered
<1>3. g[1] \in Int /\ lo < g[1] /\ g[1] <= hi
  BY <1>2 DEF Numbered
<1>4. /\ Tail(s) \in Seq(S) /\ Tail(g) \in Seq(Int)
      /\ Len(Tail(s)) = Len(s) - 1 /\ Len(Tail(g)) = Len(s) - 1
      /\ \A i \in 1..Len(Tail(s)) :
           i + 1 \in 1..Len(s) /\ 1 < i + 1 /\ Tail(s)[i] = s[i + 1] /\ Tail(g)[i] = g[i + 1]
  BY <1>1, <1>2
<1>5. \A i \in 1..Len(Tail(s)) : IsTerm(Tail(s)[i]) => g[1] < Tail(g)[i] /\ Tail(g)[i] <= hi
  BY <1>2, <1>4 DEF Numbered
<1>6. Numbered(Tail(s), Tail(g), lo, hi)
  BY NumberedTail
<1>7. Numbered(Tail(s), Tail(g), g[1], hi)
  BY <1>5, <1>6, Zenon DEF Numbered
<1>8. Valued(s, g) => Head(s).v = g[1]
  BY <1>2 DEF Valued
<1> QED
  BY <1>3, <1>7, <1>8

(* What is appended has larger numbers.                                     *)
LEMMA NumberedConcat ==
  ASSUME NEW s, NEW t, NEW g, NEW h, NEW lo \in Int, NEW mid \in Int, NEW hi \in Int,
         lo <= mid, mid <= hi, Numbered(s, g, lo, mid), Numbered(t, h, mid, hi)
  PROVE  /\ Numbered(s \o t, g \o h, lo, hi)
         /\ Valued(s, g) /\ Valued(t, h) => Valued(s \o t, g \o h)
<1>1. PICK S : s \in Seq(S)
  BY DEF Numbered
<1>2. PICK T : t \in Seq(T)
  BY DEF Numbered
<1> DEFINE st == s \o t
           gh == g \o h
           m  == Len(s)
           n  == Len(t)
<1>3. /\ s \in Seq(S \cup T) /\ t \in Seq(S \cup T) /\ m \in Nat /\ n \in Nat
      /\ g \in Seq(Int) /\ h \in Seq(Int) /\ Len(g) = m /\ Len(h) = n
  <2>1. s \in Seq(S \cup T) /\ t \in Seq(S \cup T) /\ m \in Nat /\ n \in Nat
    BY <1>1, <1>2
  <2>2. g \in Seq(Int) /\ h \in Seq(Int) /\ Len(g) = m /\ Len(h) = n
    BY DEF Numbered
  <2> QED
    BY <2>1, <2>2
<1>4. /\ st \in Seq(S \cup T) /\ gh \in Seq(Int) /\ Len(st) = m + n /\ Len(gh) = m + n
      /\ \A i \in 1..m : st[i] = s[i] /\ gh[i] = g[i]
      /\ \A i \in 1..(m + n) : i > m => st[i] = t[i - m] /\ gh[i] = h[i - m]
  <2>1. /\ st \in Seq(S \cup T) /\ Len(st) = m + n
        /\ \A i \in 1..(m + n) : st[i] = IF i <= m THEN s[i] ELSE t[i - m]
    <3>1. /\ st \in Seq(S \cup T)
          /\ Len(st) = Len(s) + Len(t)
          /\ \A i \in 1..Len(s) + Len(t) : st[i] = IF i <= Len(s) THEN s[i] ELSE t[i - Len(s)]
      BY <1>3, ConcatProperties, Zenon DEF st
    <3> QED
      BY <3>1, Zenon
  <2>2. gh \in Seq(Int) /\ Len(gh) = m + n
        /\ \A i \in 1..(m + n) : gh[i] = IF i <= m THEN g[i] ELSE h[i - m]
    <3>1. /\ gh \in Seq(Int)
          /\ Len(gh) = Len(g) + Len(h)
          /\ \A i \in 1..Len(g) + Len(h) : gh[i] = IF i <= Len(g) THEN g[i] ELSE h[i - Len(g)]
      BY <1>3, ConcatProperties, Zenon DEF gh
    <3> QED
      BY <1>3, <3>1, Zenon
  <2> HIDE DEF st, gh, m, n
  <2>3. ASSUME NEW i \in 1..m PROVE st[i] = s[i] /\ gh[i] = g[i]
    <3>1. i \in 1..(m + n) /\ i <= m
      BY <1>3
    <3> QED
      BY <2>1, <2>2, <3>1, Zenon
  <2>4. ASSUME NEW i \in 1..(m + n), i > m PROVE st[i] = t[i - m] /\ gh[i] = h[i - m]
    <3>1. ~(i <= m)
      BY <1>3, <2>4
    <3> QED
      BY <2>1, <2>2, <3>1, Zenon
  <2> QED
    BY <2>1, <2>2, <2>3, <2>4, Zenon
<1>5. /\ \A i \in 1..m : IsTerm(s[i]) => lo < g[i] /\ g[i] <= mid /\ g[i] \in Int
      /\ \A i \in 1..n : IsTerm(t[i]) => mid < h[i] /\ h[i] <= hi /\ h[i] \in Int
      /\ \A i, j \in 1..m : i < j /\ IsTerm(s[i]) /\ IsTerm(s[j]) => g[i] < g[j]
      /\ \A i, j \in 1..n : i < j /\ IsTerm(t[i]) /\ IsTerm(t[j]) => h[i] < h[j]
  <2>1. /\ \A i \in 1..m : IsTerm(s[i]) => lo < g[i] /\ g[i] <= mid
        /\ \A i, j \in 1..m : i < j /\ IsTerm(s[i]) /\ IsTerm(s[j]) => g[i] < g[j]
    BY Zenon DEF Numbered
  <2>2. /\ \A i \in 1..n : IsTerm(t[i]) => mid < h[i] /\ h[i] <= hi
        /\ \A i, j \in 1..n : i < j /\ IsTerm(t[i]) /\ IsTerm(t[j]) => h[i] < h[j]
    BY Zenon DEF Numbered
  <2>3. (\A i \in 1..m : g[i] \in Int) /\ (\A i \in 1..n : h[i] \in Int)
    BY <1>3
  <2> HIDE DEF m, n
  <2> QED
    BY <2>1, <2>2, <2>3
<1> HIDE DEF st, gh, m, n
<1>6. ASSUME NEW i \in 1..(m + n) PROVE i \in 1..m \/ (i > m /\ i - m \in 1..n)
  BY <1>3
<1>7. ASSUME NEW i \in 1..(m + n), IsTerm(st[i]) PROVE lo < gh[i] /\ gh[i] <= hi
  <2>1. CASE i \in 1..m
    BY <1>4, <1>5, <1>7, <2>1
  <2>2. CASE i > m /\ i - m \in 1..n
    BY <1>4, <1>5, <1>7, <2>2
  <2> QED
    BY <1>6, <2>1, <2>2
<1>8. ASSUME NEW i \in 1..(m + n), NEW j \in 1..(m + n), i < j, IsTerm(st[i]), IsTerm(st[j])
      PROVE  gh[i] < gh[j]
  <2>1. CASE i \in 1..m /\ j \in 1..m
    BY <1>4, <1>5, <1>8, <2>1
  <2>2. CASE i \in 1..m /\ j > m /\ j - m \in 1..n
    <3>1. gh[i] <= mid /\ gh[i] \in Int
      BY <1>4, <1>5, <1>8, <2>2
    <3>2. mid < gh[j] /\ gh[j] \in Int
      BY <1>4, <1>5, <1>8, <2>2
    <3> QED
      BY <3>1, <3>2
  <2>3. CASE i > m /\ i - m \in 1..n /\ j > m /\ j - m \in 1..n
    <3>1. st[i] = t[i - m] /\ gh[i] = h[i - m] /\ st[j] = t[j - m] /\ gh[j] = h[j - m]
      BY <1>4, <2>3
    <3>2. i - m < j - m
      BY <1>3, <1>8
    <3>3. IsTerm(t[i - m]) /\ IsTerm(t[j - m])
      BY <1>8, <3>1, Zenon
    <3> QED
      BY <1>5, <2>3, <3>1, <3>2, <3>3
  <2>4. ~(i > m /\ j \in 1..m)
    BY <1>3, <1>8
  <2> QED
    BY <1>6, <2>1, <2>2, <2>3, <2>4
<1>9. Numbered(st, gh, lo, hi)
  BY <1>4, <1>7, <1>8, Zenon DEF Numbered
<1>10. Valued(s, g) /\ Valued(t, h) => Valued(st, gh)
  BY <1>3, <1>4, <1>6 DEF Valued, m, n
<1> QED
  BY <1>9, <1>10 DEF st, gh

(* Text without a terminator needs no numbers.                              *)
LEMMA NumberedText ==
  ASSUME NEW S, NEW s \in Seq(S), NEW n \in Int, NEW lo \in Int, NEW hi \in Int,
         \A i \in 1..Len(s) : ~IsTerm(s[i])
  PROVE  /\ Numbered(s, [i \in 1..Len(s) |-> n], lo, hi)
         /\ Valued(s, [i \in 1..Len(s) |-> n])
<1> DEFINE g == [i \in 1..Len(s) |-> n]
<1>1. g \in Seq(Int) /\ Len(g) = Len(s)
  OBVIOUS
<1> HIDE DEF g
<1>2. Numbered(s, g, lo, hi) /\ Valued(s, g)
  BY <1>1, Zenon DEF Numbered, Valued
<1> QED
  BY <1>2 DEF g

(* One line: its only terminator is its end, and takes the next number.     *)
LEMMA NumberedLine ==
  ASSUME NEW S, NEW s \in Seq(S), NEW n \in Int,
         \A i \in 1..Len(s) : IsTerm(s[i]) => i = Len(s)
  PROVE  /\ Numbered(s, [i \in 1..Len(s) |-> n], n - 1, n)
         /\ (\A i \in 1..Len(s) : IsTerm(s[i]) => s[i].v = n)
              => Valued(s, [i \in 1..Len(s) |-> n])
<1> DEFINE g == [i \in 1..Len(s) |-> n]
<1>1. g \in Seq(Int) /\ Len(g) = Len(s) /\ \A i \in 1..Len(s) : g[i] = n
  OBVIOUS
<1> HIDE DEF g
<1>2. \A i \in 1..Len(s) : IsTerm(s[i]) => n - 1 < g[i] /\ g[i] <= n
  BY <1>1
<1>3. \A i, j \in 1..Len(s) : i < j /\ IsTerm(s[i]) /\ IsTerm(s[j]) => g[i] < g[j]
  OBVIOUS
<1>4. Numbered(s, g, n - 1, n)
  BY <1>1, <1>2, <1>3, Zenon DEF Numbered
<1>5. (\A i \in 1..Len(s) : IsTerm(s[i]) => s[i].v = n) => Valued(s, g)
  BY <1>1 DEF Valued
<1> QED
  BY <1>4, <1>5 DEF g

LEMMA NumberedNothing ==
  ASSUME NEW lo \in Int, NEW hi \in Int
  PROVE  Numbered(<<>>, <<>>, lo, hi) /\ Valued(<<>>, <<>>)
<1>1. <<>> \in Seq(Int) /\ Len(<<>>) = 0
  OBVIOUS
<1>2. 1..0 = {}
  OBVIOUS
<1> QED
  BY <1>1, <1>2 DEF Numbered, Valued

-----------------------------------------------------------------------------
(* Frames are lines                                                         *)

IsLine(s) ==
  /\ \E S : s \in Seq(S)
  /\ Len(s) \in Nat \ {0}
  /\ \A i \in 1..Len(s) : IsTerm(s[i]) <=> i = Len(s)

(* Text with a terminator behind it is a line.                              *)
LEMMA TextThenTerm ==
  ASSUME NEW S, NEW s \in Seq(S), \A i \in 1..Len(s) : ~IsTerm(s[i]), NEW c, IsTerm(c)
  PROVE  IsLine(Append(s, c))
<1> DEFINE a == Append(s, c)
<1>1. s \in Seq(S \cup {c}) /\ c \in S \cup {c} /\ Len(s) \in Nat
  OBVIOUS
<1>2. /\ a \in Seq(S \cup {c}) /\ Len(a) = Len(s) + 1 /\ a[Len(s) + 1] = c
      /\ \A i \in 1..Len(s) : a[i] = s[i]
  BY <1>1
<1> HIDE DEF a
<1>3. ASSUME NEW i \in 1..Len(a) PROVE IsTerm(a[i]) <=> i = Len(a)
  <2>1. CASE i \in 1..Len(s)
    <3>1. ~IsTerm(a[i])
      BY <1>2, <2>1, Zenon
    <3> QED
      BY <1>1, <1>2, <2>1, <3>1
  <2>2. CASE i = Len(s) + 1
    <3>1. IsTerm(a[i])
      BY <1>2, <2>2, Zenon
    <3> QED
      BY <1>2, <2>2, <3>1
  <2> QED
    BY <1>1, <1>2, <2>1, <2>2
<1>4. Len(a) \in Nat \ {0}
  BY <1>1, <1>2
<1>5. IsLine(a)
  BY <1>2, <1>3, <1>4, Zenon DEF IsLine
<1> QED
  BY <1>5 DEF a

(* The commands of the programs.                                            *)
Sendable == CliCommands \cup {Query, Stop, Home}

SendableOperations ==
  {"Azimuth", "Elevation", "AzimuthElevation", "QueryPosition", "QueryStatus", "Stop", "KeepAlive"}

LEMMA SendableOps == ASSUME NEW cmd \in Sendable PROVE cmd.op \in SendableOperations
<1>1. cmd \in CliCommands => cmd.op \in SendableOperations
  BY DEF CliCommands, SendableOperations
<1>2. cmd \in {Query, Stop, Home} => cmd.op \in SendableOperations
  BY DEF Query, Stop, Home, SendableOperations
<1> QED
  BY <1>1, <1>2 DEF Sendable

(* The frame of a command is a line.                                        *)
LEMMA CommandIsLine == ASSUME NEW cmd \in Sendable PROVE IsLine(EncodeInto(cmd))
<1> DEFINE p == Payload(cmd)
<1>1. \A v : /\ ~IsTerm(Cell("A#", v)) /\ ~IsTerm(Cell("E#", v)) /\ ~IsTerm(Cell("W#", v))
             /\ ~IsTerm(Cell(" #", v))
  BY DEF IsTerm, Cell
<1>2. /\ ~IsTerm(Word("C")) /\ ~IsTerm(Word("GS")) /\ ~IsTerm(Word("S")) /\ ~IsTerm(Word("?"))
      /\ IsTerm(CR)
  BY DEF IsTerm, CR, Word, Cell
<1>3. IsText(p)
  <2>1. CASE cmd.op = "Azimuth"
    <3>1. p = <<Cell("A#", cmd.az)>>
      BY <2>1 DEF Payload
    <3> QED
      BY <1>1, <3>1, OneCellIsText
  <2>2. CASE cmd.op = "Elevation"
    <3>1. p = <<Cell("E#", cmd.el)>>
      BY <2>2 DEF Payload
    <3> QED
      BY <1>1, <3>1, OneCellIsText
  <2>3. CASE cmd.op = "AzimuthElevation"
    <3>1. p = <<Cell("W#", cmd.az), Cell(" #", cmd.el)>>
      BY <2>3 DEF Payload
    <3>2. ~IsTerm(Cell("W#", cmd.az)) /\ ~IsTerm(Cell(" #", cmd.el))
      BY <1>1, Zenon
    <3>3. IsText(<<Cell("W#", cmd.az), Cell(" #", cmd.el)>>)
      BY <3>2, TwoCellsAreText, Zenon
    <3> QED
      BY <3>1, <3>3, Zenon
  <2>4. CASE cmd.op \in {"QueryPosition", "QueryStatus", "Stop", "KeepAlive"}
    <3>1. \/ p = <<Word("C")>> \/ p = <<Word("GS")>> \/ p = <<Word("S")>> \/ p = <<Word("?")>>
      BY <2>4 DEF Payload
    <3> QED
      BY <1>2, <3>1, OneCellIsText
  <2> QED
    BY <2>1, <2>2, <2>3, <2>4, SendableOps DEF SendableOperations
<1> HIDE DEF p
<1>4. PICK S : p \in Seq(S)
  BY <1>3 DEF IsText
<1>5. \A i \in 1..Len(p) : ~IsTerm(p[i])
  BY <1>3 DEF IsText
<1> QED
  BY <1>2, <1>4, <1>5, TextThenTerm DEF EncodeInto, p

(* A part of the frame of a command is text.                                *)
LEMMA PartIsText ==
  ASSUME NEW s, IsLine(s), NEW n \in 0..(Len(s) - 1)
  PROVE  IsText(SubSeq(s, 1, n))
<1>1. PICK S : s \in Seq(S)
  BY DEF IsLine
<1> DEFINE t == SubSeq(s, 1, n)
<1>2. /\ t \in Seq(S) /\ Len(t) = n
      /\ \A i \in 1..n : t[i] = s[i] /\ i \in 1..Len(s) /\ i # Len(s)
  BY <1>1
<1> HIDE DEF t
<1>3. \A i \in 1..Len(t) : ~IsTerm(t[i])
  BY <1>2, Zenon DEF IsLine
<1>4. IsText(t)
  BY <1>2, <1>3 DEF IsText
<1> QED
  BY <1>4 DEF t

-----------------------------------------------------------------------------
(* Replies are lines                                                        *)

Kinds == {"Ack", "Error", "Position", "AzimuthPosition", "ElevationPosition", "Status",
          "StatusRegister", "ErrorRegister", "ConfigValue"}

(* Whatever the rotator answers is a response or nothing.                   *)
LEMMA FirmwareAnswers ==
  ASSUME NEW cmd, NEW r \in Firmware(cmd), r # None PROVE r.kind \in Kinds
<1>1. DeviceError.kind \in Kinds /\ Ack.kind \in Kinds
  BY DEF DeviceError, Ack, Kinds
<1>2. \A q : q \in (IF Rejects THEN {DeviceError} ELSE {}) => q.kind \in Kinds
  BY <1>1
<1>3. \A q : q \in ResponsesTo(cmd) => q.kind \in Kinds
  <2> SUFFICES ASSUME NEW q, q \in ResponsesTo(cmd), q \notin IF Rejects THEN {DeviceError} ELSE {}
               PROVE  q.kind \in Kinds
    BY <1>2
  <2>1. CASE cmd.op = "QueryPosition"
    BY <2>1 DEF ResponsesTo, Kinds
  <2>2. CASE cmd.op = "QueryAzimuth"
    BY <2>2 DEF ResponsesTo, Kinds
  <2>3. CASE cmd.op = "QueryElevation"
    BY <2>3 DEF ResponsesTo, Kinds
  <2>4. CASE cmd.op \in {"QueryStatus", "GetStatusRegister"}
    BY <2>4 DEF ResponsesTo, Kinds
  <2>5. CASE cmd.op = "GetErrorRegister"
    BY <2>5 DEF ResponsesTo, Kinds
  <2>6. CASE cmd.op = "ReadConfig"
    BY <2>6 DEF ResponsesTo, Kinds
  <2>7. CASE cmd.op \notin {"QueryPosition", "QueryAzimuth", "QueryElevation", "QueryStatus",
                            "GetStatusRegister", "GetErrorRegister", "ReadConfig"}
    BY <1>1, <2>7 DEF ResponsesTo
  <2> QED
    BY <2>1, <2>2, <2>3, <2>4, <2>5, <2>6, <2>7
<1> QED
  BY <1>1, <1>3 DEF Firmware

(* A reply, with a checksum or without, is a line that ends in a terminator
   with the number of the frame it answers.                                 *)
LEMMA LineOfTwo == ASSUME NEW c, NEW d, ~IsTerm(c), IsTerm(d) PROVE IsLine(<<c, d>>)
<1> DEFINE s == <<c, d>>
<1>1. s \in Seq({c, d}) /\ Len(s) = 2 /\ s[1] = c /\ s[2] = d
  OBVIOUS
<1>2. \A i \in 1..Len(s) : i = 1 \/ i = 2
  BY <1>1
<1>3. Len(s) \in Nat \ {0}
  BY <1>1
<1> HIDE DEF s
<1>4. \A i \in 1..Len(s) : IsTerm(s[i]) <=> i = Len(s)
  BY <1>1, <1>2
<1>5. IsLine(s)
  BY <1>1, <1>3, <1>4, Zenon DEF IsLine
<1> QED
  BY <1>5 DEF s

LEMMA LineOfThree ==
  ASSUME NEW c, NEW d, NEW e, ~IsTerm(c), ~IsTerm(d), IsTerm(e) PROVE IsLine(<<c, d, e>>)
<1> DEFINE s == <<c, d, e>>
<1>1. s \in Seq({c, d, e}) /\ Len(s) = 3 /\ s[1] = c /\ s[2] = d /\ s[3] = e
  OBVIOUS
<1>2. \A i \in 1..Len(s) : i = 1 \/ i = 2 \/ i = 3
  BY <1>1
<1>3. Len(s) \in Nat \ {0}
  BY <1>1
<1> HIDE DEF s
<1>4. \A i \in 1..Len(s) : IsTerm(s[i]) <=> i = Len(s)
  BY <1>1, <1>2
<1>5. IsLine(s)
  BY <1>1, <1>3, <1>4, Zenon DEF IsLine
<1> QED
  BY <1>5 DEF s

LEMMA ResponseIsLine == ASSUME NEW r, r.kind \in Kinds PROVE IsLine(EncodeResponse(r))
<1>1. \A v : /\ ~IsTerm(Cell("AZ=#", v)) /\ ~IsTerm(Cell(" EL=#", v)) /\ ~IsTerm(Cell("AZ#", v))
             /\ ~IsTerm(Cell("EL#", v)) /\ ~IsTerm(Cell(".#", v)) /\ ~IsTerm(Cell("ST=#", v))
             /\ ~IsTerm(Cell("GS#", v)) /\ ~IsTerm(Cell("GE#", v)) /\ ~IsTerm(Cell("CR#", v))
             /\ ~IsTerm(Cell(",#", v))
  BY DEF IsTerm, Cell
<1>2. ~IsTerm(Word("+")) /\ ~IsTerm(Word("?")) /\ IsTerm(CR) /\ IsTerm(LF)
  BY DEF IsTerm, CR, LF, Word, Cell
<1>3. CASE r.kind = "Ack"
  <2>1. EncodeResponse(r) = <<Word("+"), CR>>
    BY <1>3 DEF EncodeResponse
  <2> QED
    BY <1>2, <2>1, LineOfTwo
<1>4. CASE r.kind = "Error"
  <2>1. EncodeResponse(r) = <<Word("?"), CR>>
    BY <1>4 DEF EncodeResponse
  <2> QED
    BY <1>2, <2>1, LineOfTwo
<1>5. CASE r.kind = "Position"
  <2>1. EncodeResponse(r) = <<Cell("AZ=#", Keep3(r.az)), Cell(" EL=#", Keep3(r.el)), CR>>
    BY <1>5 DEF EncodeResponse
  <2> QED
    BY <1>1, <1>2, <2>1, LineOfThree, Zenon
<1>6. CASE r.kind = "AzimuthPosition"
  <2>1. EncodeResponse(r) = <<Cell("AZ#", Keep3(r.deg)), Cell(".#", 0), LF>>
    BY <1>6 DEF EncodeResponse
  <2> QED
    BY <1>1, <1>2, <2>1, LineOfThree, Zenon
<1>7. CASE r.kind = "ElevationPosition"
  <2>1. EncodeResponse(r) = <<Cell("EL#", Keep3(r.deg)), Cell(".#", 0), LF>>
    BY <1>7 DEF EncodeResponse
  <2> QED
    BY <1>1, <1>2, <2>1, LineOfThree, Zenon
<1>8. CASE r.kind = "Status"
  <2>1. EncodeResponse(r) = <<Cell("ST=#", r.deg), CR>>
    BY <1>8 DEF EncodeResponse
  <2> QED
    BY <1>1, <1>2, <2>1, LineOfTwo
<1>9. CASE r.kind = "StatusRegister"
  <2>1. EncodeResponse(r) = <<Cell("GS#", r.deg), LF>>
    BY <1>9 DEF EncodeResponse
  <2> QED
    BY <1>1, <1>2, <2>1, LineOfTwo
<1>10. CASE r.kind = "ErrorRegister"
  <2>1. EncodeResponse(r) = <<Cell("GE#", r.deg), LF>>
    BY <1>10 DEF EncodeResponse
  <2> QED
    BY <1>1, <1>2, <2>1, LineOfTwo
<1>11. CASE r.kind = "ConfigValue"
  <2>1. EncodeResponse(r) = <<Cell("CR#", r.register), Cell(",#", r.value), LF>>
    BY <1>11 DEF EncodeResponse
  <2> QED
    BY <1>1, <1>2, <2>1, LineOfThree, Zenon
<1> QED
  BY <1>3, <1>4, <1>5, <1>6, <1>7, <1>8, <1>9, <1>10, <1>11 DEF Kinds

(* A checksum goes in front of the terminator.                              *)
LEMMA SummedIsLine == ASSUME NEW s, IsLine(s) PROVE IsLine(Summed(s))
<1>1. PICK S : s \in Seq(S)
  BY DEF IsLine
<1> DEFINE n == Len(s)
           c == Cell("*#", XorChecksum(Front(s)))
           t == SubSeq(s, 1, n - 1)
           a == Append(t, c)
<1>2. n \in Nat \ {0} /\ IsTerm(s[n]) /\ n - 1 \in 0..(n - 1)
  BY <1>1 DEF IsLine
<1>3. t \in Seq(S) /\ Len(t) = n - 1 /\ IsText(t)
  <2>1. t \in Seq(S) /\ Len(t) = n - 1
    <3>1. n - 1 \in 0..Len(s)
      BY <1>2
    <3>2. \A k \in 0..Len(s) : SubSeq(s, 1, k) \in Seq(S) /\ Len(SubSeq(s, 1, k)) = k
      BY <1>1
    <3> QED
      BY <3>1, <3>2, Zenon
  <2>2. IsText(t)
    BY <1>2, PartIsText, Zenon
  <2> QED
    BY <2>1, <2>2
<1>4. ~IsTerm(c)
  BY DEF IsTerm, Cell
<1>5. Front(s) = t /\ Last(s) = s[n]
  BY <1>1, <1>2 DEF Front, Last
<1> HIDE DEF c
<1>6. a \in Seq(S \cup {c}) /\ Len(a) = n /\ a[n] = c /\ \A i \in 1..(n - 1) : a[i] = t[i]
  <2>1. t \in Seq(S \cup {c}) /\ c \in S \cup {c}
    BY <1>3
  <2> HIDE DEF t, n
  <2> QED
    BY <1>2, <1>3, <2>1
<1> HIDE DEF t, n
<1>7. \A i \in 1..Len(a) : ~IsTerm(a[i])
  <2> SUFFICES ASSUME NEW i \in 1..Len(a) PROVE ~IsTerm(a[i])
    OBVIOUS
  <2>1. CASE i = n
    BY <1>4, <1>6, <2>1, Zenon
  <2>2. CASE i # n
    <3>1. i \in 1..(n - 1)
      BY <1>2, <1>6, <2>2
    <3>2. a[i] = t[i] /\ i \in 1..Len(t)
      BY <1>3, <1>6, <3>1
    <3>3. ~IsTerm(t[i])
      BY <1>3, <3>2, Zenon DEF IsText
    <3> QED
      BY <3>2, <3>3, Zenon
  <2> QED
    BY <2>1, <2>2
<1> HIDE DEF a
<1>8. IsLine(Append(a, s[n]))
  BY <1>2, <1>6, <1>7, TextThenTerm
<1>9. Summed(s) = Append(a, s[n])
  <2>1. Summed(s) = t \o <<c, s[n]>>
    BY <1>5 DEF Summed, c, t
  <2>2. s[n] \in S \cup {c, s[n]} /\ c \in S \cup {c, s[n]} /\ t \in Seq(S \cup {c, s[n]})
    BY <1>3
  <2>3. ASSUME NEW T, NEW x \in T, NEW y \in T, NEW q \in Seq(T)
        PROVE  q \o <<x, y>> = Append(Append(q, x), y)
    OBVIOUS
  <2> QED
    BY <2>1, <2>2, <2>3 DEF a
<1> QED
  BY <1>8, <1>9

(* The numbers of the terminators do not change what is one.                *)
LEMMA ReplyIsLine ==
  ASSUME Newlines = FALSE, NEW r, r.kind \in Kinds, r # None, NEW sum \in BOOLEAN, NEW id \in Int
  PROVE  /\ IsLine(ReplyFrame(r, sum, id))
         /\ \A i \in 1..Len(ReplyFrame(r, sum, id)) :
              IsTerm(ReplyFrame(r, sum, id)[i]) => ReplyFrame(r, sum, id)[i].v = id
<1> DEFINE cells == IF sum THEN Summed(EncodeResponse(r)) ELSE EncodeResponse(r)
           n == Len(cells)
           f == [i \in 1..n |-> IF IsTerm(cells[i]) THEN Cell(cells[i].k, id) ELSE cells[i]]
<1>1. IsLine(cells)
  BY ResponseIsLine, SummedIsLine
<1>2. PICK S : cells \in Seq(S)
  BY <1>1 DEF IsLine
<1>3. n \in Nat \ {0} /\ DOMAIN cells = 1..n
  BY <1>1, <1>2 DEF IsLine
<1>4. cells \o <<>> = cells
  BY <1>2
<1>5. ReplyFrame(r, sum, id) = f
  BY <1>3, <1>4 DEF ReplyFrame
<1> HIDE DEF cells
<1>6. \A i \in 1..n : IsTerm(Cell(cells[i].k, id)) <=> IsTerm(cells[i])
  BY DEF IsTerm, Cell
<1>7. \A i \in 1..n : IsTerm(f[i]) <=> i = n
  BY <1>1, <1>6 DEF IsLine
<1>8. f \in Seq({f[i] : i \in 1..n}) /\ Len(f) = n
  <2>1. \A m \in Nat : \A T : \A h \in [1..m -> T] : h \in Seq(T) /\ Len(h) = m
    OBVIOUS
  <2>2. f \in [1..n -> {f[i] : i \in 1..n}]
    BY Zenon
  <2> HIDE DEF f, n
  <2> QED
    BY <1>3, <2>1, <2>2, Zenon
<1>9. IsLine(f)
  BY <1>3, <1>7, <1>8, Zenon DEF IsLine
<1>10. \A i \in 1..n : IsTerm(f[i]) => f[i].v = id
  BY <1>6 DEF Cell
<1> QED
  BY <1>5, <1>8, <1>9, <1>10

-----------------------------------------------------------------------------
(* The inductive invariant                                                  *)

(* What is on its way to the host are replies to successive frames, each of
   them later than the last answer send has returned.                       *)
Arriving(mid, g, h) ==
  /\ Numbered(rxq, g, src, mid) /\ Valued(rxq, g)
  /\ Numbered(wire, h, mid, Len(replies)) /\ Valued(wire, h)

ReplyInv == \E mid \in src..Len(replies) : \E g, h : Arriving(mid, g, h)

(* What is on its way to the rotator are the frames it has not answered: no
   more than were written whole.                                            *)
QueueInv == \E g : Numbered(txq, g, Len(replies), seq)

(* Every send that was written whole is answered, has been given up, or is
   the one that waits; and each answer came from a later frame.             *)
Waiting == IF pc = "reading" THEN 1 ELSE 0

CountInv ==
  /\ seq \in Nat /\ misses \in Nat /\ src \in Nat /\ Len(replies) \in Nat
  /\ seq <= MaxSends /\ Len(replies) <= seq
  /\ misses + Waiting <= seq
  /\ seq - misses - Waiting <= src

BufferTypes ==
  /\ pc \in {"idle", "reading"}
  /\ result.tag \in {"Pending", "Ok", "Parse", "Timeout", "Transport", "InvalidParam"}
  /\ \E S : dbuf \in Seq(S)
  /\ \E S : replies \in Seq(S)
  /\ Len(dbuf) <= MAX_CMD_FRAME

LinkInv == ReplyInv /\ QueueInv /\ CountInv /\ BufferTypes

LEMMA InitLinkInv == LinkInit => LinkInv
<1> SUFFICES ASSUME LinkInit PROVE LinkInv
  OBVIOUS
<1>1. /\ rxq = <<>> /\ wire = <<>> /\ txq = <<>> /\ dbuf = <<>> /\ replies = <<>>
      /\ seq = 0 /\ misses = 0 /\ src = 0 /\ pc = "idle" /\ result = Pending
  BY DEF LinkInit, Init
<1>2. Len(replies) = 0 /\ <<>> \in Seq({})
  BY <1>1
<1>3. CountInv
  BY <1>1, <1>2, SwitchesAssumption DEF CountInv, Waiting
<1>4. BufferTypes
  BY <1>1, <1>2, CapacitiesAssumption DEF BufferTypes, Pending
<1>5. QueueInv
  BY <1>1, <1>2, NumberedNothing DEF QueueInv
<1>6. ReplyInv
  <2>1. Arriving(0, <<>>, <<>>)
    BY <1>1, <1>2, NumberedNothing DEF Arriving
  <2>2. 0 \in src..Len(replies)
    BY <1>1, <1>2
  <2> QED
    BY <2>1, <2>2, Zenon DEF ReplyInv
<1> QED
  BY <1>3, <1>4, <1>5, <1>6 DEF LinkInv

(* A whole frame, or the start of one, is written.                          *)
LEMMA FrameWritten ==
  ASSUME LinkInv, NEW cmd \in Sendable, txq' = txq \o EncodeInto(cmd), seq' = seq + 1,
         UNCHANGED replies
  PROVE  QueueInv'
<1>1. PICK g : Numbered(txq, g, Len(replies), seq)
  BY DEF LinkInv, QueueInv
<1> DEFINE f == EncodeInto(cmd)
           h == [i \in 1..Len(f) |-> seq + 1]
<1>2. seq \in Int /\ Len(replies) \in Int /\ Len(replies) <= seq /\ seq + 1 - 1 = seq
  BY DEF LinkInv, CountInv
<1>3. IsLine(f)
  BY CommandIsLine
<1> HIDE DEF f
<1>4. PICK S : f \in Seq(S)
  BY <1>3 DEF IsLine
<1>5. \A i \in 1..Len(f) : IsTerm(f[i]) => i = Len(f)
  BY <1>3 DEF IsLine
<1>6. Numbered(f, h, seq, seq + 1)
  <2>1. seq + 1 \in Int
    BY <1>2
  <2>2. Numbered(f, h, (seq + 1) - 1, seq + 1)
    BY <1>4, <1>5, <2>1, NumberedLine, Zenon
  <2> HIDE DEF h
  <2> QED
    BY <1>2, <2>2
<1> HIDE DEF h
<1>7. Numbered(txq \o f, g \o h, Len(replies), seq + 1)
  BY <1>1, <1>2, <1>6, NumberedConcat
<1> QED
  BY <1>7 DEF QueueInv, f

LEMMA PartWritten ==
  ASSUME LinkInv, NEW t, IsText(t), txq' = txq \o t, UNCHANGED <<seq, replies>>
  PROVE  QueueInv'
<1>1. PICK g : Numbered(txq, g, Len(replies), seq)
  BY DEF LinkInv, QueueInv
<1> DEFINE h == [i \in 1..Len(t) |-> seq]
<1>2. seq \in Int /\ Len(replies) \in Int /\ Len(replies) <= seq
  BY DEF LinkInv, CountInv
<1>3. PICK S : t \in Seq(S)
  BY DEF IsText
<1>4. \A i \in 1..Len(t) : ~IsTerm(t[i])
  BY DEF IsText
<1>5. Numbered(t, h, seq, seq)
  BY <1>2, <1>3, <1>4, NumberedText, Zenon
<1> HIDE DEF h
<1>6. Numbered(txq \o t, g \o h, Len(replies), seq)
  BY <1>1, <1>2, <1>5, NumberedConcat
<1> QED
  BY <1>6 DEF QueueInv

(* A step that neither receives nor answers.                                *)
LEMMA SameReplies ==
  ASSUME LinkInv, UNCHANGED <<rxq, wire, replies, src>> PROVE ReplyInv'
  BY DEF LinkInv, ReplyInv, Arriving

LEMMA HostSendKeeps ==
  ASSUME LinkInv, NEW cmd \in Sendable, HostSend(cmd) PROVE LinkInv'
<1>1. /\ UNCHANGED <<rxq, wire, replies, src, dbuf>> /\ pc = "idle"
      /\ seq < MaxSends
  BY DEF HostSend, SendInvalid, SendWrite, SendWriteFails, deviceVars, historyVars
<1>2. ReplyInv'
  BY <1>1, SameReplies
<1>3. CASE SendInvalid(cmd) /\ UNCHANGED historyVars
  <2>1. UNCHANGED <<txq, seq, misses, pc>> /\ result' = InvalidParam
    BY <1>3 DEF SendInvalid, historyVars
  <2>2. QueueInv'
    BY <1>1, <2>1 DEF LinkInv, QueueInv
  <2>3. CountInv' /\ BufferTypes'
    BY <1>1, <2>1 DEF LinkInv, CountInv, BufferTypes, Waiting, InvalidParam
  <2> QED
    BY <1>2, <2>2, <2>3 DEF LinkInv
<1>4. CASE SendWrite(cmd) /\ seq' = seq + 1 /\ UNCHANGED <<misses, src>>
  <2>1. txq' = txq \o EncodeInto(cmd) /\ pc' = "reading" /\ result' = Pending
    BY <1>4 DEF SendWrite
  <2>2. QueueInv'
    BY <1>1, <1>4, <2>1, FrameWritten
  <2>3. CountInv' /\ BufferTypes'
    BY <1>1, <1>4, <2>1, SwitchesAssumption DEF LinkInv, CountInv, BufferTypes, Waiting, Pending
  <2> QED
    BY <1>2, <2>2, <2>3 DEF LinkInv
<1>5. ASSUME NEW n \in 0..Len(EncodeInto(cmd)), SendWriteFails(cmd, n),
             seq'    = IF n = Len(EncodeInto(cmd)) THEN seq + 1 ELSE seq,
             misses' = IF n = Len(EncodeInto(cmd)) THEN misses + 1 ELSE misses
      PROVE  LinkInv'
  <2>1. /\ txq' = txq \o SubSeq(EncodeInto(cmd), 1, n) /\ UNCHANGED pc /\ result' = Transport
    BY <1>5 DEF SendWriteFails
  <2>2. CountInv' /\ BufferTypes'
    <3>1. BufferTypes'
      BY <1>1, <2>1 DEF LinkInv, BufferTypes, Transport
    <3>2. \/ seq' = seq + 1 /\ misses' = misses + 1
          \/ seq' = seq /\ misses' = misses
      BY <1>5
    <3>3. CountInv'
      BY <1>1, <2>1, <3>2, SwitchesAssumption DEF LinkInv, CountInv, Waiting
    <3> QED
      BY <3>1, <3>3
  <2>3. IsLine(EncodeInto(cmd))
    BY CommandIsLine
  <2>4. QueueInv'
    <3>1. CASE n = Len(EncodeInto(cmd))
      <4>1. PICK S : EncodeInto(cmd) \in Seq(S)
        BY <2>3 DEF IsLine
      <4>2. SubSeq(EncodeInto(cmd), 1, n) = EncodeInto(cmd)
        BY <3>1, <4>1
      <4> QED
        BY <1>1, <1>5, <2>1, <3>1, <4>2, FrameWritten
    <3>2. CASE n # Len(EncodeInto(cmd))
      <4>1. n \in 0..(Len(EncodeInto(cmd)) - 1)
        BY <1>5, <2>3, <3>2 DEF IsLine
      <4>2. IsText(SubSeq(EncodeInto(cmd), 1, n))
        BY <2>3, <4>1, PartIsText
      <4> QED
        BY <1>1, <1>5, <2>1, <3>2, <4>2, PartWritten
    <3> QED
      BY <3>1, <3>2
  <2> QED
    BY <1>2, <2>2, <2>4 DEF LinkInv
<1> QED
  BY <1>3, <1>4, <1>5 DEF HostSend

(* The first cell of the queue is taken.                                    *)
LEMMA TextRead == ASSUME LinkInv, HostReadsText PROVE LinkInv'
<1>1. /\ UNCHANGED <<txq, wire, replies, src, dbuf, seq, misses, pc, result>>
      /\ rxq # <<>> /\ rxq' = Tail(rxq)
  BY DEF HostReadsText, ReadText, deviceVars, historyVars
<1>2. PICK mid, g, h : mid \in src..Len(replies) /\ Arriving(mid, g, h)
  BY Zenon DEF LinkInv, ReplyInv
<1>3. mid \in Int /\ src \in Int
  BY <1>2 DEF LinkInv, CountInv
<1>4. Numbered(Tail(rxq), Tail(g), src, mid) /\ Valued(Tail(rxq), Tail(g))
  BY <1>1, <1>2, <1>3, NumberedTail DEF Arriving
<1>5. Arriving(mid, Tail(g), h)'
  BY <1>1, <1>2, <1>4 DEF Arriving
<1>6. ReplyInv'
  <2>1. mid \in (src..Len(replies))'
    BY <1>1, <1>2
  <2> QED
    BY <1>5, <2>1, Zenon DEF ReplyInv
<1>7. QueueInv' /\ CountInv' /\ BufferTypes'
  BY <1>1 DEF LinkInv, QueueInv, CountInv, BufferTypes, Waiting
<1> QED
  BY <1>6, <1>7 DEF LinkInv

(* A terminator that ends a send carries a larger number than the last.     *)
LEMMA TermAhead ==
  ASSUME LinkInv, rxq # <<>>, IsTerm(Head(rxq))
  PROVE  /\ src < Head(rxq).v /\ Head(rxq).v <= Len(replies) /\ Head(rxq).v \in Int
         /\ \E mid \in Head(rxq).v..Len(replies) : \E g, h :
              /\ Numbered(Tail(rxq), g, Head(rxq).v, mid) /\ Valued(Tail(rxq), g)
              /\ Numbered(wire, h, mid, Len(replies)) /\ Valued(wire, h)
<1>1. PICK mid, g, h : mid \in src..Len(replies) /\ Arriving(mid, g, h)
  BY Zenon DEF LinkInv, ReplyInv
<1>2. mid \in Int /\ src \in Int /\ mid <= Len(replies) /\ Len(replies) \in Int
  BY <1>1 DEF LinkInv, CountInv
<1>3. /\ g[1] \in Int /\ src < g[1] /\ g[1] <= mid
      /\ Numbered(Tail(rxq), Tail(g), g[1], mid)
      /\ Head(rxq).v = g[1]
  BY <1>1, <1>2, NumberedTailTerm DEF Arriving
<1>4. Valued(Tail(rxq), Tail(g))
  BY <1>1, <1>2, NumberedTail DEF Arriving
<1>5. Numbered(wire, h, mid, Len(replies)) /\ Valued(wire, h)
  BY <1>1 DEF Arriving
<1>6. mid \in Head(rxq).v..Len(replies)
  BY <1>2, <1>3
<1>7. Numbered(Tail(rxq), Tail(g), Head(rxq).v, mid)
  BY <1>3
<1>8. src < Head(rxq).v /\ Head(rxq).v <= Len(replies) /\ Head(rxq).v \in Int
  BY <1>2, <1>3
<1> QED
  BY <1>4, <1>5, <1>6, <1>7, <1>8, Zenon

LEMMA TermRead ==
  ASSUME LinkInv, HostReadsTerm
  PROVE  LinkInv' /\ (pc' = "idle" => src' > src)
<1> DEFINE n == Head(rxq).v
<1>1. /\ UNCHANGED <<txq, wire, replies, dbuf, seq, misses>>
      /\ pc = "reading" /\ rxq # <<>> /\ IsTerm(Head(rxq)) /\ rxq' = Tail(rxq)
      /\ \/ pc' = "reading" /\ src' = src /\ result' = result
         \/ pc' = "idle" /\ src' = n /\ result' = Decode(pbuf)
  BY DEF HostReadsTerm, ReadTerm, Return, Feed, deviceVars
<1>2. n \in Int /\ src < n /\ n <= Len(replies)
  BY <1>1, TermAhead
<1>3. PICK mid, g, h :
        /\ mid \in n..Len(replies)
        /\ Numbered(Tail(rxq), g, n, mid) /\ Valued(Tail(rxq), g)
        /\ Numbered(wire, h, mid, Len(replies)) /\ Valued(wire, h)
  BY <1>1, TermAhead, Zenon
<1> HIDE DEF n
<1>4. src \in Int /\ Len(replies) \in Int /\ mid \in Int /\ mid \in src..Len(replies)
  BY <1>2, <1>3 DEF LinkInv, CountInv
<1>5. src' \in Int /\ src' <= n /\ (src' = src \/ src' = n)
  BY <1>1, <1>2, <1>4
<1>6. Numbered(rxq', g, src', mid)
  BY <1>1, <1>2, <1>3, <1>4, <1>5, Widen
<1>7. Arriving(mid, g, h)'
  BY <1>1, <1>3, <1>6 DEF Arriving
<1>8. ReplyInv'
  <2>1. mid \in (src..Len(replies))'
    BY <1>1, <1>2, <1>3, <1>4, <1>5
  <2> QED
    BY <1>7, <2>1, Zenon DEF ReplyInv
<1>9. QueueInv'
  BY <1>1 DEF LinkInv, QueueInv
<1>10. CountInv'
  BY <1>1, <1>2, <1>5 DEF LinkInv, CountInv, Waiting
<1>11. BufferTypes'
  BY <1>1, DecodeTag DEF LinkInv, BufferTypes
<1>12. pc' = "idle" => src' > src
  BY <1>1, <1>2, <1>4
<1> QED
  BY <1>8, <1>9, <1>10, <1>11, <1>12 DEF LinkInv

LEMMA GivenUp == ASSUME LinkInv, HostGivesUp PROVE LinkInv'
<1>1. /\ UNCHANGED <<rxq, wire, txq, replies, src, dbuf, seq>>
      /\ misses' = misses + 1 /\ pc = "reading" /\ pc' = "idle" /\ result' \in {Timeout, Transport}
  BY DEF HostGivesUp, ReadNothing, ReadFails, Return, deviceVars
<1>2. ReplyInv'
  BY <1>1, SameReplies
<1>3. QueueInv'
  BY <1>1 DEF LinkInv, QueueInv
<1>4. CountInv' /\ BufferTypes'
  BY <1>1 DEF LinkInv, CountInv, BufferTypes, Waiting, Timeout, Transport
<1> QED
  BY <1>2, <1>3, <1>4 DEF LinkInv

(* A cell moves from the line to the host's queue, or is lost.              *)
LEMMA CellArrives == ASSUME LinkInv, Deliver PROVE LinkInv'
<1> DEFINE c == Head(wire)
<1>1. /\ UNCHANGED <<txq, replies, src, dbuf, seq, misses, pc, result>>
      /\ wire # <<>> /\ wire' = Tail(wire) /\ rxq' = Append(rxq, c)
  BY DEF Deliver, historyVars
<1>2. PICK mid, g, h : mid \in src..Len(replies) /\ Arriving(mid, g, h)
  BY Zenon DEF LinkInv, ReplyInv
<1>3. mid \in Int /\ src \in Int /\ Len(replies) \in Int /\ src <= mid /\ mid <= Len(replies)
  BY <1>2 DEF LinkInv, CountInv
<1>4. PICK S : rxq \in Seq(S)
  BY <1>2 DEF Arriving, Numbered
<1>5. Append(rxq, c) = rxq \o <<c>>
  <2>1. rxq \in Seq(S \cup {c}) /\ c \in S \cup {c}
    BY <1>4
  <2> HIDE DEF c
  <2> QED
    BY <2>1
<1>6. <<c>> \in Seq({c}) /\ Len(<<c>>) = 1 /\ <<c>>[1] = c
  OBVIOUS
<1>7. CASE IsTerm(c)
  <2>0. PICK k : k = h[1]
    OBVIOUS
  <2> DEFINE f == [i \in 1..Len(<<c>>) |-> k]
  <2>1. /\ k \in Int /\ mid < k /\ k <= Len(replies) /\ c.v = k
        /\ Numbered(Tail(wire), Tail(h), k, Len(replies))
        /\ Valued(Tail(wire), Tail(h))
    BY <1>1, <1>2, <1>3, <1>7, <2>0, NumberedTail, NumberedTailTerm DEF Arriving
  <2> HIDE DEF c
  <2>2. \A i \in 1..Len(<<c>>) : i = 1 /\ i = Len(<<c>>) /\ <<c>>[i].v = k
    BY <1>6, <2>1
  <2>3. Numbered(<<c>>, f, k - 1, k) /\ Valued(<<c>>, f)
    BY <1>6, <2>1, <2>2, NumberedLine, Zenon
  <2> HIDE DEF f
  <2>4. Numbered(<<c>>, f, mid, k)
    BY <1>3, <2>1, <2>3, Widen
  <2>5. Numbered(rxq \o <<c>>, g \o f, src, k) /\ Valued(rxq \o <<c>>, g \o f)
    BY <1>2, <1>3, <2>1, <2>3, <2>4, NumberedConcat DEF Arriving
  <2>6. PICK q : Numbered(rxq', q, src, k) /\ Valued(rxq', q)
    BY <1>1, <1>5, <2>5, Zenon
  <2>7. Arriving(k, q, Tail(h))'
    BY <1>1, <2>1, <2>6 DEF Arriving
  <2>8. k \in (src..Len(replies))'
    BY <1>1, <1>3, <2>1
  <2>9. ReplyInv'
    BY <2>7, <2>8, Zenon DEF ReplyInv
  <2> QED
    BY <1>1, <2>9 DEF LinkInv, QueueInv, CountInv, BufferTypes, Waiting
<1>8. CASE ~IsTerm(c)
  <2> DEFINE f == [i \in 1..Len(<<c>>) |-> mid]
  <2>1. /\ Numbered(Tail(wire), Tail(h), mid, Len(replies))
        /\ Valued(Tail(wire), Tail(h))
    BY <1>1, <1>2, <1>3, NumberedTail DEF Arriving
  <2> HIDE DEF c
  <2>2. \A i \in 1..Len(<<c>>) : <<c>>[i] = c
    BY <1>6
  <2>3. Numbered(<<c>>, f, mid, mid) /\ Valued(<<c>>, f)
    BY <1>3, <1>6, <1>8, <2>2, NumberedText, Zenon
  <2> HIDE DEF f
  <2>4. Numbered(rxq \o <<c>>, g \o f, src, mid) /\ Valued(rxq \o <<c>>, g \o f)
    BY <1>2, <1>3, <2>3, NumberedConcat DEF Arriving
  <2>5. PICK q : Numbered(rxq', q, src, mid) /\ Valued(rxq', q)
    BY <1>1, <1>5, <2>4, Zenon
  <2>6. Arriving(mid, q, Tail(h))'
    BY <1>1, <2>1, <2>5 DEF Arriving
  <2>7. mid \in (src..Len(replies))'
    BY <1>1, <1>2
  <2>8. ReplyInv'
    BY <2>6, <2>7, Zenon DEF ReplyInv
  <2> QED
    BY <1>1, <2>8 DEF LinkInv, QueueInv, CountInv, BufferTypes, Waiting
<1> QED
  BY <1>7, <1>8

LEMMA CellLost == ASSUME LinkInv, Lose PROVE LinkInv'
<1>1. UNCHANGED <<rxq, replies, src, dbuf, seq, misses, pc, result>>
  BY DEF Lose, historyVars
<1>2. CountInv' /\ BufferTypes'
  BY <1>1 DEF LinkInv, CountInv, BufferTypes, Waiting
<1>3. src \in Int /\ Len(replies) \in Int /\ seq \in Int
  BY DEF LinkInv, CountInv
<1>4. CASE wire # <<>> /\ wire' = Tail(wire) /\ UNCHANGED txq
  <2>1. PICK mid, g, h : mid \in src..Len(replies) /\ Arriving(mid, g, h)
    BY Zenon DEF LinkInv, ReplyInv
  <2>2. Numbered(Tail(wire), Tail(h), mid, Len(replies)) /\ Valued(Tail(wire), Tail(h))
    BY <1>3, <1>4, <2>1, NumberedTail DEF Arriving
  <2>3. Arriving(mid, g, Tail(h))'
    BY <1>1, <1>4, <2>1, <2>2 DEF Arriving
  <2>4. mid \in (src..Len(replies))'
    BY <1>1, <2>1
  <2>5. ReplyInv'
    BY <2>3, <2>4, Zenon DEF ReplyInv
  <2> QED
    BY <1>1, <1>2, <1>4, <2>5 DEF LinkInv, QueueInv
<1>5. CASE txq # <<>> /\ txq' = Tail(txq) /\ UNCHANGED wire
  <2>1. PICK g : Numbered(txq, g, Len(replies), seq)
    BY DEF LinkInv, QueueInv
  <2>2. Numbered(Tail(txq), Tail(g), Len(replies), seq)
    BY <1>3, <1>5, <2>1, NumberedTail
  <2>3. QueueInv'
    BY <1>1, <1>5, <2>2 DEF QueueInv
  <2> QED
    BY <1>1, <1>2, <1>5, <2>3, SameReplies DEF LinkInv
<1> QED
  BY <1>4, <1>5 DEF Lose

(* The rotator reads a cell, and answers a terminator or keeps silent.       *)
LEMMA RotatorBuffer ==
  ASSUME LinkInv, NEW sum \in BOOLEAN, DeviceRead(sum)
  PROVE  (\E S : dbuf' \in Seq(S)) /\ Len(dbuf') <= MAX_CMD_FRAME
<1> DEFINE c == Head(txq)
<1>1. dbuf' = FeedCommand(dbuf, c).buf
  BY DEF DeviceRead
<1>2. PICK S : dbuf \in Seq(S)
  BY DEF LinkInv, BufferTypes
<1> HIDE DEF c
<1>3. dbuf \in Seq(S \cup {c}) /\ c \in S \cup {c} /\ Len(dbuf) <= MAX_CMD_FRAME
  BY <1>2 DEF LinkInv, BufferTypes
<1>4. /\ dbuf' \in {<<>>, Append(dbuf, c)}
      /\ dbuf' = Append(dbuf, c) => Len(dbuf) < MAX_CMD_FRAME \/ dbuf' = <<>>
  BY <1>1 DEF FeedCommand
<1>5. CASE dbuf' = <<>>
  <2>1. dbuf' \in Seq({}) /\ Len(dbuf') = 0
    BY <1>5
  <2> QED
    BY <2>1, CapacitiesAssumption
<1>6. CASE dbuf' # <<>>
  <2>1. dbuf' = Append(dbuf, c) /\ Len(dbuf) < MAX_CMD_FRAME
    BY <1>4, <1>6
  <2>2. dbuf' \in Seq(S \cup {c}) /\ Len(dbuf') = Len(dbuf) + 1 /\ Len(dbuf) \in Nat
    BY <1>3, <2>1
  <2> QED
    BY <2>1, <2>2, CapacitiesAssumption
<1> QED
  BY <1>5, <1>6

LEMMA RotatorReads ==
  ASSUME Echoes = FALSE, Newlines = FALSE, LinkInv, NEW sum \in BOOLEAN, DeviceRead(sum)
  PROVE  LinkInv'
<1>1. /\ UNCHANGED <<rxq, src, seq, misses, pc, result>>
      /\ txq # <<>> /\ txq' = Tail(txq)
  BY DEF DeviceRead, historyVars
<1>2. (\E S : dbuf' \in Seq(S)) /\ Len(dbuf') <= MAX_CMD_FRAME
  BY RotatorBuffer
<1>3. src \in Int /\ Len(replies) \in Nat /\ seq \in Nat /\ Len(replies) <= seq
  BY DEF LinkInv, CountInv
<1>4. PICK g : Numbered(txq, g, Len(replies), seq)
  BY DEF LinkInv, QueueInv
<1>5. PICK S : replies \in Seq(S)
  BY DEF LinkInv, BufferTypes
<1>6. PICK mid, h, k : mid \in src..Len(replies) /\ Arriving(mid, h, k)
  BY Zenon DEF LinkInv, ReplyInv
<1>7. mid \in Int /\ src <= mid /\ mid <= Len(replies) /\ Len(replies) \in Int /\ seq \in Int
  BY <1>3, <1>6
<1>8. PICK W : wire \in Seq(W)
  BY <1>6 DEF Arriving, Numbered
<1>9. wire \o <<>> = wire
  BY <1>8
<1>10. CASE ~IsTerm(Head(txq))
  <2>1. wire' = wire /\ replies' = replies
    BY <1>9, <1>10 DEF DeviceRead, EchoOf
  <2>2. Numbered(Tail(txq), Tail(g), Len(replies), seq)
    BY <1>1, <1>4, <1>7, NumberedTail
  <2>3. QueueInv'
    BY <1>1, <2>1, <2>2 DEF QueueInv
  <2>4. ReplyInv'
    BY <1>1, <2>1, SameReplies
  <2>5. CountInv' /\ BufferTypes'
    BY <1>1, <1>2, <2>1 DEF LinkInv, CountInv, BufferTypes, Waiting
  <2> QED
    BY <2>3, <2>4, <2>5 DEF LinkInv
<1>11. CASE IsTerm(Head(txq))
  <2>1. PICK cmd, r :
          /\ r \in Firmware(cmd)
          /\ replies' = Append(replies, [to |-> cmd, resp |-> r])
          /\ wire' = (wire \o <<>>) \o ReplyFrame(r, sum, Len(replies'))
    <3> DEFINE cmd == FeedCommand(dbuf, Head(txq)).out
    <3>1. \E r \in Firmware(cmd) :
            /\ replies' = Append(replies, [to |-> cmd, resp |-> r])
            /\ wire' = (wire \o <<>>) \o ReplyFrame(r, sum, Len(replies'))
      BY <1>11 DEF DeviceRead, EchoOf
    <3> HIDE DEF cmd
    <3> QED
      BY <3>1, Zenon
  <2> DEFINE e == [to |-> cmd, resp |-> r]
  <2>2. replies' \in Seq(S \cup {e}) /\ Len(replies') = Len(replies) + 1
    <3>1. replies \in Seq(S \cup {e}) /\ e \in S \cup {e}
      BY <1>5
    <3>2. replies' = Append(replies, e)
      BY <2>1
    <3> HIDE DEF e
    <3> QED
      BY <3>1, <3>2
  <2> HIDE DEF e
  <2>3. PICK n \in Int : n = Len(replies) + 1 /\ n = Len(replies') /\ n - 1 = Len(replies)
    BY <1>3, <2>2
  <2>4. /\ g[1] \in Int /\ n <= g[1] /\ g[1] <= seq
        /\ Numbered(Tail(txq), Tail(g), g[1], seq)
    BY <1>1, <1>4, <1>7, <1>11, <2>3, NumberedTailTerm
  <2>5. Numbered(Tail(txq), Tail(g), n, seq)
    BY <1>7, <2>4, Widen
  <2>6. QueueInv'
    <3>1. Numbered(txq', Tail(g), Len(replies'), seq')
      BY <1>1, <2>3, <2>5
    <3> QED
      BY <3>1, Zenon DEF QueueInv
  <2>7. CountInv'
    BY <1>1, <1>7, <2>3, <2>4 DEF LinkInv, CountInv, Waiting
  <2>8. BufferTypes'
    BY <1>1, <1>2, <2>2 DEF LinkInv, BufferTypes
  <2>9. ReplyInv'
    <3> DEFINE f == ReplyFrame(r, sum, n)
    <3>1. wire' = wire \o f
      BY <1>9, <2>1, <2>3
    <3>2. \E q : Numbered(f, q, Len(replies), n) /\ Valued(f, q)
      <4>1. CASE r = None
        <5>1. f = <<>>
          BY <4>1 DEF ReplyFrame
        <5> HIDE DEF f
        <5> QED
          BY <1>7, <5>1, NumberedNothing
      <4>2. CASE r # None
        <5>1. r.kind \in Kinds
          BY <2>1, <4>2, FirmwareAnswers
        <5>2. /\ IsLine(f)
              /\ \A i \in 1..Len(f) : IsTerm(f[i]) => f[i].v = n
          BY <4>2, <5>1, ReplyIsLine
        <5> HIDE DEF f
        <5>3. PICK T : f \in Seq(T)
          BY <5>2 DEF IsLine
        <5>4. \A i \in 1..Len(f) : IsTerm(f[i]) => i = Len(f)
          BY <5>2 DEF IsLine
        <5> DEFINE q == [i \in 1..Len(f) |-> n]
        <5>5. Numbered(f, q, n - 1, n) /\ Valued(f, q)
          BY <5>2, <5>3, <5>4, NumberedLine, Zenon
        <5> HIDE DEF q
        <5>6. Numbered(f, q, Len(replies), n)
          BY <2>3, <5>5
        <5> QED
          BY <5>5, <5>6, Zenon
      <4> QED
        BY <4>1, <4>2
    <3> HIDE DEF f
    <3>3. PICK q : Numbered(f, q, Len(replies), n) /\ Valued(f, q)
      BY <3>2
    <3>4. Numbered(wire \o f, k \o q, mid, n) /\ Valued(wire \o f, k \o q)
      BY <1>6, <1>7, <2>3, <3>3, NumberedConcat DEF Arriving
    <3>5. PICK j : Numbered(wire', j, mid, n) /\ Valued(wire', j)
      BY <3>1, <3>4, Zenon
    <3>6. Arriving(mid, h, j)'
      BY <1>1, <1>6, <2>3, <3>5 DEF Arriving
    <3>7. mid \in (src..Len(replies))'
      BY <1>1, <1>7, <2>3
    <3> QED
      BY <3>6, <3>7, Zenon DEF ReplyInv
  <2> QED
    BY <2>6, <2>7, <2>8, <2>9 DEF LinkInv
<1> QED
  BY <1>10, <1>11

-----------------------------------------------------------------------------
(* The programs                                                             *)

(* Where a program is, and what it has printed.                             *)
ProgInv ==
  /\ prog \in Programs /\ medium \in Media(prog)
  /\ at \in {"call", "sent", "ended"}
  /\ pc = "reading" => at = "sent"
  /\ \E S : reports \in Seq(S)
  /\ Len(reports) <= Len(HomeCommands)
  /\ prog = "serial_home" /\ at # "ended" => Len(reports) < Len(HomeCommands)
  /\ lost \in 0..MaxLosses

ClientInv == LinkInv /\ ProgInv

LEMMA HomeHasThree == Len(HomeCommands) = 3 /\ \A i \in 1..3 : HomeCommands[i] \in Sendable
<1>1. HomeCommands[1] = Stop /\ HomeCommands[2] = Home /\ HomeCommands[3] = Query
  BY DEF HomeCommands
<1>2. {Query, Stop, Home} \subseteq Sendable
  BY DEF Sendable
<1>3. Len(HomeCommands) = 3
  BY DEF HomeCommands
<1>4. \A i \in 1..3 : i = 1 \/ i = 2 \/ i = 3
  OBVIOUS
<1>5. Stop \in Sendable /\ Home \in Sendable /\ Query \in Sendable
  BY <1>2
<1> QED
  BY <1>1, <1>3, <1>4, <1>5, Zenon

(* A program sends only commands that have a frame.                         *)
LEMMA CallSends == ASSUME ProgInv, Call PROVE \E cmd \in Sendable \cap Commands : HostSend(cmd)
<1>1. CASE PollCalls
  <2>1. Query \in Sendable /\ Query \in Commands
    BY ProgramCommandsAssumption DEF Sendable
  <2> QED
    BY <1>1, <2>1, Zenon DEF PollCalls
<1>2. CASE HomeCalls
  <2> DEFINE i == Len(reports) + 1
  <2>1. i \in 1..3
    <3>1. Len(reports) < 3 /\ Len(reports) \in Nat
      BY <1>2, HomeHasThree DEF HomeCalls, ProgInv, Call
    <3> QED
      BY <3>1
  <2>2. HostSend(HomeCommands[i])
    BY <1>2 DEF HomeCalls
  <2> HIDE DEF i
  <2>3. HomeCommands[i] \in Sendable
    BY <2>1, HomeHasThree
  <2>4. HomeCommands[i] \in Commands
    <3>1. HomeCommands[1] = Stop /\ HomeCommands[2] = Home /\ HomeCommands[3] = Query
      BY DEF HomeCommands
    <3>2. i = 1 \/ i = 2 \/ i = 3
      BY <2>1
    <3>3. Stop \in Commands /\ Home \in Commands /\ Query \in Commands
      BY ProgramCommandsAssumption
    <3> QED
      BY <3>1, <3>2, <3>3, Zenon
  <2> QED
    BY <2>2, <2>3, <2>4, Zenon
<1>3. CASE CliCalls
  <2>1. PICK cmd \in Typed : HostSend(cmd)
    BY <1>3, Zenon DEF CliCalls
  <2>2. cmd \in Sendable /\ cmd \in Commands
    BY TypedAssumption, ProgramCommandsAssumption DEF Sendable
  <2> QED
    BY <2>1, <2>2, Zenon
<1> QED
  BY <1>1, <1>2, <1>3 DEF Call

(* Once send returns, the program takes one step, which adds a line at most. *)
LEMMA PrintKeeps == ASSUME ProgInv, PrintResult PROVE ProgInv' /\ UNCHANGED linkVars
<1>1. UNCHANGED <<linkVars, prog, medium, lost>> /\ pc' = pc /\ pc = "idle" /\ at = "sent"
  BY DEF PrintResult, Returned, linkVars, vars
<1>2. CASE UNCHANGED reports /\ at' \in {"call", "ended"} /\ prog # "serial_home"
  BY <1>1, <1>2 DEF ProgInv
<1>3. CASE HomePrints
  <2> DEFINE v == Verdict(Len(reports) + 1, result)
  <2>1. PICK S : reports \in Seq(S)
    BY DEF ProgInv
  <2>2. /\ reports' = Append(reports, v)
        /\ at' = IF Len(reports') = Len(HomeCommands) THEN "ended" ELSE "call"
        /\ prog = "serial_home"
    BY <1>3 DEF HomePrints
  <2> HIDE DEF v
  <2>3. reports \in Seq(S \cup {v}) /\ v \in S \cup {v}
    BY <2>1
  <2>4. reports' \in Seq(S \cup {v}) /\ Len(reports') = Len(reports) + 1 /\ Len(reports) \in Nat
    BY <2>2, <2>3
  <2>5. \E T : reports' \in Seq(T)
    BY <2>4
  <2>6. Len(reports) < 3 /\ Len(HomeCommands) = 3
    BY <1>1, <2>2, HomeHasThree DEF ProgInv
  <2>7. Len(reports') <= 3 /\ (at' # "ended" => Len(reports') < 3) /\ at' \in {"call", "ended"}
    BY <2>2, <2>4, <2>6
  <2>8. Len(HomeCommands)' = 3
    BY <2>6
  <2> QED
    BY <1>1, <2>5, <2>6, <2>7, <2>8 DEF ProgInv
<1>4. PollPrints \/ CliPrints => UNCHANGED reports /\ at' \in {"call", "ended"} /\ prog # "serial_home"
  BY DEF PollPrints, CliPrints
<1> QED
  BY <1>1, <1>2, <1>3, <1>4 DEF PrintResult

LEMMA InitClientInv == ClientInit => ClientInv
<1> SUFFICES ASSUME ClientInit PROVE ClientInv
  OBVIOUS
<1>1. LinkInv /\ pc = "idle"
  BY InitLinkInv DEF ClientInit, LinkInit, Init
<1>2. reports = <<>> /\ <<>> \in Seq({}) /\ Len(<<>>) = 0
  BY DEF ClientInit
<1>3. ProgInv
  BY <1>1, <1>2, HomeHasThree, ProgramsAssumption DEF ClientInit, ProgInv
<1> QED
  BY <1>1, <1>3 DEF ClientInv

(* A step of the link leaves the program where it is.                       *)
LEMMA LinkKeepsProg ==
  ASSUME ProgInv, UNCHANGED <<prog, medium, at, reports, lost>>, pc' = "reading" => pc = "reading"
  PROVE  ProgInv'
  BY DEF ProgInv, HomeCommands, Query, Stop, Home

(* No step takes a program where it cannot be.                              *)
LEMMA ProgStep == ASSUME ProgInv, [ClientNext]_clientVars PROVE ProgInv'
<1>1. CASE UNCHANGED <<prog, medium, at, reports, lost>> /\ (pc' = "reading" => pc = "reading")
  BY <1>1, LinkKeepsProg
<1>2. CASE Call
  <2>1. UNCHANGED <<prog, medium, reports, lost>> /\ at = "call" /\ at' = "sent"
    BY <1>2 DEF Call
  <2> QED
    BY <2>1 DEF ProgInv, HomeCommands, Query, Stop, Home
<1>3. CASE PrintResult
  BY <1>3, PrintKeeps
<1>4. CASE CliEnds
  <2>1. /\ UNCHANGED <<prog, medium, reports, lost>> /\ at' = "ended" /\ pc' = pc /\ at = "call"
    BY <1>4 DEF CliEnds, linkVars, vars
  <2> QED
    BY <2>1 DEF ProgInv, HomeCommands, Query, Stop, Home
<1>5. CASE Receive
  BY <1>1, <1>5 DEF Receive, HostReads, HostReadsText, ReadText, HostReadsTerm, ReadTerm, HostGivesUp,
                    ReadNothing, ReadFails
<1>6. CASE Transmit \/ Rotator
  BY <1>1, <1>6 DEF Transmit, Deliver, Rotator, DeviceRead
<1>7. CASE Lose
  <2>1. UNCHANGED <<pc, prog, medium, at, reports>> /\ lost' = lost + 1 /\ lost < MaxLosses
    BY <1>7 DEF Lose
  <2> QED
    BY <2>1, ProgramsAssumption DEF ProgInv, HomeCommands, Query, Stop, Home
<1>8. CASE UNCHANGED clientVars
  BY <1>1, <1>8 DEF clientVars, linkVars, vars
<1> QED
  BY <1>2, <1>3, <1>4, <1>5, <1>6, <1>7, <1>8 DEF ClientNext

LEMMA StepKeeps ==
  ASSUME Echoes = FALSE, Newlines = FALSE, ClientInv, [ClientNext]_clientVars
  PROVE  ClientInv'
<1>1. ProgInv'
  BY ProgStep DEF ClientInv
<1> SUFFICES LinkInv'
  BY <1>1 DEF ClientInv
<1> USE DEF ClientInv
<1>2. CASE Call
  <2>1. PICK cmd \in Sendable : HostSend(cmd)
    BY <1>2, CallSends, Zenon DEF ClientInv
  <2> QED
    BY <2>1, HostSendKeeps
<1>3. CASE PrintResult \/ CliEnds \/ UNCHANGED clientVars
  <2>1. UNCHANGED <<rxq, txq, wire, dbuf, replies, seq, misses, src, pc, result>>
    BY <1>3 DEF PrintResult, CliEnds, clientVars, linkVars, vars, deviceVars, historyVars
  <2>2. ReplyInv'
    BY <2>1, SameReplies
  <2>3. QueueInv' /\ CountInv' /\ BufferTypes'
    BY <2>1 DEF LinkInv, QueueInv, CountInv, BufferTypes, Waiting
  <2> QED
    BY <2>2, <2>3 DEF LinkInv
<1>4. CASE Receive
  BY <1>4, TextRead, TermRead, GivenUp DEF Receive, HostReads
<1>5. CASE Transmit
  BY <1>5, CellArrives DEF Transmit
<1>6. CASE Rotator
  <2>1. PICK sum \in BOOLEAN : DeviceRead(sum)
    BY <1>6, SwitchesAssumption DEF Rotator
  <2> QED
    BY <2>1, RotatorReads
<1>7. CASE Lose
  BY <1>7, CellLost
<1> QED
  BY <1>2, <1>3, <1>4, <1>5, <1>6, <1>7 DEF ClientNext

-----------------------------------------------------------------------------
(* The theorems                                                             *)

LEMMA ClientInvariant ==
  ASSUME Echoes = FALSE, Newlines = FALSE PROVE ClientSpec => []ClientInv
<1>1. ClientInv /\ [ClientNext]_clientVars => ClientInv'
  BY StepKeeps
<1> QED
  BY <1>1, InitClientInv, PTL DEF ClientSpec

(* No answer is newer than the frames the rotator has read.                 *)
LEMMA SourceIsReply == ASSUME LinkInv PROVE src <= Len(replies)
<1>1. PICK mid : mid \in src..Len(replies)
  BY Zenon DEF LinkInv, ReplyInv
<1> QED
  BY <1>1 DEF LinkInv, CountInv

(* A program is in send or has its result, and no buffer or counter leaves its
   bounds, whatever is late, lost or half written.                          *)
THEOREM ClientTypeCorrect ==
  ASSUME Echoes = FALSE, Newlines = FALSE PROVE ClientSpec => []ClientTypeOK
<1>1. ClientInv => ClientTypeOK
  <2> SUFFICES ASSUME ClientInv PROVE ClientTypeOK
    OBVIOUS
  <2>1. /\ seq \in Nat /\ misses \in Nat /\ src \in Nat /\ Len(replies) \in Nat
        /\ seq <= MaxSends /\ Len(replies) <= seq /\ misses <= seq /\ src <= Len(replies)
    BY SourceIsReply DEF ClientInv, LinkInv, CountInv, Waiting
  <2>2. LinkTypeOK
    BY <2>1 DEF ClientInv, LinkInv, BufferTypes, LinkTypeOK
  <2> QED
    BY <2>2 DEF ClientInv, ProgInv, ClientTypeOK
<1> QED
  BY <1>1, ClientInvariant, PTL

(* However many sends end without an answer, however much is lost of either
   direction, an answer is late by at most as many sends as ended without
   one.                                                                     *)
THEOREM ClientLagBound ==
  ASSUME Echoes = FALSE, Newlines = FALSE PROVE ClientSpec => []LagBound
<1>1. ClientInv => LagBound
  <2> SUFFICES ASSUME ClientInv, Answered PROVE seq - misses <= src /\ src <= seq
    BY DEF LagBound
  <2>1. Waiting = 0
    BY DEF Answered, Waiting
  <2>2. src <= Len(replies)
    BY SourceIsReply DEF ClientInv
  <2> QED
    BY <2>1, <2>2 DEF ClientInv, LinkInv, CountInv
<1> QED
  BY <1>1, ClientInvariant, PTL

(* Replies are handed to a program in the order they were made, none of them
   twice.                                                                   *)
THEOREM ClientInOrder ==
  ASSUME Echoes = FALSE, Newlines = FALSE PROVE ClientSpec => InOrder
<1>1. ClientInv /\ [ClientNext]_clientVars => [TakesTerm /\ pc' = "idle" => src' > src]_linkVars
  <2> SUFFICES ASSUME ClientInv, [ClientNext]_clientVars, TakesTerm, pc' = "idle",
                      ~(UNCHANGED linkVars)
               PROVE  src' > src
    OBVIOUS
  <2>1. pc = "reading" /\ pc' # pc /\ rxq # <<>> /\ IsTerm(Head(rxq)) /\ rxq' = Tail(rxq)
    BY DEF TakesTerm
  <2>2. rxq' # rxq
    <3>1. PICK mid, g, h : mid \in src..Len(replies) /\ Arriving(mid, g, h)
      BY Zenon DEF ClientInv, LinkInv, ReplyInv
    <3>2. PICK S : rxq \in Seq(S)
      BY <3>1 DEF Arriving, Numbered
    <3>3. Len(Tail(rxq)) = Len(rxq) - 1 /\ Len(rxq) \in Nat
      BY <2>1, <3>2
    <3>4. Len(Tail(rxq)) # Len(rxq)
      BY <3>3
    <3>5. Tail(rxq) # rxq
      BY <3>4, Zenon
    <3> QED
      BY <2>1, <3>5
  <2>3. ~Call
    <3> SUFFICES ASSUME Call PROVE FALSE
      OBVIOUS
    <3>1. PICK cmd \in Sendable : HostSend(cmd)
      BY CallSends, Zenon DEF ClientInv
    <3> QED
      BY <2>1, <3>1 DEF HostSend, SendInvalid, SendWrite, SendWriteFails
  <2>4. ~PrintResult /\ ~CliEnds
    BY DEF PrintResult, CliEnds
  <2>5. ~Transmit /\ ~Rotator /\ ~Lose
    BY <2>1 DEF Transmit, Deliver, Rotator, DeviceRead, Lose
  <2>6. ~HostReadsText /\ ~HostGivesUp
    BY <2>1, <2>2 DEF HostReadsText, ReadText, HostGivesUp, ReadNothing, ReadFails
  <2>7. HostReadsTerm
    BY <2>3, <2>4, <2>5, <2>6 DEF ClientNext, clientVars, Receive, HostReads
  <2> QED
    BY <2>7, TermRead DEF ClientInv
<1> QED
  BY <1>1, ClientInvariant, PTL DEF ClientSpec, InOrder

-----------------------------------------------------------------------------
(* The host is a session                                                    *)

(* What is true of a session that may be sent anything is true of one that a
   rotator answers, whatever the rotator and the line do.                   *)
SomeSession == \E A : SessionInv(A)

LEMMA CallKeepsSession == ASSUME NEW A, SessionInv(A), ProgInv, Call PROVE SessionInv(A)'
<1>1. PICK cmd \in Commands : HostSend(cmd)
  BY CallSends, Zenon
<1> QED
  BY <1>1, SendInvalidKeeps, SendWriteKeeps, SendWriteFailsKeeps DEF HostSend

LEMMA ReceiveKeepsSession == ASSUME NEW A, SessionInv(A), Receive PROVE SessionInv(A)'
  BY ReadTextKeeps, ReadTermKeeps, GiveUpKeeps
  DEF Receive, HostReads, HostReadsText, HostReadsTerm, HostGivesUp

LEMMA CellsKeepSession ==
  ASSUME SomeSession, UNCHANGED <<pbuf, pc, sent, rxFrame, result, raw, line>>,
         UNCHANGED rxq \/ \E c : rxq' = Append(rxq, c)
  PROVE  SomeSession'
<1>1. PICK A : SessionInv(A)
  BY DEF SomeSession
<1>2. PICK c : UNCHANGED rxq \/ rxq' = Append(rxq, c)
  OBVIOUS
<1>3. SessionInv(A \cup {c})
  BY <1>1, MoreCells
<1>4. rxq' \in Seq(A \cup {c})
  <2>1. rxq \in Seq(A \cup {c}) /\ c \in A \cup {c}
    BY <1>3 DEF SessionInv, HeldIn
  <2> QED
    BY <1>2, <2>1
<1>5. SessionInv(A \cup {c})'
  BY <1>3, <1>4, OthersKeep
<1> QED
  BY <1>5 DEF SomeSession

(* A step that takes a terminator is ReadTerm.                              *)
LEMMA ClientTakes ==
  ASSUME SomeSession, [ClientNext]_clientVars, TakesTerm PROVE ReadTerm
<1>1. PICK A : rxq \in Seq(A)
  BY DEF SomeSession, SessionInv, HeldIn
<1>2. rxq' # rxq /\ \A c : rxq' # Append(rxq, c)
  <2>1. Len(rxq') = Len(rxq) - 1 /\ Len(rxq) \in Nat
    BY <1>1 DEF TakesTerm
  <2>2. ASSUME NEW c PROVE Len(Append(rxq, c)) = Len(rxq) + 1
    OBVIOUS
  <2> QED
    BY <2>1, <2>2
<1>3. Receive
  BY <1>2 DEF ClientNext, Call, PollCalls, HomeCalls, CliCalls, HostSend, SendInvalid, SendWrite,
              SendWriteFails, PrintResult, CliEnds, Transmit, Deliver, Rotator, DeviceRead, Lose,
              clientVars, linkVars, vars
<1> QED
  BY <1>2, <1>3 DEF Receive, HostReads, HostReadsText, HostReadsTerm, HostGivesUp, TakesTerm,
                    ReadText, ReadNothing, ReadFails

LEMMA ClientKeepsSession ==
  ASSUME SomeSession, ProgInv, [ClientNext]_clientVars PROVE SomeSession'
<1>1. PICK A : SessionInv(A)
  BY DEF SomeSession
<1>2. CASE Call \/ Receive
  <2>1. SessionInv(A)'
    BY <1>1, <1>2, CallKeepsSession, ReceiveKeepsSession
  <2> QED
    BY <2>1 DEF SomeSession
<1>3. CASE PrintResult \/ CliEnds \/ Lose \/ Rotator \/ UNCHANGED clientVars
  <2>1. UNCHANGED <<rxq, pbuf, pc, sent, rxFrame, result, raw, line>>
    BY <1>3 DEF PrintResult, CliEnds, Lose, Rotator, DeviceRead, clientVars, linkVars, vars
  <2> QED
    BY <1>1, <2>1, CellsKeepSession DEF SomeSession
<1>4. CASE Transmit
  BY <1>4, CellsKeepSession DEF Transmit, Deliver
<1> QED
  BY <1>2, <1>3, <1>4 DEF ClientNext

THEOREM ClientHasSession == ClientSpec => []SomeSession
<1>1. ClientInit => SomeSession /\ ProgInv
  BY InitSession, InitClientInv DEF ClientInit, LinkInit, SomeSession, ClientInv
<1>2. SomeSession /\ ProgInv /\ [ClientNext]_clientVars => (SomeSession /\ ProgInv)'
  BY ClientKeepsSession, ProgStep
<1> QED
  BY <1>1, <1>2, PTL DEF ClientSpec

(* What the parser, which outlives a send, and rx_frame, which does not, hold
   of what a rotator sent: in every program, whatever is late, lost or echoed. *)
THEOREM ClientBuffers == ClientSpec => []BufferInv
<1>1. SomeSession => BufferInv
  BY DEF SomeSession, SessionInv
<1> QED
  BY <1>1, ClientHasSession, PTL

(* After an answer a program's session is between two lines.                *)
THEOREM ClientCleanAfterAnswer == ClientSpec => []CleanAfterAnswer
<1>1. SomeSession => CleanAfterAnswer
  BY DEF SomeSession, SessionInv
<1> QED
  BY <1>1, ClientHasSession, PTL

(* A program waits on exactly after the echo of its own command.            *)
THEOREM ClientEchoExact == ClientSpec => EchoExact
<1>1. SomeSession /\ [ClientNext]_clientVars => [TakesTerm => (pc' = "reading" <=> line = sent)]_vars
  <2> SUFFICES ASSUME SomeSession, [ClientNext]_clientVars, TakesTerm
               PROVE  pc' = "reading" <=> line = sent
    OBVIOUS
  <2>1. PICK A : SessionInv(A)
    BY DEF SomeSession
  <2>2. ReadTerm /\ pc = "reading"
    BY ClientTakes DEF TakesTerm
  <2> QED
    BY <2>1, <2>2, TermFacts, CapIsHarmless
<1> QED
  BY <1>1, ClientHasSession, PTL DEF ClientSpec, EchoExact

(* What a program gets for a line is the decoding of the whole line, however
   many of its sends it took to arrive.                                     *)
THEOREM ClientWholeLine == ClientSpec => WholeLineAnswered
<1> DEFINE Answer == \E n \in 0..Len(raw) :
                       /\ result' = Decode(SubSeq(raw, n + 1, Len(raw)))
                       /\ Len(raw) <= MAX_FRAME => n = 0
<1>1. SomeSession /\ [ClientNext]_clientVars => [TakesTerm /\ pc' = "idle" => Answer]_vars
  <2> SUFFICES ASSUME SomeSession, [ClientNext]_clientVars, TakesTerm, pc' = "idle"
               PROVE  Answer
    OBVIOUS
  <2>1. PICK A : SessionInv(A)
    BY DEF SomeSession
  <2>2. result' = Decode(pbuf)
    BY <2>1, ClientTakes, TermFacts
  <2>3. PICK n \in 0..Len(raw) : /\ pbuf = SubSeq(raw, n + 1, Len(raw))
                                 /\ Len(raw) <= MAX_FRAME => n = 0
    BY <2>1 DEF SessionInv, BufferInv, ParserHoldsTail, KeepsTail
  <2> QED
    BY <2>2, <2>3, Zenon
<1> QED
  BY <1>1, ClientHasSession, PTL DEF ClientSpec, WholeLineAnswered
=============================================================================
