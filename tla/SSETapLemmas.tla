---------------------------- MODULE SSETapLemmas ----------------------------
(***************************************************************************)
(* What the definitions of SSETap amount to for answers of any length: the *)
(* recursive functions in them have the values that the scan of an answer  *)
(* in one piece would give, and every answer consists of lines.            *)
(***************************************************************************)
EXTENDS SSETap, SequenceTheorems, WellFoundedInduction, TLAPS

\* Induction over the numbers, for a set in place of a predicate.
LEMMA SetInduction ==
  ASSUME NEW S, 0 \in S, \A k \in Nat : k \in S => k + 1 \in S
  PROVE  \A k \in Nat : k \in S
<1> SUFFICES ASSUME Nat \ S # {} PROVE FALSE
  OBVIOUS
<1> DEFINE R == OpToRel(<, Nat)
<1>1. IsWellFoundedOn(R, Nat)
  BY NatLessThanWellFounded
<1>2. \A m, n \in Nat : m < n => <<m, n>> \in R
  BY DEF OpToRel
<1> HIDE DEF R
<1>3. PICK k \in Nat \ S : \A m \in Nat \ S : ~(<<m, k>> \in R)
  BY <1>1, WFMin
<1>4. k - 1 \in Nat \ S /\ k - 1 < k
  <2>1. k # 0
    OBVIOUS
  <2>2. k - 1 \in Nat /\ (k - 1) + 1 = k
    BY <2>1
  <2>3. QED
    BY <2>2
<1>5. QED
  BY <1>2, <1>3, <1>4

----------------------------------------------------------------------------
(* Symbols. *)

LinePrefixes == {DataPrefix, EventPrefix}
Payloads == Starts \cup Deltas \cup Texts \cup {Garbled}
Symbols == LinePrefixes \cup Payloads \cup {NewLine}

LEMMA PayloadFields ==
  ASSUME NEW p \in Payloads
  PROVE  /\ p.type \in {"message_start", "message_delta", "content"}
         /\ p.count \in Counts \cup {0}
<1>1. CASE p \in Starts
  <2>1. PICK c \in Counts : p = Event("message_start", {"message_start"}, c, TRUE)
    BY <1>1 DEF Starts
  <2>2. QED
    BY <2>1 DEF Event
<1>2. CASE p \in Deltas
  <2>1. PICK c \in Counts : p = Event("message_delta", {"message_delta"}, c, TRUE)
    BY <1>2 DEF Deltas
  <2>2. QED
    BY <2>1 DEF Event
<1>3. CASE p \in Texts
  <2>1. PICK m \in SUBSET {"message_start", "message_delta"} : p = Event("content", m, 0, TRUE)
    BY <1>3 DEF Texts
  <2>2. QED
    BY <2>1 DEF Event
<1>4. CASE p = Garbled
  BY <1>4 DEF Event, Garbled
<1>5. QED
  BY <1>1, <1>2, <1>3, <1>4 DEF Payloads

LEMMA Kinds ==
  /\ DataPrefix # EventPrefix /\ DataPrefix # NewLine /\ EventPrefix # NewLine
  /\ NewLine.valid = FALSE
  /\ NewLine \notin Payloads /\ DataPrefix \notin Payloads /\ EventPrefix \notin Payloads
<1>1. /\ DataPrefix.type = "data: " /\ EventPrefix.type = "event: " /\ NewLine.type = "newline"
      /\ NewLine.valid = FALSE
  BY DEF Event, DataPrefix, EventPrefix, NewLine
<1>2. "data: " # "event: " /\ "data: " # "newline" /\ "event: " # "newline"
  OBVIOUS
<1>3. \A p \in Payloads : p.type # "data: " /\ p.type # "event: " /\ p.type # "newline"
  BY PayloadFields
<1>4. QED
  BY <1>1, <1>2, <1>3

----------------------------------------------------------------------------
(* Pieces of a sequence, and the lines in them. *)

LEMMA Piece ==
  ASSUME NEW T, NEW s \in Seq(T), NEW a \in Nat, NEW e \in a..Len(s)
  PROVE  /\ SubSeq(s, a + 1, e) \in Seq(T)
         /\ Len(SubSeq(s, a + 1, e)) = e - a
         /\ \A i \in 1..(e - a) : SubSeq(s, a + 1, e)[i] = s[a + i]
<1>1. Len(s) \in Nat /\ a + 1 \in Int /\ e \in Int
  BY LenProperties
<1>2. \A i \in (a + 1)..e : s[i] \in T
  <2>1. \A i \in (a + 1)..e : i \in 1..Len(s)
    BY <1>1
  <2>2. QED
    BY <2>1, ElementOfSeq
<1>3. /\ SubSeq(s, a + 1, e) \in Seq(T)
      /\ Len(SubSeq(s, a + 1, e)) = IF a + 1 <= e THEN e - (a + 1) + 1 ELSE 0
      /\ \A i \in 1..(e - (a + 1) + 1) : SubSeq(s, a + 1, e)[i] = s[a + 1 + i - 1]
  BY <1>1, <1>2, SubSeqProperties
<1>4. e - (a + 1) + 1 = e - a /\ \A i \in 1..(e - a) : a + 1 + i - 1 = a + i
  BY <1>1
<1>5. QED
  BY <1>1, <1>3, <1>4

LEMMA PiecesJoin ==
  ASSUME NEW T, NEW s \in Seq(T), NEW a \in Nat, NEW b \in a..Len(s), NEW c \in b..Len(s)
  PROVE  SubSeq(s, a + 1, b) \o SubSeq(s, b + 1, c) = SubSeq(s, a + 1, c)
<1> DEFINE x == SubSeq(s, a + 1, b)
           y == SubSeq(s, b + 1, c)
           z == SubSeq(s, a + 1, c)
<1>1. Len(s) \in Nat /\ b \in Nat /\ c \in Nat /\ c \in a..Len(s)
  BY LenProperties
<1>2. /\ x \in Seq(T) /\ Len(x) = b - a /\ \A i \in 1..(b - a) : x[i] = s[a + i]
      /\ y \in Seq(T) /\ Len(y) = c - b /\ \A i \in 1..(c - b) : y[i] = s[b + i]
      /\ z \in Seq(T) /\ Len(z) = c - a /\ \A i \in 1..(c - a) : z[i] = s[a + i]
  BY <1>1, Piece
<1> HIDE DEF x, y, z
<1>3. /\ x \o y \in Seq(T) /\ Len(x \o y) = Len(x) + Len(y)
      /\ \A i \in 1..(Len(x) + Len(y)) : (x \o y)[i] = IF i <= Len(x) THEN x[i] ELSE y[i - Len(x)]
  BY <1>2, ConcatProperties
<1>4. ASSUME NEW i \in 1..Len(z) PROVE (x \o y)[i] = z[i]
  <2>0. i \in 1..(c - a) /\ i \in 1..(Len(x) + Len(y)) /\ z[i] = s[a + i]
    BY <1>1, <1>2
  <2>j. (x \o y)[i] = IF i <= b - a THEN x[i] ELSE y[i - (b - a)]
    BY <1>2, <1>3, <2>0
  <2>1. CASE i <= b - a
    <3>1. i \in 1..(b - a)
      BY <1>1, <2>0, <2>1
    <3>2. x[i] = s[a + i]
      BY <1>2, <3>1
    <3>3. QED
      BY <2>0, <2>1, <2>j, <3>2
  <2>2. CASE ~(i <= b - a)
    <3>1. i - (b - a) \in 1..(c - b) /\ b + (i - (b - a)) = a + i
      BY <1>1, <2>0, <2>2
    <3>2. y[i - (b - a)] = s[b + (i - (b - a))]
      BY <1>2, <3>1
    <3>3. QED
      BY <2>0, <2>2, <2>j, <3>1, <3>2
  <2>3. QED
    BY <2>1, <2>2
<1>5. x \o y = z
  <2>1. Len(x \o y) = Len(z)
    BY <1>1, <1>2, <1>3
  <2>2. \A i \in 1..Len(x \o y) : (x \o y)[i] = z[i]
    BY <1>4, <2>1
  <2>3. QED
    BY <1>2, <1>3, <2>1, <2>2, SeqEqual
<1>6. QED
  BY <1>5 DEF x, y, z

\* b is the end of the last complete line within the first e symbols of s.
IsLastBreak(s, e, b) == /\ b \in 0..e
                        /\ b # 0 => s[b] = NewLine
                        /\ \A i \in (b + 1)..e : s[i] # NewLine

LEMMA LastBreakUnique ==
  ASSUME NEW s, NEW e \in Nat, NEW b, IsLastBreak(s, e, b)
  PROVE  LastBreak(s, e) = b
<1> DEFINE S == {0} \cup {i \in 1..e : s[i] = NewLine}
<1>1. b \in S /\ \A x \in S : b >= x /\ x \in Int
  BY DEF IsLastBreak
<1>2. Max(S) = CHOOSE x \in S : \A y \in S : x >= y
  BY DEF Max
<1>3. \A x \in S : (\A y \in S : x >= y) => x = b
  BY <1>1
<1> HIDE DEF S
<1>4. Max(S) = b
  BY <1>1, <1>2, <1>3
<1>5. QED
  BY <1>4 DEF LastBreak, S

LEMMA LastBreakExists ==
  ASSUME NEW s
  PROVE  \A e \in Nat : IsLastBreak(s, e, LastBreak(s, e))
<1> DEFINE S == {e \in Nat : \E b \in Nat : IsLastBreak(s, e, b)}
<1>1. 0 \in S
  BY DEF IsLastBreak
<1>2. ASSUME NEW e \in Nat, e \in S PROVE e + 1 \in S
  <2>1. PICK b \in Nat : IsLastBreak(s, e, b)
    BY <1>2
  <2>2. CASE s[e + 1] = NewLine
    BY <2>2 DEF IsLastBreak
  <2>3. CASE s[e + 1] # NewLine
    <3>1. IsLastBreak(s, e + 1, b)
      BY <2>1, <2>3 DEF IsLastBreak
    <3>2. QED
      BY <3>1
  <2>4. QED
    BY <2>2, <2>3
<1> HIDE DEF S
<1>3. \A e \in Nat : e \in S
  BY <1>1, <1>2, SetInduction
<1>4. QED
  BY <1>3, LastBreakUnique DEF S

\* The lines of a piece that begins with a line are those of the whole.
LEMMA LinesOfPiece ==
  ASSUME NEW T, NEW s \in Seq(T), NEW a \in Nat, NEW c \in a..Len(s),
         a # 0 => s[a] = NewLine,
         NEW j \in 0..(c - a)
  PROVE  LineUpTo(SubSeq(s, a + 1, c), j) = LineUpTo(s, a + j)
<1> DEFINE t == SubSeq(s, a + 1, c)
           B == LastBreak(s, a + j)
<1>1. Len(s) \in Nat /\ c \in Nat /\ a + j \in Nat /\ j \in Nat
  BY LenProperties
<1>2. t \in Seq(T) /\ Len(t) = c - a /\ \A i \in 1..(c - a) : t[i] = s[a + i]
  BY Piece
<1>3. IsLastBreak(s, a + j, B)
  BY <1>1, LastBreakExists
<1> HIDE DEF t, B
<1>4. B \in 0..(a + j) /\ (B # 0 => s[B] = NewLine) /\ \A i \in (B + 1)..(a + j) : s[i] # NewLine
  BY <1>3 DEF IsLastBreak
<1>5. B >= a
  <2> SUFFICES ASSUME B < a PROVE FALSE
    BY <1>1, <1>4
  <2>1. a # 0 /\ a \in (B + 1)..(a + j)
    BY <1>1, <1>4
  <2>2. QED
    BY <1>4, <2>1
<1>6. IsLastBreak(t, j, B - a)
  <2>1. B - a \in 0..j
    BY <1>1, <1>4, <1>5
  <2>2. B - a # 0 => t[B - a] = NewLine
    <3>1. B - a # 0 => B - a \in 1..(c - a) /\ a + (B - a) = B /\ B # 0
      BY <1>1, <1>4, <1>5, <2>1
    <3>2. QED
      BY <1>2, <1>4, <3>1
  <2>3. ASSUME NEW i \in (B - a + 1)..j PROVE t[i] # NewLine
    <3>1. i \in 1..(c - a) /\ a + i \in (B + 1)..(a + j)
      BY <1>1, <1>4, <1>5
    <3>2. QED
      BY <1>2, <1>4, <3>1
  <2>4. QED
    BY <2>1, <2>2, <2>3 DEF IsLastBreak
<1>7. LastBreak(t, j) = B - a
  BY <1>1, <1>6, LastBreakUnique
<1>8. SubSeq(t, (B - a) + 1, j) = SubSeq(s, B + 1, a + j)
  <2>1. B - a \in Nat /\ B \in Nat /\ j \in (B - a)..Len(t) /\ a + j \in B..Len(s)
    BY <1>1, <1>2, <1>4, <1>5
  <2> DEFINE x == SubSeq(t, (B - a) + 1, j)
             y == SubSeq(s, B + 1, a + j)
  <2>2. /\ x \in Seq(T) /\ Len(x) = j - (B - a) /\ \A i \in 1..(j - (B - a)) : x[i] = t[(B - a) + i]
        /\ y \in Seq(T) /\ Len(y) = a + j - B /\ \A i \in 1..(a + j - B) : y[i] = s[B + i]
    BY <1>2, <2>1, Piece
  <2> HIDE DEF x, y
  <2>3. j - (B - a) = a + j - B
    BY <1>1, <2>1
  <2>4. ASSUME NEW i \in 1..Len(x) PROVE x[i] = y[i]
    <3>1. (B - a) + i \in 1..(c - a) /\ a + ((B - a) + i) = B + i
      BY <1>1, <1>4, <1>5, <2>1, <2>2, <2>3
    <3>2. QED
      BY <1>2, <2>2, <2>3, <3>1
  <2>5. x = y
    BY <2>2, <2>3, <2>4, SeqEqual
  <2>6. QED
    BY <2>5 DEF x, y
<1>9. QED
  BY <1>7, <1>8 DEF LineUpTo, t, B

----------------------------------------------------------------------------
(* The counts after the first p symbols of an answer. *)

\* Whole lines of an answer, and perhaps the beginning of one more.
Regular(s) ==
  /\ s \in Seq(Symbols)
  /\ \A i \in 1..Len(s) :
       /\ s[i] \in LinePrefixes => i = 1 \/ s[i - 1] = NewLine
       /\ s[i] \in Payloads => i > 1 /\ s[i - 1] \in LinePrefixes
       /\ s[i] = NewLine => i = 1 \/ s[i - 1] = NewLine \/ s[i - 1] \in Payloads

CountAt(name, p) ==
  LET ends == {i \in 3..p : RelevantTo(i, name)}
  IN  IF ends = {} THEN 0 ELSE CountOf(body[Max(ends) - 1], name)

UsageAt(p) == [input |-> CountAt("message_start", p), output |-> CountAt("message_delta", p)]

LEMMA CountSkips ==
  ASSUME NEW name, NEW p \in Nat, NEW q \in Nat, p <= q,
         \A i \in (p + 1)..q : i >= 3 => ~RelevantTo(i, name)
  PROVE  CountAt(name, q) = CountAt(name, p)
<1>1. {i \in 3..q : RelevantTo(i, name)} = {i \in 3..p : RelevantTo(i, name)}
  <2> SUFFICES ASSUME NEW i \in Int PROVE (i \in 3..q /\ RelevantTo(i, name)) <=> (i \in 3..p /\ RelevantTo(i, name))
    OBVIOUS
  <2>1. i \in 3..p => i \in 3..q
    OBVIOUS
  <2>2. (i \in 3..q /\ i \notin 3..p) => (i \in (p + 1)..q /\ i >= 3)
    OBVIOUS
  <2>3. QED
    BY <2>1, <2>2
<1>2. QED
  BY <1>1 DEF CountAt

LEMMA CountStep ==
  ASSUME NEW name, NEW p \in Nat, p >= 3, RelevantTo(p, name)
  PROVE  CountAt(name, p) = CountOf(body[p - 1], name)
<1> DEFINE ends == {i \in 3..p : RelevantTo(i, name)}
<1>1. p \in ends /\ \A x \in ends : p >= x /\ x \in Int
  OBVIOUS
<1>2. Max(ends) = CHOOSE x \in ends : \A y \in ends : x >= y
  BY DEF Max
<1>3. \A x \in ends : (\A y \in ends : x >= y) => x = p
  BY <1>1
<1>4. CountAt(name, p) = IF ends = {} THEN 0 ELSE CountOf(body[Max(ends) - 1], name)
  BY DEF CountAt
<1> HIDE DEF ends
<1>5. Max(ends) = p
  BY <1>1, <1>2, <1>3
<1>6. QED
  BY <1>1, <1>4, <1>5

\* Only the end of a line can change the counts.
LEMMA UsageSkips ==
  ASSUME NEW p \in Nat, NEW q \in Nat, p <= q,
         \A i \in (p + 1)..q : body[i] # NewLine
  PROVE  UsageAt(q) = UsageAt(p)
<1>1. ASSUME NEW name, NEW i \in (p + 1)..q PROVE ~RelevantTo(i, name)
  BY DEF RelevantTo
<1>2. \A name : CountAt(name, q) = CountAt(name, p)
  BY <1>1, CountSkips
<1>3. QED
  BY <1>2 DEF UsageAt

\* The line that ends at p: nothing, or a prefix and a payload.
LEMMA LineBefore ==
  ASSUME Regular(body), NEW p \in 1..Len(body), body[p] = NewLine
  PROVE  \/ /\ LineUpTo(body, p - 1) = <<>>
            /\ p < 3 \/ body[p - 1] = NewLine
         \/ /\ p >= 3
            /\ Len(LineUpTo(body, p - 1)) = 2
            /\ Head(LineUpTo(body, p - 1)) = body[p - 2]
            /\ Last(LineUpTo(body, p - 1)) = body[p - 1]
            /\ body[p - 2] \in LinePrefixes
            /\ body[p - 1] \in Payloads
<1> DEFINE line == LineUpTo(body, p - 1)
<1>1. body \in Seq(Symbols) /\ Len(body) \in Nat /\ p - 1 \in Nat /\ p \in Nat
  BY LenProperties DEF Regular
<1>2. CASE p = 1 \/ (p > 1 /\ body[p - 1] = NewLine)
  <2>1. IsLastBreak(body, p - 1, p - 1)
    BY <1>1, <1>2 DEF IsLastBreak
  <2>2. LastBreak(body, p - 1) = p - 1
    BY <1>1, <2>1, LastBreakUnique
  <2>3. p - 1 \in (p - 1)..Len(body)
    BY <1>1
  <2>4. SubSeq(body, (p - 1) + 1, p - 1) = <<>>
    <3> DEFINE x == SubSeq(body, (p - 1) + 1, p - 1)
    <3>1. x \in Seq(Symbols) /\ Len(x) = (p - 1) - (p - 1)
      BY <1>1, <2>3, Piece
    <3> HIDE DEF x
    <3>2. x = <<>>
      BY <1>1, <3>1, EmptySeq
    <3>3. QED
      BY <3>2 DEF x
  <2>5. QED
    BY <1>2, <2>2, <2>4 DEF LineUpTo
<1>3. CASE ~(p = 1 \/ (p > 1 /\ body[p - 1] = NewLine))
  <2>1. p > 1 /\ body[p - 1] \in Payloads
    BY <1>1, <1>3 DEF Regular
  <2>2. p - 1 \in 1..Len(body) /\ (p - 1) - 1 = p - 2
    BY <1>1, <2>1
  <2>3. p > 2 /\ body[p - 2] \in LinePrefixes
    BY <1>1, <2>1, <2>2 DEF Regular
  <2>4. p - 2 \in 1..Len(body) /\ (p - 2) - 1 = p - 3 /\ p - 3 \in Nat /\ p >= 3
    BY <1>1, <2>3
  <2>5. p - 2 = 1 \/ body[p - 3] = NewLine
    BY <2>3, <2>4 DEF Regular
  <2>6. body[p - 1] # NewLine /\ body[p - 2] # NewLine
    BY <2>1, <2>3, Kinds DEF LinePrefixes
  <2>7. IsLastBreak(body, p - 1, p - 3)
    <3>1. p - 3 \in 0..(p - 1)
      BY <1>1, <2>4
    <3>2. p - 3 # 0 => body[p - 3] = NewLine
      BY <1>1, <2>5
    <3>3. ASSUME NEW i \in ((p - 3) + 1)..(p - 1) PROVE body[i] # NewLine
      <4>1. i = p - 2 \/ i = p - 1
        BY <1>1
      <4>2. QED
        BY <2>6, <4>1
    <3>4. QED
      BY <3>1, <3>2, <3>3 DEF IsLastBreak
  <2>8. LastBreak(body, p - 1) = p - 3
    BY <1>1, <2>7, LastBreakUnique
  <2>9. line = SubSeq(body, (p - 3) + 1, p - 1)
    BY <2>8 DEF LineUpTo
  <2> HIDE DEF line
  <2>10. p - 1 \in (p - 3)..Len(body) /\ (p - 1) - (p - 3) = 2 /\ (p - 3) + 1 = p - 2 /\ (p - 3) + 2 = p - 1
    BY <1>1
  <2>11. /\ line \in Seq(Symbols)
         /\ Len(line) = (p - 1) - (p - 3)
         /\ \A i \in 1..((p - 1) - (p - 3)) : line[i] = body[(p - 3) + i]
    BY <1>1, <2>4, <2>9, <2>10, Piece
  <2>12. Len(line) = 2 /\ line[1] = body[p - 2] /\ line[2] = body[p - 1]
    BY <2>10, <2>11
  <2>13. Head(line) = line[1]
    BY <2>11, <2>12, HeadTailProperties, EmptySeq
  <2>14. Last(line) = line[2]
    BY <2>12 DEF Last
  <2>15. QED
    BY <2>1, <2>3, <2>4, <2>12, <2>13, <2>14 DEF line
<1>4. QED
  BY <1>2, <1>3

\* Processing the line that ends at p makes the counts those at p.
LEMMA ProcessLineCounts ==
  ASSUME Regular(body), NEW p \in 1..Len(body), body[p] = NewLine
  PROVE  ProcessLine(UsageAt(p - 1), LineUpTo(body, p - 1)) = UsageAt(p)
<1> DEFINE u == UsageAt(p - 1)
           line == LineUpTo(body, p - 1)
           pay == body[p - 1]
           Q(name) == p >= 3 /\ RelevantTo(p, name)
<1>1. Len(body) \in Nat /\ p \in Nat /\ p - 1 \in Nat /\ (p - 1) + 1 = p
  BY LenProperties DEF Regular
<1>2. ASSUME NEW name, ~Q(name) PROVE CountAt(name, p) = CountAt(name, p - 1)
  <2>1. \A i \in ((p - 1) + 1)..p : i >= 3 => ~RelevantTo(i, name)
    BY <1>1, <1>2
  <2>2. QED
    BY <1>1, <2>1, CountSkips
<1>3. ASSUME NEW name, Q(name) PROVE CountAt(name, p) = CountOf(pay, name)
  BY <1>1, <1>3, CountStep
<1>4. u = [input |-> CountAt("message_start", p - 1), output |-> CountAt("message_delta", p - 1)]
  BY DEF UsageAt
<1>5. UsageAt(p) = [input |-> CountAt("message_start", p), output |-> CountAt("message_delta", p)]
  BY DEF UsageAt
<1>6. \/ /\ line = <<>>
         /\ p < 3 \/ pay = NewLine
      \/ /\ p >= 3
         /\ Len(line) = 2
         /\ Head(line) = body[p - 2]
         /\ Last(line) = pay
         /\ body[p - 2] \in LinePrefixes
         /\ pay \in Payloads
  BY LineBefore
<1>7. Q("message_start") <=> (p >= 3 /\ body[p - 2] = DataPrefix /\ pay.valid /\ "message_start" \in pay.mentions)
  BY DEF RelevantTo
<1>8. Q("message_delta") <=> (p >= 3 /\ body[p - 2] = DataPrefix /\ pay.valid
                              /\ "message_delta" \in pay.mentions /\ "message_start" \notin pay.mentions)
  BY DEF RelevantTo
<1> HIDE DEF u, line, pay, Q
<1>9. CASE line = <<>> /\ (p < 3 \/ pay = NewLine)
  <2>1. ProcessLine(u, line) = u
    <3>1. Len(line) < 2
      BY <1>9
    <3>2. QED
      BY <3>1 DEF ProcessLine
  <2>2. ~Q("message_start") /\ ~Q("message_delta")
    BY <1>1, <1>7, <1>8, <1>9, Kinds
  <2>3. UsageAt(p) = u
    BY <1>2, <1>4, <1>5, <2>2
  <2>4. QED
    BY <2>1, <2>3 DEF u, line
<1>10. CASE p >= 3 /\ Len(line) = 2 /\ Head(line) = body[p - 2] /\ Last(line) = pay /\ pay \in Payloads
  <2>1. ProcessLine(u, line) =
          IF body[p - 2] # DataPrefix \/ ~pay.valid THEN u
          ELSE IF "message_start" \in pay.mentions THEN ParseMessageStart(u, pay)
          ELSE IF "message_delta" \in pay.mentions THEN ParseMessageDelta(u, pay)
          ELSE u
    BY <1>10 DEF ProcessLine
  <2>2. CASE Q("message_start")
    <3>1. ProcessLine(u, line) = [u EXCEPT !.input = CountOf(pay, "message_start")]
      BY <1>7, <2>1, <2>2 DEF ParseMessageStart
    <3>2. ~Q("message_delta")
      BY <1>7, <1>8, <2>2
    <3>3. UsageAt(p) = [input |-> CountOf(pay, "message_start"), output |-> CountAt("message_delta", p - 1)]
      BY <1>2, <1>3, <1>5, <2>2, <3>2
    <3>4. QED
      BY <1>4, <3>1, <3>3 DEF u, line
  <2>3. CASE Q("message_delta")
    <3>1. ProcessLine(u, line) = [u EXCEPT !.output = CountOf(pay, "message_delta")]
      BY <1>8, <2>1, <2>3 DEF ParseMessageDelta
    <3>2. ~Q("message_start")
      BY <1>7, <1>8, <2>3
    <3>3. UsageAt(p) = [input |-> CountAt("message_start", p - 1), output |-> CountOf(pay, "message_delta")]
      BY <1>2, <1>3, <1>5, <2>3, <3>2
    <3>4. QED
      BY <1>4, <3>1, <3>3 DEF u, line
  <2>4. CASE ~Q("message_start") /\ ~Q("message_delta")
    <3>1. ProcessLine(u, line) = u
      BY <1>7, <1>8, <1>10, <2>1, <2>4
    <3>2. UsageAt(p) = u
      BY <1>2, <1>4, <1>5, <2>4
    <3>3. QED
      BY <3>1, <3>2 DEF u, line
  <2>5. QED
    BY <2>2, <2>3, <2>4
<1>11. QED
  BY <1>6, <1>9, <1>10

----------------------------------------------------------------------------
(* The scan of a piece of an answer. *)

\* The equation that defines the counts after each symbol of a chunk.
AfterEach(after, u, chunk) ==
  after = [i \in 0..Len(chunk) |->
             IF i = 0 THEN u
             ELSE IF chunk[i] = NewLine THEN ProcessLine(after[i - 1], LineUpTo(chunk, i - 1))
             ELSE after[i - 1]]

LEMMA ScanLinesValue ==
  ASSUME NEW u, NEW chunk, Len(chunk) \in Nat, NEW h, AfterEach(h, u, chunk)
  PROVE  ScanLines(u, chunk) = h[Len(chunk)]
<1> DEFINE g == CHOOSE after : AfterEach(after, u, chunk)
           n == Len(chunk)
<1>1. ScanLines(u, chunk) = g[n]
  BY DEF ScanLines, AfterEach
<1>2. AfterEach(g, u, chunk)
  OBVIOUS
<1> HIDE DEF g
<1>3. ASSUME NEW f, AfterEach(f, u, chunk)
      PROVE  /\ f[0] = u
             /\ \A i \in 0..n : i # 0 =>
                  f[i] = IF chunk[i] = NewLine THEN ProcessLine(f[i - 1], LineUpTo(chunk, i - 1)) ELSE f[i - 1]
  <2>1. \A i \in 0..n : f[i] = IF i = 0 THEN u
                               ELSE IF chunk[i] = NewLine THEN ProcessLine(f[i - 1], LineUpTo(chunk, i - 1))
                               ELSE f[i - 1]
    BY <1>3, Zenon DEF AfterEach
  <2>2. 0 \in 0..n
    OBVIOUS
  <2>3. QED
    BY <2>1, <2>2, Zenon
<1>4. /\ g[0] = u
      /\ \A i \in 0..n : i # 0 =>
           g[i] = IF chunk[i] = NewLine THEN ProcessLine(g[i - 1], LineUpTo(chunk, i - 1)) ELSE g[i - 1]
  BY <1>2, <1>3, Zenon
<1>5. /\ h[0] = u
      /\ \A i \in 0..n : i # 0 =>
           h[i] = IF chunk[i] = NewLine THEN ProcessLine(h[i - 1], LineUpTo(chunk, i - 1)) ELSE h[i - 1]
  BY <1>3, Zenon
<1> DEFINE S == {i \in Nat : i <= n => g[i] = h[i]}
<1>6. 0 \in S
  BY <1>4, <1>5
<1>7. ASSUME NEW k \in Nat, k \in S PROVE k + 1 \in S
  <2> SUFFICES ASSUME k + 1 <= n PROVE g[k + 1] = h[k + 1]
    OBVIOUS
  <2>1. k + 1 \in 0..n /\ k + 1 # 0 /\ (k + 1) - 1 = k /\ k <= n
    OBVIOUS
  <2>2. g[k] = h[k]
    BY <1>7, <2>1
  <2> DEFINE j == k + 1
  <2> HIDE DEF j
  <2>3. g[j - 1] = h[j - 1]
    BY <2>1, <2>2 DEF j
  <2>4. j \in 0..n /\ j # 0
    BY <2>1 DEF j
  <2>5. g[j] = h[j]
    BY <1>4, <1>5, <2>3, <2>4, Zenon
  <2>6. QED
    BY <2>5 DEF j
<1> HIDE DEF S
<1>8. \A k \in Nat : k \in S
  BY <1>6, <1>7, SetInduction
<1>9. QED
  BY <1>1, <1>8 DEF S

\* A piece that begins with a line takes the counts at its beginning to those at its
\* end, and leaves the line that is not complete there.
LEMMA ScanPiece ==
  ASSUME Regular(body), NEW a \in Nat, NEW c \in a..Len(body), a # 0 => body[a] = NewLine
  PROVE  /\ ScanLines(UsageAt(a), SubSeq(body, a + 1, c)) = UsageAt(c)
         /\ Leftover(SubSeq(body, a + 1, c)) = LineUpTo(body, c)
<1> DEFINE t == SubSeq(body, a + 1, c)
           h == [i \in 0..(c - a) |-> UsageAt(a + i)]
<1>1. body \in Seq(Symbols) /\ Len(body) \in Nat /\ c \in Nat /\ c - a \in Nat /\ a + (c - a) = c
  BY LenProperties DEF Regular
<1>2. t \in Seq(Symbols) /\ Len(t) = c - a /\ \A i \in 1..(c - a) : t[i] = body[a + i]
  BY <1>1, Piece
<1>3. \A j \in 0..(c - a) : LineUpTo(t, j) = LineUpTo(body, a + j)
  BY <1>1, LinesOfPiece
<1> HIDE DEF t
<1>4. AfterEach(h, UsageAt(a), t)
  <2>1. ASSUME NEW i \in 0..Len(t)
        PROVE  h[i] = IF i = 0 THEN UsageAt(a)
                      ELSE IF t[i] = NewLine THEN ProcessLine(h[i - 1], LineUpTo(t, i - 1))
                      ELSE h[i - 1]
    <3>1. i \in 0..(c - a) /\ i \in Nat /\ h[i] = UsageAt(a + i)
      BY <1>2
    <3>2. CASE i = 0
      BY <3>1, <3>2
    <3>3. CASE i # 0
      <4>1. /\ i \in 1..(c - a) /\ i - 1 \in 0..(c - a)
            /\ a + i \in 1..Len(body) /\ a + (i - 1) = (a + i) - 1
        BY <1>1, <3>1, <3>3
      <4>2. h[i - 1] = UsageAt((a + i) - 1) /\ LineUpTo(t, i - 1) = LineUpTo(body, (a + i) - 1)
        BY <1>3, <4>1
      <4>3. t[i] = body[a + i]
        BY <1>2, <4>1
      <4> DEFINE p == a + i
      <4>4. p \in 1..Len(body) /\ p \in Nat /\ p - 1 \in Nat /\ p - 1 <= p
        BY <4>1
      <4>5. h[i - 1] = UsageAt(p - 1) /\ LineUpTo(t, i - 1) = LineUpTo(body, p - 1) /\ t[i] = body[p] /\ h[i] = UsageAt(p)
        BY <3>1, <4>2, <4>3
      <4> HIDE DEF p, h
      <4>6. CASE t[i] = NewLine
        <5>1. ProcessLine(UsageAt(p - 1), LineUpTo(body, p - 1)) = UsageAt(p)
          BY <4>4, <4>5, <4>6, ProcessLineCounts
        <5>2. QED
          BY <3>3, <4>5, <4>6, <5>1, Zenon
      <4>7. CASE t[i] # NewLine
        <5>1. \A k \in ((p - 1) + 1)..p : body[k] # NewLine
          <6>1. \A k \in ((p - 1) + 1)..p : k = p
            BY <4>4
          <6>2. QED
            BY <4>5, <4>7, <6>1
        <5>2. UsageAt(p) = UsageAt(p - 1)
          BY <4>4, <5>1, UsageSkips
        <5>3. QED
          BY <3>3, <4>5, <4>7, <5>2, Zenon
      <4>8. QED
        BY <4>6, <4>7
    <3>4. QED
      BY <3>2, <3>3
  <2>2. h = [i \in 0..Len(t) |-> h[i]]
    BY <1>2
  <2> HIDE DEF h
  <2>3. QED
    BY <2>1, <2>2, Zenon DEF AfterEach
<1>5. ScanLines(UsageAt(a), t) = h[c - a]
  <2> HIDE DEF h
  <2>1. ScanLines(UsageAt(a), t) = h[Len(t)]
    BY <1>1, <1>2, <1>4, ScanLinesValue
  <2>2. QED
    BY <1>2, <2>1
<1>6. h[c - a] = UsageAt(c)
  <2>1. c - a \in 0..(c - a)
    BY <1>1
  <2>2. QED
    BY <1>1, <2>1
<1>7. Leftover(t) = LineUpTo(body, c)
  <2>1. c - a \in 0..(c - a)
    BY <1>1
  <2>2. QED
    BY <1>1, <1>2, <1>3, <2>1 DEF Leftover
<1>8. QED
  BY <1>5, <1>6, <1>7 DEF t

----------------------------------------------------------------------------
(* Every answer consists of lines. *)

WholeLines == {s \in Seq(Symbols) : Regular(s) /\ (s # <<>> => s[Len(s)] = NewLine)}

LEMMA LinesAreWhole ==
  ASSUME NEW line \in Lines
  PROVE  Terminated(line) \in WholeLines
<1>1. CASE line = <<>>
  <2> DEFINE t == Terminated(line)
  <2>1. t = <<NewLine>>
    BY <1>1 DEF Terminated
  <2> HIDE DEF t
  <2>2. t \in Seq(Symbols) /\ Len(t) = 1 /\ t[1] = NewLine
    BY <2>1 DEF Symbols
  <2>3. NewLine \notin LinePrefixes /\ NewLine \notin Payloads
    BY Kinds DEF LinePrefixes
  <2>4. Regular(t)
    <3>1. \A i \in 1..Len(t) : i = 1
      BY <2>2
    <3>2. QED
      BY <2>2, <2>3, <3>1 DEF Regular
  <2>5. t \in WholeLines
    BY <2>2, <2>4 DEF WholeLines
  <2>6. QED
    BY <2>5 DEF t
<1>2. CASE \E q \in LinePrefixes, p \in Payloads : line = <<q, p>>
  <2>1. PICK q \in LinePrefixes, p \in Payloads : line = <<q, p>>
    BY <1>2
  <2> DEFINE x == <<q, p>>
             y == <<NewLine>>
             t == x \o y
  <2>2. Terminated(line) = t
    BY <2>1 DEF Terminated
  <2>3. q \in Symbols /\ p \in Symbols /\ NewLine \in Symbols
    BY DEF Symbols
  <2>4. x \in Seq(Symbols) /\ Len(x) = 2 /\ x[1] = q /\ x[2] = p
    BY <2>3
  <2>5. y \in Seq(Symbols) /\ Len(y) = 1 /\ y[1] = NewLine
    BY <2>3
  <2> HIDE DEF x, y
  <2>6. /\ t \in Seq(Symbols) /\ Len(t) = Len(x) + Len(y)
        /\ \A i \in 1..(Len(x) + Len(y)) : t[i] = IF i <= Len(x) THEN x[i] ELSE y[i - Len(x)]
    BY <2>4, <2>5, ConcatProperties
  <2> HIDE DEF t
  <2>7. Len(t) = 3 /\ t[1] = q /\ t[2] = p /\ t[3] = NewLine
    BY <2>4, <2>5, <2>6
  <2>8. /\ q \notin Payloads /\ q # NewLine
        /\ p \notin LinePrefixes /\ p # NewLine
        /\ NewLine \notin LinePrefixes /\ NewLine \notin Payloads
    BY Kinds DEF LinePrefixes
  <2>9. ASSUME NEW i \in 1..Len(t)
        PROVE  /\ t[i] \in LinePrefixes => i = 1 \/ t[i - 1] = NewLine
               /\ t[i] \in Payloads => i > 1 /\ t[i - 1] \in LinePrefixes
               /\ t[i] = NewLine => i = 1 \/ t[i - 1] = NewLine \/ t[i - 1] \in Payloads
    <3>1. CASE i = 1
      BY <2>7, <2>8, <3>1
    <3>2. CASE i = 2
      BY <2>7, <2>8, <3>2
    <3>3. CASE i = 3
      BY <2>7, <2>8, <3>3
    <3>4. QED
      BY <2>7, <3>1, <3>2, <3>3
  <2>10. Regular(t)
    BY <2>6, <2>9 DEF Regular
  <2>11. t \in WholeLines
    BY <2>6, <2>7, <2>10 DEF WholeLines
  <2>12. QED
    BY <2>2, <2>11
<1>3. QED
  BY <1>1, <1>2 DEF Lines, LinePrefixes, Payloads

LEMMA WholeLinesJoin ==
  ASSUME NEW x \in WholeLines, NEW y \in WholeLines
  PROVE  x \o y \in WholeLines
<1> DEFINE t == x \o y
<1>1. /\ x \in Seq(Symbols) /\ Regular(x) /\ (x # <<>> => x[Len(x)] = NewLine)
      /\ y \in Seq(Symbols) /\ Regular(y) /\ (y # <<>> => y[Len(y)] = NewLine)
  BY DEF WholeLines
<1>2. Len(x) \in Nat /\ Len(y) \in Nat
  BY <1>1, LenProperties
<1>3. /\ t \in Seq(Symbols) /\ Len(t) = Len(x) + Len(y)
      /\ \A i \in 1..(Len(x) + Len(y)) : t[i] = IF i <= Len(x) THEN x[i] ELSE y[i - Len(x)]
  BY <1>1, ConcatProperties
<1>4. (x # <<>> => Len(x) > 0) /\ (Len(x) > 0 => x # <<>>) /\ (y # <<>> => Len(y) > 0) /\ (Len(y) > 0 => y # <<>>)
  BY <1>1, <1>2, EmptySeq
<1>5. NewLine \notin LinePrefixes
  BY Kinds DEF LinePrefixes
<1> HIDE DEF t
<1>6. ASSUME NEW i \in 1..Len(t)
      PROVE  /\ t[i] \in LinePrefixes => i = 1 \/ t[i - 1] = NewLine
             /\ t[i] \in Payloads => i > 1 /\ t[i - 1] \in LinePrefixes
             /\ t[i] = NewLine => i = 1 \/ t[i - 1] = NewLine \/ t[i - 1] \in Payloads
  <2>1. CASE i <= Len(x)
    <3>1. i \in 1..Len(x) /\ t[i] = x[i] /\ (i # 1 => t[i - 1] = x[i - 1])
      BY <1>2, <1>3, <2>1
    <3>2. QED
      BY <1>1, <3>1 DEF Regular
  <2>2. CASE i > Len(x)
    <3> DEFINE j == i - Len(x)
    <3>1. j \in 1..Len(y) /\ t[i] = y[j]
      BY <1>2, <1>3, <2>2
    <3>2. j # 1 => i # 1 /\ t[i - 1] = y[j - 1]
      <4> SUFFICES ASSUME j # 1 PROVE i # 1 /\ t[i - 1] = y[j - 1]
        OBVIOUS
      <4> DEFINE k == i - 1
      <4>1. /\ k \in 1..(Len(x) + Len(y)) /\ ~(k <= Len(x)) /\ k - Len(x) = j - 1
            /\ i # 1
        BY <1>2, <1>3, <2>2
      <4> HIDE DEF k, j
      <4>2. t[k] = y[k - Len(x)]
        BY <1>3, <4>1
      <4>3. QED
        BY <4>1, <4>2 DEF k
    <3>3. j = 1 /\ i # 1 => t[i - 1] = NewLine
      <4>1. j = 1 /\ i # 1 => i - 1 = Len(x) /\ Len(x) \in 1..(Len(x) + Len(y)) /\ Len(x) > 0
        BY <1>2, <2>2
      <4>2. QED
        BY <1>1, <1>2, <1>3, <1>4, <4>1
    <3>4. /\ y[j] \in LinePrefixes => j = 1 \/ y[j - 1] = NewLine
          /\ y[j] \in Payloads => j > 1 /\ y[j - 1] \in LinePrefixes
          /\ y[j] = NewLine => j = 1 \/ y[j - 1] = NewLine \/ y[j - 1] \in Payloads
      BY <1>1, <3>1 DEF Regular
    <3>5. i > 1 <=> i # 1
      OBVIOUS
    <3>6. j > 1 => j # 1
      BY <3>1
    <3> HIDE DEF j
    <3>7. QED
      BY <3>1, <3>2, <3>3, <3>4, <3>5, <3>6
  <2>3. QED
    BY <1>2, <1>3, <2>1, <2>2
<1>7. Regular(t)
  BY <1>3, <1>6 DEF Regular
<1>8. t # <<>> => t[Len(t)] = NewLine
  <2>1. CASE Len(y) > 0
    <3>1. Len(t) \in 1..(Len(x) + Len(y)) /\ ~(Len(t) <= Len(x)) /\ Len(t) - Len(x) = Len(y)
      BY <1>2, <1>3, <2>1
    <3>2. QED
      BY <1>1, <1>3, <1>4, <2>1, <3>1
  <2>2. CASE Len(y) = 0 /\ Len(x) > 0
    <3>1. Len(t) \in 1..(Len(x) + Len(y)) /\ Len(t) <= Len(x) /\ Len(t) = Len(x)
      BY <1>2, <1>3, <2>2
    <3>2. QED
      BY <1>1, <1>3, <1>4, <2>2, <3>1
  <2>3. CASE Len(y) = 0 /\ Len(x) = 0
    BY <1>3, <2>3, EmptySeq
  <2>4. QED
    BY <1>2, <2>1, <2>2, <2>3
<1>9. QED
  BY <1>3, <1>7, <1>8 DEF WholeLines, t

\* The equation that defines the first k partial results of FlattenSeq.
Flattening(g, k, seqs) ==
  g = [i \in 1..k |-> IF i = 1 THEN seqs[i] ELSE g[i - 1] \o seqs[i]]

LEMMA FlatteningExists ==
  ASSUME NEW seqs
  PROVE  \A k \in Nat : \E g : Flattening(g, k, seqs)
<1> DEFINE S == {k \in Nat : \E g : Flattening(g, k, seqs)}
<1>1. 0 \in S
  <2> DEFINE g == [i \in 1..0 |-> 0]
  <2>1. g = [i \in 1..0 |-> IF i = 1 THEN seqs[i] ELSE g[i - 1] \o seqs[i]]
    <3>1. \A i \in 1..0 : FALSE
      OBVIOUS
    <3>2. QED
      BY <3>1
  <2>2. Flattening(g, 0, seqs)
    BY <2>1 DEF Flattening
  <2>3. QED
    BY <2>2
<1>2. ASSUME NEW k \in Nat, k \in S PROVE k + 1 \in S
  <2>1. PICK g : Flattening(g, k, seqs)
    BY <1>2
  <2> DEFINE m == k + 1
             last == IF m = 1 THEN seqs[m] ELSE g[k] \o seqs[m]
             h == [i \in 1..m |-> IF i = m THEN last ELSE g[i]]
  <2>2. \A i \in 1..k : g[i] = IF i = 1 THEN seqs[i] ELSE g[i - 1] \o seqs[i]
    BY <2>1, Zenon DEF Flattening
  <2>3. ASSUME NEW i \in 1..m
        PROVE  h[i] = IF i = 1 THEN seqs[i] ELSE h[i - 1] \o seqs[i]
    <3>1. CASE i = m
      <4>1. h[i] = last
        BY <3>1
      <4>2. i # 1 => h[i - 1] = g[k]
        <5>1. i # 1 => k \in 1..m /\ k # m /\ i - 1 = k
          BY <3>1
        <5>2. k \in 1..m /\ k # m => h[k] = g[k]
          BY Zenon
        <5> HIDE DEF h
        <5>3. QED
          BY <5>1, <5>2
      <4> HIDE DEF h, m
      <4>3. QED
        BY <3>1, <4>1, <4>2, Zenon
    <3>2. CASE i # m
      <4>1. i \in 1..k /\ (i # 1 => i - 1 \in 1..m /\ i - 1 # m)
        BY <3>2
      <4> HIDE DEF m, last
      <4>2. h[i] = g[i]
        BY <3>2, Zenon
      <4>3. i # 1 => h[i - 1] = g[i - 1]
        BY <4>1, Zenon
      <4> HIDE DEF h
      <4>4. QED
        BY <2>2, <4>1, <4>2, <4>3, Zenon
    <3>3. QED
      BY <3>1, <3>2
  <2>4. h = [i \in 1..m |-> h[i]]
    BY Zenon
  <2> HIDE DEF h
  <2>5. h = [i \in 1..m |-> IF i = 1 THEN seqs[i] ELSE h[i - 1] \o seqs[i]]
    BY <2>3, <2>4, Zenon
  <2>6. Flattening(h, k + 1, seqs)
    BY <2>5 DEF Flattening
  <2>7. QED
    BY <2>6
<1> HIDE DEF S
<1>3. \A k \in Nat : k \in S
  BY <1>1, <1>2, SetInduction
<1>4. QED
  BY <1>3 DEF S

LEMMA FlattenedIsWhole ==
  ASSUME NEW n \in Nat, NEW seqs \in [1..n -> WholeLines], Len(seqs) = n
  PROVE  FlattenSeq(seqs) \in WholeLines
<1> DEFINE f == CHOOSE g : Flattening(g, n, seqs)
           S == {k \in Nat : k + 1 <= n => f[k + 1] \in WholeLines}
<1>1. CASE n = 0
  <2>1. seqs = <<>>
    BY <1>1
  <2>2. FlattenSeq(seqs) = <<>>
    BY <1>1, <2>1 DEF FlattenSeq
  <2>3. <<>> \in Seq(Symbols) /\ Len(<<>>) = 0
    BY EmptySeq
  <2>4. \A i \in 1..Len(<<>>) : FALSE
    BY <2>3
  <2>5. Regular(<<>>)
    BY <2>3, <2>4 DEF Regular
  <2>6. QED
    BY <2>2, <2>3, <2>5 DEF WholeLines
<1>2. CASE n # 0
  <2>1. FlattenSeq(seqs) = f[n]
    BY <1>2 DEF FlattenSeq, Flattening
  <2>2. \E g : Flattening(g, n, seqs)
    BY FlatteningExists
  <2>3. Flattening(f, n, seqs)
    BY <2>2, Zenon
  <2> HIDE DEF f
  <2>4. \A i \in 1..n : f[i] = IF i = 1 THEN seqs[i] ELSE f[i - 1] \o seqs[i]
    BY <2>3, Zenon DEF Flattening
  <2>5. 0 \in S
    <3>1. 1 \in 1..n /\ 0 + 1 = 1
      BY <1>2
    <3>2. f[1] = seqs[1]
      BY <2>4, <3>1, Zenon
    <3>3. QED
      BY <3>1, <3>2
  <2>6. ASSUME NEW k \in Nat, k \in S PROVE k + 1 \in S
    <3> SUFFICES ASSUME (k + 1) + 1 <= n PROVE f[(k + 1) + 1] \in WholeLines
      OBVIOUS
    <3> DEFINE j == (k + 1) + 1
    <3>1. j \in 1..n /\ j # 1 /\ j - 1 = k + 1 /\ k + 1 <= n
      OBVIOUS
    <3>2. f[k + 1] \in WholeLines
      BY <2>6, <3>1
    <3> HIDE DEF j
    <3>3. f[j - 1] \in WholeLines
      BY <3>1, <3>2
    <3>4. f[j] = f[j - 1] \o seqs[j]
      BY <2>4, <3>1, Zenon
    <3>5. seqs[j] \in WholeLines
      BY <3>1
    <3>6. f[j] \in WholeLines
      BY <3>3, <3>4, <3>5, WholeLinesJoin
    <3>7. QED
      BY <3>6 DEF j
  <2> HIDE DEF S
  <2>7. \A k \in Nat : k \in S
    BY <2>5, <2>6, SetInduction
  <2>8. n - 1 \in Nat /\ (n - 1) + 1 = n
    BY <1>2
  <2>9. n - 1 \in S
    BY <2>7, <2>8
  <2>10. QED
    BY <2>1, <2>8, <2>9 DEF S
<1>3. QED
  BY <1>1, <1>2

LEMMA AnswersAreWhole == ASSUME NEW answer \in Answers PROVE answer \in WholeLines
<1>1. PICK n \in 0..MaxLines :
        answer \in {FlattenSeq([i \in 1..n |-> Terminated(ls[i])]) : ls \in [1..n -> Lines]}
  BY DEF Answers
<1>2. PICK ls \in [1..n -> Lines] : answer = FlattenSeq([i \in 1..n |-> Terminated(ls[i])])
  BY <1>1
<1> DEFINE seqs == [i \in 1..n |-> Terminated(ls[i])]
<1>3. n \in Nat
  BY <1>1
<1>4. seqs \in [1..n -> WholeLines]
  BY LinesAreWhole
<1>5. Len(seqs) = n
  BY <1>3
<1> HIDE DEF seqs
<1>6. FlattenSeq(seqs) \in WholeLines
  BY <1>3, <1>4, <1>5, FlattenedIsWhole
<1>7. QED
  BY <1>2, <1>6 DEF seqs

LEMMA InitRegular == Init => Regular(body) /\ body \in Seq(Symbols)
<1> SUFFICES ASSUME Init PROVE Regular(body)
  BY DEF Regular
<1>1. PICK answer \in Answers : body \in CutShort(answer)
  BY DEF Init
<1>2. answer \in Seq(Symbols) /\ Regular(answer) /\ Len(answer) \in Nat
  BY <1>1, AnswersAreWhole, LenProperties DEF WholeLines
<1>3. PICK n \in {Len(answer) - 1, Len(answer)} \cap Nat : body = SubSeq(answer, 1, n)
  BY <1>1 DEF CutShort
<1>4. n \in 0..Len(answer) /\ n \in Nat /\ n - 0 = n
  BY <1>2, <1>3
<1>5. body = SubSeq(answer, 0 + 1, n)
  BY <1>3
<1>6. body \in Seq(Symbols) /\ Len(body) = n - 0 /\ \A i \in 1..(n - 0) : body[i] = answer[0 + i]
  BY <1>2, <1>4, <1>5, Piece
<1>7. Len(body) = n /\ \A i \in 1..n : body[i] = answer[i]
  BY <1>4, <1>6
<1>8. \A i \in 1..n : i \in 1..Len(answer) /\ (i # 1 => i - 1 \in 1..n)
  BY <1>2, <1>4
<1>9. ASSUME NEW i \in 1..Len(body)
      PROVE  /\ body[i] \in LinePrefixes => i = 1 \/ body[i - 1] = NewLine
             /\ body[i] \in Payloads => i > 1 /\ body[i - 1] \in LinePrefixes
             /\ body[i] = NewLine => i = 1 \/ body[i - 1] = NewLine \/ body[i - 1] \in Payloads
  <2>1. /\ answer[i] \in LinePrefixes => i = 1 \/ answer[i - 1] = NewLine
        /\ answer[i] \in Payloads => i > 1 /\ answer[i - 1] \in LinePrefixes
        /\ answer[i] = NewLine => i = 1 \/ answer[i - 1] = NewLine \/ answer[i - 1] \in Payloads
    BY <1>2, <1>7, <1>8 DEF Regular
  <2>2. body[i] = answer[i] /\ (i # 1 => body[i - 1] = answer[i - 1])
    BY <1>7, <1>8
  <2>3. i > 1 => i # 1
    BY <1>4, <1>7
  <2>4. QED
    BY <2>1, <2>2, <2>3
<1>10. QED
  BY <1>6, <1>9 DEF Regular
=============================================================================
