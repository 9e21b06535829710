---------------------------- MODULE SSETapProofs ----------------------------
(***************************************************************************)
(* Theorems about SSETap, for answers of any length and any chunks.        *)
(***************************************************************************)
EXTENDS SSETapLemmas

(* The report. *)

\* ReportedOnce is not inductive: it does not say that the callback is forgotten when
\* it has been called, nor that an answer that ended has been reported.
Reporting ==
  /\ Len(body) \in Nat
  /\ read \in 0..Len(body)
  /\ stream \in {"open", "eof", "broken", "closed"}
  /\ onComplete \in {"set", "nil"}
  /\ stream \in {"open", "broken"} => onComplete = "set"
  /\ stream = "eof" => onComplete = "nil"
  /\ onComplete = "set" => reports = <<>>
  /\ onComplete = "nil" => /\ stream \in {"eof", "closed"}
                           /\ read = Len(body)
                           /\ reports = <<usage>>

LEMMA ReportingInit == Init => Reporting
<1> SUFFICES ASSUME Init PROVE Reporting
  OBVIOUS
<1>1. Len(body) \in Nat
  BY InitRegular, LenProperties
<1>2. QED
  BY <1>1 DEF Init, Reporting

LEMMA ScanReads == ASSUME NEW n, Scan(n) PROVE read' = read + n
BY DEF Scan

LEMMA ReportingNext == Reporting /\ [Next]_vars => Reporting'
<1> SUFFICES ASSUME Reporting, [Next]_vars PROVE Reporting'
  OBVIOUS
<1>1. ASSUME NEW n \in 0..Len(body), ReadChunk(n) PROVE Reporting'
  <2>1. /\ stream = "open" /\ n \in 1..(Len(body) - read)
        /\ UNCHANGED <<body, onComplete, reports, stream>>
        /\ Scan(n)
    BY <1>1 DEF ReadChunk
  <2>2. read' = read + n
    BY <2>1, ScanReads
  <2>3. QED
    BY <2>1, <2>2 DEF Reporting
<1>2. ASSUME NEW n \in 0..Len(body), ReadEOF(n) PROVE Reporting'
  <2>1. /\ stream = "open" /\ n = Len(body) - read /\ stream' = "eof"
        /\ Complete
        /\ UNCHANGED body
        /\ Scan(n)
    BY <1>2 DEF ReadEOF
  <2>2. read' = Len(body)
    BY <2>1, ScanReads DEF Reporting
  <2>3. onComplete' = "nil" /\ reports' = <<usage'>>
    BY <2>1 DEF Complete, Reporting
  <2>4. QED
    BY <2>1, <2>2, <2>3 DEF Reporting
<1>3. ASSUME NEW n \in 0..Len(body), ReadError(n) PROVE Reporting'
  <2>1. /\ stream = "open" /\ n \in 0..(Len(body) - read) /\ stream' = "broken"
        /\ UNCHANGED <<body, onComplete, reports>>
        /\ Scan(n)
    BY <1>3 DEF ReadError
  <2>2. read' = read + n
    BY <2>1, ScanReads
  <2>3. QED
    BY <2>1, <2>2 DEF Reporting
<1>4. CASE ReadAgain
  BY <1>4 DEF ReadAgain, Complete, Reporting
<1>5. CASE Close
  BY <1>5 DEF Close, Reporting
<1>6. CASE UNCHANGED vars
  BY <1>6 DEF vars, Reporting
<1>7. QED
  BY <1>1, <1>2, <1>3, <1>4, <1>5, <1>6 DEF Next

LEMMA AlwaysReporting == Spec => []Reporting
BY ReportingInit, ReportingNext, PTL DEF Spec

\* However many chunks an answer comes in, and however often the proxy reads on after
\* its end: its usage is reported once, with the counts of all of it, and never when
\* the answer broke off or the client went away first (tap.go:35-45).
THEOREM UsageReportedOnce == Spec => []ReportedOnce
<1>1. Reporting => ReportedOnce
  <2> SUFFICES ASSUME Reporting PROVE ReportedOnce
    OBVIOUS
  <2>1. CASE onComplete = "set"
    <3>1. reports = <<>> /\ Len(<<>>) = 0
      BY <2>1 DEF Reporting
    <3>2. QED
      BY <3>1 DEF ReportedOnce
  <2>2. CASE onComplete = "nil"
    <3>1. reports = <<usage>> /\ Len(<<usage>>) = 1 /\ <<usage>>[1] = usage
      BY <2>2 DEF Reporting
    <3>2. stream \in {"eof", "closed"} /\ read = Len(body)
      BY <2>2 DEF Reporting
    <3>3. QED
      BY <3>1, <3>2 DEF ReportedOnce
  <2>3. QED
    BY <2>1, <2>2 DEF Reporting
<1>2. QED
  BY <1>1, AlwaysReporting, PTL

----------------------------------------------------------------------------
(* The counts. *)

\* ChunksDoNotMatter is not inductive: it does not say which part of a line is kept, nor
\* that a line ends where the next one begins.
Tapped ==
  /\ Regular(body)
  /\ read \in 0..Len(body)
  /\ lineBuf = LineUpTo(body, read)
  /\ usage = UsageAt(read)

LEMMA TappedInit == Init => Tapped
<1> SUFFICES ASSUME Init PROVE Tapped
  OBVIOUS
<1>1. Regular(body) /\ body \in Seq(Symbols)
  BY InitRegular
<1>2. read = 0 /\ lineBuf = <<>> /\ usage = NoUsage
  BY DEF Init
<1>3. Len(body) \in Nat /\ read \in 0..Len(body) /\ 0 \in 0..Len(body)
  BY <1>1, <1>2, LenProperties
<1>4. LastBreak(body, 0) = 0
  <2>1. IsLastBreak(body, 0, 0)
    BY DEF IsLastBreak
  <2>2. QED
    BY <2>1, LastBreakUnique
<1>5. LineUpTo(body, 0) = <<>>
  <2> DEFINE x == SubSeq(body, 0 + 1, 0)
  <2>1. x \in Seq(Symbols) /\ Len(x) = 0 - 0
    BY <1>1, <1>3, Piece
  <2>2. LineUpTo(body, 0) = x
    BY <1>4 DEF LineUpTo
  <2> HIDE DEF x
  <2>3. QED
    BY <2>1, <2>2, EmptySeq
<1>6. UsageAt(0) = NoUsage
  <2>1. ASSUME NEW name PROVE CountAt(name, 0) = 0
    <3>1. {i \in 3..0 : RelevantTo(i, name)} = {}
      OBVIOUS
    <3>2. QED
      BY <3>1 DEF CountAt
  <2>2. QED
    BY <2>1 DEF UsageAt, NoUsage
<1>7. QED
  BY <1>1, <1>2, <1>3, <1>5, <1>6 DEF Tapped

\* What a Read leaves, however much it returned: the kept part of a line and the new
\* chunk are together a piece of the answer that begins with a line.
LEMMA ScanTapped ==
  ASSUME Tapped, NEW n \in 0..(Len(body) - read), Scan(n), UNCHANGED body
  PROVE  Tapped'
<1> DEFINE a == LastBreak(body, read)
           c == read + n
           x == SubSeq(body, a + 1, read)
           y == SubSeq(body, read + 1, c)
           z == SubSeq(body, a + 1, c)
<1>1. /\ body \in Seq(Symbols) /\ Regular(body) /\ Len(body) \in Nat
      /\ read \in 0..Len(body) /\ read \in Nat
  BY LenProperties DEF Tapped, Regular
<1>2. IsLastBreak(body, read, a)
  BY <1>1, LastBreakExists
<1> HIDE DEF a
<1>3. /\ a \in 0..read /\ a \in Nat /\ (a # 0 => body[a] = NewLine)
      /\ \A i \in (a + 1)..read : body[i] # NewLine
  BY <1>1, <1>2 DEF IsLastBreak
<1>4. /\ n \in Nat /\ c \in Nat /\ c \in read..Len(body) /\ c \in a..Len(body) /\ c \in 0..Len(body)
      /\ read \in a..Len(body) /\ a <= read
  BY <1>1, <1>3
<1>5. lineBuf = x
  BY DEF Tapped, LineUpTo, a
<1>6. UsageAt(read) = UsageAt(a)
  BY <1>1, <1>3, <1>4, UsageSkips
<1> HIDE DEF c
<1>7. x \o y = z
  BY <1>1, <1>3, <1>4, PiecesJoin
<1>8. ScanLines(UsageAt(a), z) = UsageAt(c) /\ Leftover(z) = LineUpTo(body, c)
  BY <1>1, <1>3, <1>4, ScanPiece
<1>9. read' = c /\ usage' = ScanLines(usage, WithLineBuf(y)) /\ lineBuf' = Leftover(WithLineBuf(y))
  BY DEF Scan, c
<1> HIDE DEF x, y, z
<1>10. WithLineBuf(y) = z
  BY <1>5, <1>7 DEF WithLineBuf
<1>11. usage = UsageAt(a)
  BY <1>6 DEF Tapped
<1>12. usage' = UsageAt(c) /\ lineBuf' = LineUpTo(body, c)
  BY <1>8, <1>9, <1>10, <1>11
<1>13. body' = body
  OBVIOUS
<1>14. UsageAt(read)' = UsageAt(c)
  BY <1>9, <1>13 DEF UsageAt, CountAt, RelevantTo
<1>15. LineUpTo(body, read)' = LineUpTo(body, c)
  BY <1>9, <1>13
<1>16. QED
  BY <1>1, <1>4, <1>9, <1>12, <1>13, <1>14, <1>15 DEF Tapped

LEMMA TappedNext == Tapped /\ [Next]_vars => Tapped'
<1> SUFFICES ASSUME Tapped, [Next]_vars PROVE Tapped'
  OBVIOUS
<1>1. Len(body) \in Nat /\ read \in 0..Len(body)
  BY LenProperties DEF Tapped, Regular
<1>2. ASSUME NEW n \in 0..Len(body), ReadChunk(n) PROVE Tapped'
  <2>1. n \in 1..(Len(body) - read) /\ Scan(n) /\ UNCHANGED body
    BY <1>2 DEF ReadChunk
  <2>2. n \in 0..(Len(body) - read)
    BY <1>1, <2>1
  <2>3. QED
    BY <2>1, <2>2, ScanTapped
<1>3. ASSUME NEW n \in 0..Len(body), ReadEOF(n) PROVE Tapped'
  <2>1. n = Len(body) - read /\ Scan(n) /\ UNCHANGED body
    BY <1>3 DEF ReadEOF
  <2>2. n \in 0..(Len(body) - read)
    BY <1>1, <2>1
  <2>3. QED
    BY <2>1, <2>2, ScanTapped
<1>4. ASSUME NEW n \in 0..Len(body), ReadError(n) PROVE Tapped'
  <2>1. n \in 0..(Len(body) - read) /\ Scan(n) /\ UNCHANGED body
    BY <1>4 DEF ReadError
  <2>2. QED
    BY <2>1, ScanTapped
<1>5. ASSUME UNCHANGED <<body, read, lineBuf, usage>> PROVE Tapped'
  <2>1. UsageAt(read)' = UsageAt(read)
    BY <1>5 DEF UsageAt, CountAt, RelevantTo
  <2>2. QED
    BY <1>5, <2>1 DEF Tapped
<1>6. CASE ReadAgain
  BY <1>5, <1>6 DEF ReadAgain
<1>7. CASE Close
  BY <1>5, <1>7 DEF Close
<1>8. CASE UNCHANGED vars
  BY <1>5, <1>8 DEF vars
<1>9. QED
  BY <1>2, <1>3, <1>4, <1>6, <1>7, <1>8 DEF Next

LEMMA AlwaysTapped == Spec => []Tapped
BY TappedInit, TappedNext, PTL DEF Spec

\* However upstream cuts an answer into chunks, in the middle of a line or not: the
\* counts are those of its last relevant complete line that has been read, and what is
\* kept for the next Read is the part of a line after it (tap.go:51-71).
THEOREM CountsIgnoreChunks == Spec => []ChunksDoNotMatter
<1>1. Tapped => ChunksDoNotMatter
  <2> SUFFICES ASSUME Tapped PROVE ChunksDoNotMatter
    OBVIOUS
  <2>1. usage = [input |-> LastCount("message_start"), output |-> LastCount("message_delta")]
    BY DEF Tapped, UsageAt, CountAt, LastCount
  <2>2. ASSUME NEW i \in 1..Len(lineBuf) PROVE lineBuf[i] # NewLine
    <3> DEFINE a == LastBreak(body, read)
    <3>1. body \in Seq(Symbols) /\ Len(body) \in Nat /\ read \in Nat /\ read \in 0..Len(body)
      BY LenProperties DEF Tapped, Regular
    <3>2. IsLastBreak(body, read, a)
      BY <3>1, LastBreakExists
    <3>3. lineBuf = SubSeq(body, a + 1, read)
      BY DEF Tapped, LineUpTo
    <3> HIDE DEF a
    <3>4. a \in 0..read /\ a \in Nat /\ \A k \in (a + 1)..read : body[k] # NewLine
      BY <3>1, <3>2 DEF IsLastBreak
    <3>5. read \in a..Len(body)
      BY <3>1, <3>4
    <3>6. Len(lineBuf) = read - a /\ \A k \in 1..(read - a) : lineBuf[k] = body[a + k]
      BY <3>1, <3>3, <3>4, <3>5, Piece
    <3>7. a + i \in (a + 1)..read /\ lineBuf[i] = body[a + i]
      BY <3>1, <3>4, <3>6
    <3>8. QED
      BY <3>4, <3>7
  <2>3. QED
    BY <2>1, <2>2 DEF ChunksDoNotMatter
<1>2. QED
  BY <1>1, AlwaysTapped, PTL

----------------------------------------------------------------------------
(* Types. *)

LEMMA CountTyped ==
  ASSUME Regular(body), NEW name
  PROVE  \A p \in 0..Len(body) : CountAt(name, p) \in Counts \cup {0}
<1> DEFINE S == {p \in Nat : p <= Len(body) => CountAt(name, p) \in Counts \cup {0}}
<1>1. body \in Seq(Symbols) /\ Len(body) \in Nat
  BY LenProperties DEF Regular
<1>2. \A s \in Symbols : s.count \in Counts \cup {0}
  <2>1. \A p \in Payloads : p.count \in Counts \cup {0}
    BY PayloadFields
  <2>2. DataPrefix.count = 0 /\ EventPrefix.count = 0 /\ NewLine.count = 0
    BY DEF DataPrefix, EventPrefix, NewLine, Event
  <2>3. QED
    BY <2>1, <2>2 DEF Symbols, LinePrefixes
<1>3. 0 \in S
  <2>1. {i \in 3..0 : RelevantTo(i, name)} = {}
    OBVIOUS
  <2>2. CountAt(name, 0) = 0
    BY <2>1 DEF CountAt
  <2>3. QED
    BY <2>2
<1>4. ASSUME NEW k \in Nat, k \in S PROVE k + 1 \in S
  <2> SUFFICES ASSUME k + 1 <= Len(body) PROVE CountAt(name, k + 1) \in Counts \cup {0}
    OBVIOUS
  <2>1. CASE k + 1 >= 3 /\ RelevantTo(k + 1, name)
    <3>1. CountAt(name, k + 1) = CountOf(body[(k + 1) - 1], name)
      BY <2>1, CountStep
    <3>2. (k + 1) - 1 = k /\ k \in 1..Len(body)
      BY <1>1, <2>1
    <3>3. body[k] \in Symbols
      BY <1>1, <3>2, ElementOfSeq
    <3>4. body[k].count \in Counts \cup {0}
      BY <1>2, <3>3
    <3>5. CountOf(body[k], name) \in Counts \cup {0}
      BY <3>4 DEF CountOf
    <3>6. QED
      BY <3>1, <3>2, <3>5
  <2>2. CASE ~(k + 1 >= 3 /\ RelevantTo(k + 1, name))
    <3>1. \A i \in (k + 1)..(k + 1) : i = k + 1
      OBVIOUS
    <3>2. CountAt(name, k + 1) = CountAt(name, k)
      BY <2>2, <3>1, CountSkips
    <3>3. k <= Len(body)
      BY <1>1
    <3>4. QED
      BY <1>4, <3>2, <3>3
  <2>3. QED
    BY <2>1, <2>2
<1> HIDE DEF S
<1>5. \A k \in Nat : k \in S
  BY <1>3, <1>4, SetInduction
<1>6. QED
  BY <1>1, <1>5 DEF S

LEMMA PartialLineIsShort ==
  ASSUME Tapped
  PROVE  Len(lineBuf) <= 2
<1> DEFINE a == LastBreak(body, read)
<1>1. body \in Seq(Symbols) /\ Len(body) \in Nat /\ read \in Nat /\ read \in 0..Len(body)
  BY LenProperties DEF Tapped, Regular
<1>2. IsLastBreak(body, read, a)
  BY <1>1, LastBreakExists
<1>3. lineBuf = SubSeq(body, a + 1, read)
  BY DEF Tapped, LineUpTo
<1> HIDE DEF a
<1>4. a \in 0..read /\ a \in Nat /\ \A k \in (a + 1)..read : body[k] # NewLine
  BY <1>1, <1>2 DEF IsLastBreak
<1>5. read \in a..Len(body)
  BY <1>1, <1>4
<1>6. Len(lineBuf) = read - a
  BY <1>1, <1>3, <1>4, <1>5, Piece
<1> SUFFICES ASSUME read - a >= 3 PROVE FALSE
  BY <1>1, <1>4, <1>6
<1>7. /\ a + 2 \in 1..Len(body) /\ a + 3 \in 1..Len(body)
      /\ a + 2 # 1 /\ a + 3 # 1
      /\ (a + 2) - 1 = a + 1 /\ (a + 3) - 1 = a + 2
      /\ a + 1 \in (a + 1)..read /\ a + 2 \in (a + 1)..read /\ a + 3 \in (a + 1)..read
  BY <1>1, <1>4
<1>8. body[a + 1] # NewLine /\ body[a + 2] # NewLine /\ body[a + 3] # NewLine
  BY <1>4, <1>7
<1>9. body[a + 2] \in Symbols /\ body[a + 3] \in Symbols
  BY <1>1, <1>7, ElementOfSeq
<1>10. /\ body[a + 2] \in LinePrefixes => body[a + 1] = NewLine
       /\ body[a + 3] \in LinePrefixes => body[a + 2] = NewLine
       /\ body[a + 3] \in Payloads => body[a + 2] \in LinePrefixes
  <2>1. Regular(body)
    BY DEF Tapped
  <2>2. \A i \in 1..Len(body) : /\ body[i] \in LinePrefixes => i = 1 \/ body[i - 1] = NewLine
                                /\ body[i] \in Payloads => body[i - 1] \in LinePrefixes
    BY <2>1 DEF Regular
  <2>3. QED
    BY <1>7, <2>2
<1>11. QED
  BY <1>8, <1>9, <1>10 DEF Symbols

\* Every reachable state is well typed, for answers of any length: the part of a line
\* that is kept is less than a line, and no count is one that upstream did not send
\* (tap.go:51-139).
THEOREM TypeCorrect == Spec => []TypeOK
<1>1. Tapped /\ Reporting => TypeOK
  <2> SUFFICES ASSUME Tapped, Reporting PROVE TypeOK
    OBVIOUS
  <2>1. Len(lineBuf) <= 2
    BY PartialLineIsShort
  <2>2. Regular(body) /\ read \in 0..Len(body) /\ usage = UsageAt(read)
    BY DEF Tapped
  <2>3. usage = [input |-> CountAt("message_start", read), output |-> CountAt("message_delta", read)]
    BY <2>2 DEF UsageAt
  <2>4. CountAt("message_start", read) \in Counts \cup {0} /\ CountAt("message_delta", read) \in Counts \cup {0}
    BY <2>2, CountTyped
  <2>5. QED
    BY <2>1, <2>2, <2>3, <2>4 DEF TypeOK, Reporting
<1>2. QED
  BY <1>1, AlwaysTapped, AlwaysReporting, PTL

----------------------------------------------------------------------------
(* Generated text.  TextDoesNotMatter does not hold, as TLC shows: the scanner takes any  *)
(* line whose text mentions an event for that event.  That is the only reason.            *)

\* No data line but those of the events themselves mentions one of the two events.
PlainText == \A i \in 1..Len(body) :
               body[i].valid /\ body[i].mentions # {} => body[i] \in Starts \cup Deltas

LEMMA MaxInSet ==
  ASSUME NEW n \in Nat, NEW S \in SUBSET (1..n), S # {}
  PROVE  Max(S) \in S
<1>1. \E m \in S : \A i \in S : m >= i
  <2> DEFINE I == {k \in Nat : k <= n => ((\A i \in S : i <= k) => \E m \in S : \A i \in S : m >= i)}
  <2>1. 0 \in I
    <3>1. \A i \in S : i >= 1 /\ ~(i <= 0)
      OBVIOUS
    <3>2. QED
      BY <3>1
  <2>2. ASSUME NEW k \in Nat, k \in I PROVE k + 1 \in I
    <3> SUFFICES ASSUME k + 1 <= n, \A i \in S : i <= k + 1 PROVE \E m \in S : \A i \in S : m >= i
      OBVIOUS
    <3>1. CASE k + 1 \in S
      BY <3>1
    <3>2. CASE k + 1 \notin S
      <4>1. \A i \in S : i <= k
        <5>1. ASSUME NEW i \in S PROVE i <= k
          <6>1. i \in Int /\ i <= k + 1 /\ i # k + 1
            BY <3>2
          <6>2. QED
            BY <6>1
        <5>2. QED
          BY <5>1
      <4>2. QED
        BY <2>2, <4>1
    <3>3. QED
      BY <3>1, <3>2
  <2> HIDE DEF I
  <2>3. n \in I
    BY <2>1, <2>2, SetInduction
  <2>4. \A i \in S : i <= n
    OBVIOUS
  <2>5. QED
    BY <2>3, <2>4 DEF I
<1>2. Max(S) = CHOOSE x \in S : \A y \in S : x >= y
  BY DEF Max
<1>3. QED
  BY <1>1, <1>2

\* Without such text, the lines relevant to a count are those of its own events.
LEMMA PlainLines ==
  ASSUME Regular(body), PlainText, NEW i \in 3..Len(body), body[i] = NewLine, body[i - 2] = DataPrefix
  PROVE  /\ RelevantTo(i, "message_start") <=> body[i - 1] \in Starts
         /\ RelevantTo(i, "message_delta") <=> body[i - 1] \in Deltas
<1> DEFINE p == body[i - 1]
<1>1. Len(body) \in Nat /\ i - 1 \in 1..Len(body)
  BY LenProperties DEF Regular
<1>2. p.valid /\ p.mentions # {} => p \in Starts \cup Deltas
  BY <1>1 DEF PlainText
<1>3. ASSUME p \in Starts PROVE p.valid /\ p.mentions = {"message_start"}
  <2>1. PICK c \in Counts : p = Event("message_start", {"message_start"}, c, TRUE)
    BY <1>3 DEF Starts
  <2> HIDE DEF p
  <2>2. QED
    BY <2>1 DEF Event
<1>4. ASSUME p \in Deltas PROVE p.valid /\ p.mentions = {"message_delta"}
  <2>1. PICK c \in Counts : p = Event("message_delta", {"message_delta"}, c, TRUE)
    BY <1>4 DEF Deltas
  <2> HIDE DEF p
  <2>2. QED
    BY <2>1 DEF Event
<1>5. "message_start" # "message_delta"
  OBVIOUS
<1>6. RelevantTo(i, "message_start") <=> p.valid /\ "message_start" \in p.mentions
  BY <1>5 DEF RelevantTo
<1>7. RelevantTo(i, "message_delta") <=> p.valid /\ "message_delta" \in p.mentions /\ "message_start" \notin p.mentions
  BY DEF RelevantTo
<1> HIDE DEF p
<1>8. p.valid /\ "message_start" \in p.mentions <=> p \in Starts
  BY <1>2, <1>3, <1>4, <1>5
<1>9. p.valid /\ "message_delta" \in p.mentions /\ "message_start" \notin p.mentions <=> p \in Deltas
  BY <1>2, <1>3, <1>4, <1>5
<1>10. QED
  BY <1>6, <1>7, <1>8, <1>9 DEF p

LEMMA PlainCount ==
  ASSUME NEW name, NEW events,
         \A e \in events : e.type = name,
         Len(body) \in Nat,
         \A i \in 3..Len(body) : RelevantTo(i, name) <=>
           body[i] = NewLine /\ body[i - 2] = DataPrefix /\ body[i - 1] \in events
  PROVE  CountAt(name, Len(body)) = SentBy(events)
<1> DEFINE ends == {i \in 3..Len(body) : RelevantTo(i, name)}
           lines == {i \in 3..Len(body) : body[i] = NewLine /\ body[i - 2] = DataPrefix /\ body[i - 1] \in events}
<1>1. ends = lines
  OBVIOUS
<1>2. CountAt(name, Len(body)) = IF ends = {} THEN 0 ELSE CountOf(body[Max(ends) - 1], name)
  BY DEF CountAt
<1>3. SentBy(events) = IF lines = {} THEN 0 ELSE body[Max(lines) - 1].count
  BY DEF SentBy
<1>4. lines \in SUBSET (1..Len(body)) /\ \A i \in lines : body[i - 1] \in events
  OBVIOUS
<1> HIDE DEF ends, lines
<1>5. lines # {} => CountOf(body[Max(lines) - 1], name) = body[Max(lines) - 1].count
  BY <1>4, MaxInSet DEF CountOf
<1>6. QED
  BY <1>1, <1>2, <1>3, <1>5

\* If no text mentions an event, what is reported is what the message events of the
\* answer said, for every answer and every chunking (tap.go:80-139).
THEOREM PlainTextDoesNotMatter == Spec => [](PlainText => TextDoesNotMatter)
<1>1. Tapped /\ Reporting => (PlainText => TextDoesNotMatter)
  <2> SUFFICES ASSUME Tapped, Reporting, PlainText, reports # <<>>
               PROVE  reports[1] = [input |-> SentBy(Starts), output |-> SentBy(Deltas)]
    BY DEF TextDoesNotMatter
  <2>1. reports = <<usage>> /\ read = Len(body) /\ Len(body) \in Nat
    BY DEF Reporting
  <2>2. reports[1] = UsageAt(Len(body))
    BY <2>1 DEF Tapped
  <2>3. Regular(body)
    BY DEF Tapped
  <2>4. CountAt("message_start", Len(body)) = SentBy(Starts)
    <3>1. \A e \in Starts : e.type = "message_start"
      BY DEF Starts, Event
    <3>2. \A i \in 3..Len(body) : RelevantTo(i, "message_start") <=>
            body[i] = NewLine /\ body[i - 2] = DataPrefix /\ body[i - 1] \in Starts
      BY <2>3, PlainLines DEF RelevantTo
    <3>3. QED
      BY <2>1, <3>1, <3>2, PlainCount
  <2>5. CountAt("message_delta", Len(body)) = SentBy(Deltas)
    <3>1. \A e \in Deltas : e.type = "message_delta"
      BY DEF Deltas, Event
    <3>2. \A i \in 3..Len(body) : RelevantTo(i, "message_delta") <=>
            body[i] = NewLine /\ body[i - 2] = DataPrefix /\ body[i - 1] \in Deltas
      BY <2>3, PlainLines DEF RelevantTo
    <3>3. QED
      BY <2>1, <3>1, <3>2, PlainCount
  <2>6. QED
    BY <2>2, <2>4, <2>5 DEF UsageAt
<1>2. QED
  BY <1>1, AlwaysTapped, AlwaysReporting, PTL
=============================================================================
