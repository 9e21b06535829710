------------------------------- MODULE SSETap -------------------------------
(***************************************************************************)
(* internal/proxy/tap.go: the reader that passes a streamed answer through *)
(* to the client and picks the token counts out of it on the way.          *)
(*                                                                         *)
(* An answer is a sequence of symbols: the end of a line, the two prefixes *)
(* a line can have, and payloads.  Upstream delivers it in chunks that end *)
(* anywhere, between two lines or inside one.  A payload is a JSON event,  *)
(* known by its type, by the event names that occur somewhere in its text, *)
(* and by the one count it carries; it is valid JSON or it is not.         *)
(***************************************************************************)
EXTENDS Integers, SequencesExt

CONSTANTS Counts,   \* token counts upstream can report, all positive
          MaxLines  \* bound of the model: lines of an answer

ASSUME CountsAssumption == Counts \subseteq Nat \ {0}
ASSUME MaxLinesAssumption == MaxLines \in Nat

Event(type, mentions, count, valid) ==
  [type |-> type, mentions |-> mentions, count |-> count, valid |-> valid]

\* Symbols that are not payloads.
NewLine == Event("newline", {}, 0, FALSE)
DataPrefix == Event("data: ", {}, 0, FALSE)
EventPrefix == Event("event: ", {}, 0, FALSE)

Starts == {Event("message_start", {"message_start"}, c, TRUE) : c \in Counts}
Deltas == {Event("message_delta", {"message_delta"}, c, TRUE) : c \in Counts}
\* Generated text, and any other event: no count, and whatever names the text holds.
Texts == {Event("content", m, 0, TRUE) : m \in SUBSET {"message_start", "message_delta"}}
Garbled == Event("content", {"message_start"}, 0, FALSE)

Lines == {<<DataPrefix, p>> : p \in Starts \cup Deltas \cup Texts \cup {Garbled}}
           \cup {<<EventPrefix, Garbled>>, <<>>}

Terminated(line) == line \o <<NewLine>>

\* Whole lines, or all but the end of the last one.
Answers == UNION {{FlattenSeq([i \in 1..n |-> Terminated(ls[i])]) : ls \in [1..n -> Lines]} :
                    n \in 0..MaxLines}
CutShort(answer) == {SubSeq(answer, 1, n) : n \in {Len(answer) - 1, Len(answer)} \cap Nat}

VARIABLES
  body,        \* the answer upstream is sending
  read,        \* how many of its symbols have been read
  lineBuf,     \* the partial line kept for the next Read
  usage,       \* UsageData: input and output tokens
  onComplete,  \* "set" or "nil"
  reports,     \* history: the calls of onComplete
  stream       \* "open", "eof", "broken" (another error), "closed"

vars == <<body, read, lineBuf, usage, onComplete, reports, stream>>

NoUsage == [input |-> 0, output |-> 0]

Init == /\ \E answer \in Answers : body \in CutShort(answer)
        /\ read = 0
        /\ lineBuf = <<>>
        /\ usage = NoUsage
        /\ onComplete = "set"
        /\ reports = <<>>
        /\ stream = "open"

----------------------------------------------------------------------------
(* One line. *)

\* Fields a JSON object does not have are zero, so any event can be read as any other.
CountOf(payload, type) == IF payload.type = type THEN payload.count ELSE 0

\* Mutant: counts are summed up.
AddMessageDelta(u, payload) == [u EXCEPT !.output = @ + CountOf(payload, "message_delta")]

ParseMessageStart(u, payload) == [u EXCEPT !.input = CountOf(payload, "message_start")]
ParseMessageDelta(u, payload) == [u EXCEPT !.output = CountOf(payload, "message_delta")]

ProcessLine(u, line) ==
  LET payload == Last(line)
  IN  IF Len(line) < 2 \/ Head(line) # DataPrefix \/ ~payload.valid THEN u
      ELSE IF "message_start" \in payload.mentions THEN ParseMessageStart(u, payload)
      ELSE IF "message_delta" \in payload.mentions THEN ParseMessageDelta(u, payload)
      ELSE u

----------------------------------------------------------------------------
(* scan: the lines a chunk completes, and what is left of it. *)

\* Where the last complete line within the first e symbols ends.
LastBreak(chunk, e) == Max({0} \cup {i \in 1..e : chunk[i] = NewLine})

LineUpTo(chunk, e) == SubSeq(chunk, LastBreak(chunk, e) + 1, e)

\* The loop: the counts after each line end in turn.
ScanLines(u, chunk) ==
  LET after[i \in 0..Len(chunk)] ==
        IF i = 0 THEN u
        ELSE IF chunk[i] = NewLine THEN ProcessLine(after[i - 1], LineUpTo(chunk, i - 1))
        ELSE after[i - 1]
  IN  after[Len(chunk)]

Leftover(chunk) == LineUpTo(chunk, Len(chunk))

\* Mutant: the partial line of the previous Read is forgotten.
WithoutLineBuf(chunk) == chunk

WithLineBuf(chunk) == lineBuf \o chunk

Scan(n) == LET chunk == WithLineBuf(SubSeq(body, read + 1, read + n))
           IN  /\ usage' = ScanLines(usage, chunk)
               /\ lineBuf' = Leftover(chunk)
               /\ read' = read + n

----------------------------------------------------------------------------
(* Read, as the reverse proxy calls it. *)

ReadChunk(n) == /\ stream = "open"
                /\ n \in 1..(Len(body) - read)
                /\ Scan(n)
                /\ UNCHANGED <<body, onComplete, reports, stream>>

Complete == /\ onComplete' = "nil"
            /\ reports' = IF onComplete = "set" THEN Append(reports, usage') ELSE reports

\* The last symbols and io.EOF, together or not.
ReadEOF(n) == /\ stream = "open"
              /\ n = Len(body) - read
              /\ Scan(n)
              /\ stream' = "eof"
              /\ Complete
              /\ UNCHANGED body

\* Reading on after the end.
ReadAgain == /\ stream = "eof"
             /\ Complete
             /\ UNCHANGED <<body, read, lineBuf, usage, stream>>

\* Mutant: any error completes the report.
ReadErrorCompletes(n) == /\ stream = "open"
                         /\ n \in 0..(Len(body) - read)
                         /\ Scan(n)
                         /\ stream' = "broken"
                         /\ Complete
                         /\ UNCHANGED body

\* Upstream breaks off, perhaps after some more symbols.
ReadError(n) == /\ stream = "open"
                /\ n \in 0..(Len(body) - read)
                /\ Scan(n)
                /\ stream' = "broken"
                /\ UNCHANGED <<body, onComplete, reports>>

\* The client has gone: the proxy closes the body without reading on.
Close == /\ stream # "closed"
         /\ stream' = "closed"
         /\ UNCHANGED <<body, read, lineBuf, usage, onComplete, reports>>

Next == \/ \E n \in 0..Len(body) : ReadChunk(n) \/ ReadEOF(n) \/ ReadError(n)
        \/ ReadAgain
        \/ Close

Spec == Init /\ [][Next]_vars

----------------------------------------------------------------------------
(* Properties. *)

\* Every variable has its type: in particular a count is one that upstream sent,
\* never the sum of several (tap.go:117-139).
TypeOK ==
  /\ read \in 0..Len(body)
  /\ Len(lineBuf) <= 2
  /\ usage \in [input : Counts \cup {0}, output : Counts \cup {0}]
  /\ onComplete \in {"set", "nil"}
  /\ stream \in {"open", "eof", "broken", "closed"}

\* Line number i of the answer, counted by its NewLine, is the payload before it.
\* A line is relevant to a count if it is a data line that mentions the event.
RelevantTo(i, name) == /\ body[i] = NewLine
                       /\ body[i - 2] = DataPrefix
                       /\ body[i - 1].valid
                       /\ name \in body[i - 1].mentions
                       /\ name = "message_delta" => "message_start" \notin body[i - 1].mentions

LastCount(name) ==
  LET ends == {i \in 3..read : RelevantTo(i, name)}
  IN  IF ends = {} THEN 0 ELSE CountOf(body[Max(ends) - 1], name)

\* However the answer is cut into chunks, the counts are those of the last relevant
\* complete line read so far, and only the part of a line after it is kept
\* (tap.go:53-71).
ChunksDoNotMatter ==
  /\ usage = [input |-> LastCount("message_start"), output |-> LastCount("message_delta")]
  /\ \A i \in 1..Len(lineBuf) : lineBuf[i] # NewLine

\* The usage of an answer is reported once, when all of it has been read, and never
\* for an answer that broke off (tap.go:35-45).
ReportedOnce ==
  /\ Len(reports) <= 1
  /\ reports # <<>> => stream \in {"eof", "closed"} /\ read = Len(body) /\ reports[1] = usage

\* What the message events of an answer say, whatever is in its text.
SentBy(events) ==
  LET ends == {i \in 3..Len(body) : body[i] = NewLine /\ body[i - 2] = DataPrefix /\ body[i - 1] \in events}
  IN  IF ends = {} THEN 0 ELSE body[Max(ends) - 1].count

\* "Per-token input/output token counts parsed from SSE streams" (README.md:15): the
\* reported counts are those of the message events, whatever the generated text is.
TextDoesNotMatter ==
  reports # <<>> => reports[1] = [input |-> SentBy(Starts), output |-> SentBy(Deltas)]
=============================================================================
