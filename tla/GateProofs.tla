----------------------------- MODULE GateProofs -----------------------------
(***************************************************************************)
(* Theorems about Gate for any number of requests, administrators,         *)
(* sessions and gate tokens, and any time to live.                         *)
(***************************************************************************)
EXTENDS Gate, TLAPS

\* Where a request is in ServeHTTP determines what it has done.
Course(q) ==
  /\ q.pc # "done" => q.result = "none"
  /\ q.pc \in {"idle", "authenticate", "resolve", "upstream"} => q.answer = NoAnswer
  /\ q.pc = "readBody" => q.answer = GoodJSON
  /\ q.pc = "recordFailure" => q.answer.status = "5xx"
  /\ q.pc \in {"recordFailure", "copy"} => q.answer \in Answer
  /\ q.result = "refused" => q.answer = NoAnswer
  /\ q.result \in {"complete", "unsent", "cut"} => q.answer \in Answer

\* What it has reported.
Reported(q) ==
  q.charged = IF \/ q.answer = GoodJSON /\ (q.pc = "copy" \/ q.result \in {"complete", "unsent", "cut"})
                 \/ q.answer.type = "stream" /\ q.result \in {"complete", "unsent"}
              THEN <<q.gate>> ELSE <<>>

\* What it has blamed on its real token.
Blamed(q) ==
  /\ q.failure # "twice"
  /\ q.failure = "counted" => "upstream" \in q.fault \/ ("client" \in q.fault /\ ~q.sent)
  /\ q.answer.status = "5xx" => "upstream" \in q.fault
  /\ q.pc = "errorHandler" => \/ "upstream" \in q.fault
                              \/ "client" \in q.fault /\ (~q.sent \/ q.context = "done")
  /\ q.failure # "none" <=> \/ q.result = "error"
                            \/ /\ q.pc = "copy" \/ q.result \in {"complete", "unsent", "cut"}
                               /\ q.answer.status = "5xx"

\* Whom it acts for.
Entitled(q) ==
  /\ q.pc = "authenticate" => ActiveWith(gateTokens, q.bearer) \subseteq q.entitled
  /\ q.gate # NoToken => q.gate \in q.entitled

Sound(q) == q \in Request /\ Course(q) /\ Reported(q) /\ Blamed(q) /\ Entitled(q)

RequestsSound == /\ requests \in [Requests -> Request]
                 /\ \A r \in Requests : Sound(requests[r])

LEMMA BlankSound == Sound(Blank)
BY NoTokenAssumption
DEF Sound, Request, Blank, Course, Reported, Blamed, Entitled, NoAnswer, GoodJSON, Answer, Parties

\* A step of one request.
LEMMA OneRequest ==
  ASSUME RequestsSound, NEW r \in Requests, NEW q, Becomes(r, q), Sound(q), UNCHANGED gateTokens
  PROVE  RequestsSound'
<1>1. \A x \in Requests : Sound(requests'[x])
  BY DEF RequestsSound, Becomes
<1>2. \A x : Sound(x) => Sound(x)'
  BY DEF Sound, Course, Reported, Blamed, Entitled, ActiveWith
<1>3. requests' \in [Requests -> Request]
  BY DEF RequestsSound, Becomes, Sound
<1>4. QED
  BY <1>1, <1>2, <1>3 DEF RequestsSound

\* Until upstream has answered, a request has no answer, no result and no report.
LEMMA NothingYet ==
  ASSUME NEW q, Sound(q), q.pc \in {"authenticate", "resolve", "upstream"}
  PROVE  /\ q \in Request
         /\ q.result = "none" /\ q.answer = NoAnswer /\ q.charged = <<>> /\ q.failure = "none"
         /\ NoAnswer.type # "stream" /\ NoAnswer.status # "5xx" /\ NoAnswer # GoodJSON
<1>1. NoAnswer.type # "stream" /\ NoAnswer.status # "5xx" /\ NoAnswer # GoodJSON
  BY DEF NoAnswer, GoodJSON
<1>2. q \in Request /\ q.result = "none" /\ q.answer = NoAnswer
  BY DEF Sound, Course
<1>3. q.charged = <<>>
  BY <1>1, <1>2 DEF Sound, Reported
<1>4. q.failure = "none"
  BY <1>1, <1>2 DEF Sound, Blamed
<1>5. QED
  BY <1>1, <1>2, <1>3, <1>4

\* The client's leaving, the end of its request and the end of the context.
LEMMA ConnectionSound ==
  ASSUME RequestsSound, NEW r \in Requests, UNCHANGED gateTokens,
         ClientLeaves(r) \/ RequestSent(r) \/ ContextEnds(r)
  PROVE  RequestsSound'
<1> DEFINE q == requests[r]
<1>q. Sound(q)
  BY DEF RequestsSound
<1>1. CASE ClientLeaves(r)
  <2> DEFINE new == [q EXCEPT !.client = "left"]
  <2>1. new \in Request
    BY <1>q DEF Sound, Request
  <2>2. Course(new)
    BY <1>q DEF Sound, Request, Course
  <2>3. Blamed(new)
    BY <1>q DEF Sound, Request, Blamed
  <2>4. Reported(new)
    BY <1>q DEF Sound, Request, Reported
  <2>5. Entitled(new)
    BY <1>q DEF Sound, Request, Entitled
  <2>6. QED
    BY <1>1, <2>1, <2>2, <2>3, <2>4, <2>5, OneRequest DEF ClientLeaves, Sound
<1>2. CASE RequestSent(r)
  <2> DEFINE new == [q EXCEPT !.sent = TRUE]
  <2>1. q \in Request /\ q.pc \in {"upstream", "readBody", "recordFailure", "copy"} /\ q.result = "none"
    BY <1>q, <1>2 DEF RequestSent, Forwarding, Sound, Course
  \* What has been counted by now is a 5xx answer.
  <2>2. q.failure = "counted" => "upstream" \in q.fault
    BY <1>q, <2>1 DEF Sound, Blamed
  <2>3. new \in Request
    BY <2>1 DEF Request
  <2>4. Course(new) /\ Entitled(new)
    BY <1>q, <2>1 DEF Sound, Request, Course, Entitled
  <2>5. Reported(new)
    BY <1>q, <2>1 DEF Sound, Request, Reported
  <2>6. Blamed(new)
    BY <1>q, <2>1, <2>2 DEF Sound, Request, Blamed
  <2>7. QED
    BY <1>2, <2>3, <2>4, <2>5, <2>6, OneRequest DEF RequestSent, Sound
<1>3. CASE ContextEnds(r)
  <2> DEFINE new == [q EXCEPT !.context = "done"]
  <2>1. new \in Request
    BY <1>q DEF Sound, Request
  <2>2. Course(new)
    BY <1>q DEF Sound, Request, Course
  <2>3. Blamed(new)
    BY <1>q DEF Sound, Request, Blamed
  <2>4. Reported(new)
    BY <1>q DEF Sound, Request, Reported
  <2>5. Entitled(new)
    BY <1>q DEF Sound, Request, Entitled
  <2>6. QED
    BY <1>3, <2>1, <2>2, <2>3, <2>4, <2>5, OneRequest DEF ContextEnds, Sound
<1>4. QED
  BY <1>1, <1>2, <1>3

\* ServeHTTP up to the call of ReverseProxy.
LEMMA EntrySound ==
  ASSUME RequestsSound, NEW r \in Requests, UNCHANGED gateTokens,
         \/ \E token \in Bearers \cup {NoToken} : Arrive(r, token)
         \/ Authenticate(r) \/ Refuse(r) \/ ResolveToken(r) \/ ResolveFails(r) \/ Leave(r)
  PROVE  RequestsSound'
<1> DEFINE q == requests[r]
<1>q. Sound(q)
  BY DEF RequestsSound
<1>1. ASSUME NEW token \in Bearers \cup {NoToken}, Arrive(r, token)
      PROVE  RequestsSound'
  <2> DEFINE new == [Blank EXCEPT !.pc = "authenticate", !.bearer = token,
                               !.entitled = ActiveWith(gateTokens, token)]
  <2>1. Sound(new)
    <3> DEFINE active == ActiveWith(gateTokens, token)
               b == Blank
    <3>1. active \in SUBSET GateTokens
      BY DEF ActiveWith
    <3>2. /\ b \in Request /\ b.result = "none" /\ b.answer = NoAnswer
          /\ b.charged = <<>> /\ b.failure = "none" /\ b.gate = NoToken
      BY BlankSound DEF Blank, Sound
    <3>3. NoAnswer.type # "stream" /\ NoAnswer.status # "5xx" /\ NoAnswer # GoodJSON
      BY DEF NoAnswer, GoodJSON
    <3> HIDE DEF active, b
    <3>4. new = [b EXCEPT !.pc = "authenticate", !.bearer = token, !.entitled = active]
      BY DEF active, b
    <3> HIDE DEF new
    <3> DEFINE p == [b EXCEPT !.pc = "authenticate"]
    <3>p. p \in Request
      BY <3>2 DEF Request
    <3> DEFINE o == [p EXCEPT !.bearer = token]
    <3> HIDE DEF p
    <3>o. o \in Request
      BY <1>1, <3>p DEF Request
    <3> HIDE DEF o
    <3>n. [o EXCEPT !.entitled = active] \in Request
      BY <3>1, <3>o DEF Request
    <3>5. new \in Request
      BY <3>4, <3>n DEF p, o
    <3>6. Course(new) /\ Blamed(new)
      BY <3>2, <3>3, <3>4 DEF Course, Blamed, Request
    <3>7. Reported(new)
      BY <3>2, <3>3, <3>4 DEF Reported, Request
    <3>8. Entitled(new)
      BY <3>2, <3>4 DEF Entitled, Request, active
    <3>9. QED
      BY <3>5, <3>6, <3>7, <3>8 DEF Sound
  <2>2. QED
    BY <1>1, <2>1, OneRequest DEF Arrive
<1>2. ASSUME NEW g \in ActiveWith(gateTokens, q.bearer), At(r, "authenticate"),
             Becomes(r, [q EXCEPT !.pc = "resolve", !.gate = g])
      PROVE  RequestsSound'
  <2> DEFINE new == [q EXCEPT !.pc = "resolve", !.gate = g]
  <2>1. g \in GateTokens /\ g \in q.entitled
    BY <1>q, <1>2 DEF ActiveWith, Sound, Entitled, At
  <2>2. Sound(new)
    <3> HIDE DEF q
    <3>1. /\ q \in Request /\ q.pc = "authenticate" /\ q.result = "none" /\ q.answer = NoAnswer
          /\ q.charged = <<>> /\ q.failure = "none"
          /\ NoAnswer.type # "stream" /\ NoAnswer.status # "5xx" /\ NoAnswer # GoodJSON
      BY <1>q, <1>2, NothingYet DEF At, q
    <3>2. new \in Request
      BY <2>1, <3>1 DEF Request
    <3>3. Course(new)
      BY <3>1 DEF Course, Request
    <3>4. Reported(new)
      BY <3>1 DEF Reported, Request
    <3>5. Blamed(new)
      BY <1>q, <3>1 DEF Sound, Blamed, Request
    <3>6. Entitled(new)
      BY <1>q, <2>1, <3>1 DEF Sound, Entitled, Request
    <3>7. QED
      BY <3>2, <3>3, <3>4, <3>5, <3>6 DEF Sound
  <2>3. QED
    BY <1>2, <2>2, OneRequest
<1>3. CASE Refuse(r)
  <2> DEFINE new == [q EXCEPT !.pc = "done", !.result = "refused"]
  <2>1. Sound(new)
    <3> HIDE DEF q
    <3>1. /\ q \in Request /\ q.pc = "authenticate" /\ q.result = "none" /\ q.answer = NoAnswer
          /\ q.charged = <<>> /\ q.failure = "none"
          /\ NoAnswer.type # "stream" /\ NoAnswer.status # "5xx" /\ NoAnswer # GoodJSON
      BY <1>q, <1>3, NothingYet DEF Refuse, At, q
    <3>2. new \in Request
      BY <3>1 DEF Request
    <3>3. Course(new)
      BY <3>1 DEF Course, Request
    <3>4. Reported(new)
      BY <3>1 DEF Reported, Request
    <3>5. Blamed(new)
      BY <1>q, <3>1 DEF Sound, Blamed, Request
    <3>6. Entitled(new)
      BY <1>q, <3>1 DEF Sound, Entitled, Request
    <3>7. QED
      BY <3>2, <3>3, <3>4, <3>5, <3>6 DEF Sound
  <2>2. QED
    BY <1>3, <2>1, OneRequest DEF Refuse, Return
<1>4. CASE ResolveToken(r)
  <2> DEFINE new == [q EXCEPT !.pc = "upstream"]
  <2>1. Sound(new)
    <3> HIDE DEF q
    <3>1. /\ q \in Request /\ q.pc = "resolve" /\ q.result = "none" /\ q.answer = NoAnswer
          /\ q.charged = <<>> /\ q.failure = "none"
          /\ NoAnswer.type # "stream" /\ NoAnswer.status # "5xx" /\ NoAnswer # GoodJSON
      BY <1>q, <1>4, NothingYet DEF ResolveToken, At, q
    <3>2. new \in Request
      BY <3>1 DEF Request
    <3>3. Course(new)
      BY <3>1 DEF Course, Request
    <3>4. Reported(new)
      BY <3>1 DEF Reported, Request
    <3>5. Blamed(new)
      BY <1>q, <3>1 DEF Sound, Blamed, Request
    <3>6. Entitled(new)
      BY <1>q, <3>1 DEF Sound, Entitled, Request
    <3>7. QED
      BY <3>2, <3>3, <3>4, <3>5, <3>6 DEF Sound
  <2>2. QED
    BY <1>4, <2>1, OneRequest DEF ResolveToken, Goto
<1>5. CASE ResolveFails(r)
  <2> DEFINE new == [q EXCEPT !.pc = "done", !.result = "refused"]
  <2>1. Sound(new)
    <3> HIDE DEF q
    <3>1. /\ q \in Request /\ q.pc = "resolve" /\ q.result = "none" /\ q.answer = NoAnswer
          /\ q.charged = <<>> /\ q.failure = "none"
          /\ NoAnswer.type # "stream" /\ NoAnswer.status # "5xx" /\ NoAnswer # GoodJSON
      BY <1>q, <1>5, NothingYet DEF ResolveFails, At, q
    <3>2. new \in Request
      BY <3>1 DEF Request
    <3>3. Course(new)
      BY <3>1 DEF Course, Request
    <3>4. Reported(new)
      BY <3>1 DEF Reported, Request
    <3>5. Blamed(new)
      BY <1>q, <3>1 DEF Sound, Blamed, Request
    <3>6. Entitled(new)
      BY <1>q, <3>1 DEF Sound, Entitled, Request
    <3>7. QED
      BY <3>2, <3>3, <3>4, <3>5, <3>6 DEF Sound
  <2>2. QED
    BY <1>5, <2>1, OneRequest DEF ResolveFails, Return
<1>6. CASE Leave(r)
  BY <1>6, BlankSound, OneRequest DEF Leave
<1>7. QED
  BY <1>1, <1>2, <1>3, <1>4, <1>5, <1>6 DEF Authenticate

\* A first report leaves one entry.
LEMMA FirstReport ==
  ASSUME NEW r \in Requests, requests[r] \in Request
  PROVE  /\ SendUsage(r) \in Seq(GateTokens \cup {NoToken})
         /\ requests[r].charged = <<>> => SendUsage(r) = <<requests[r].gate>>
<1> DEFINE S == GateTokens \cup {NoToken}
<1>1. requests[r].charged \in Seq(S) /\ requests[r].gate \in S
  BY DEF Request
<1>2. SendUsage(r) \in Seq(S)
  BY <1>1 DEF SendUsage
<1>3. requests[r].charged = <<>> => SendUsage(r) = <<requests[r].gate>>
  BY <1>1 DEF SendUsage
<1>4. QED
  BY <1>2, <1>3

\* The client fails an exchange only while it sends, or by the end of its context.
LEMMA CulpritKnown ==
  ASSUME NEW r \in Requests, NEW culprit \in Culprits(r)
  PROVE  /\ culprit \in Parties
         /\ culprit # "upstream" => /\ culprit = "client"
                                    /\ ~requests[r].sent \/ requests[r].context = "done"
BY DEF Culprits, Parties

\* A round trip that fails, or the body of a JSON answer.
LEMMA TransferSound ==
  ASSUME RequestsSound, NEW r \in Requests, UNCHANGED gateTokens,
         At(r, "upstream") \/ At(r, "readBody"),
         NEW culprit \in Culprits(r), TransferFails(r, culprit)
  PROVE  RequestsSound'
<1> DEFINE q == requests[r]
           seen == q.fault \cup {culprit}
           new == [q EXCEPT !.pc = "errorHandler", !.fault = seen]
<1>q. Sound(q)
  BY DEF RequestsSound
<1>1. Becomes(r, new)
  BY DEF TransferFails
<1>2. /\ q \in Request /\ q.result = "none" /\ q.pc \in {"upstream", "readBody"}
      /\ q.answer = NoAnswer \/ q.answer = GoodJSON
      /\ q.pc = "upstream" => q.answer = NoAnswer
  BY <1>q DEF At, Sound, Course
<1>3. q.answer.type # "stream" /\ q.answer.status # "5xx"
  BY <1>2 DEF NoAnswer, GoodJSON
<1>4. q.charged = <<>>
  <2>1. NoAnswer # GoodJSON
    BY DEF NoAnswer, GoodJSON
  <2>2. QED
    BY <1>q, <1>2, <1>3, <2>1 DEF Sound, Reported
<1>5. q.failure = "none"
  BY <1>q, <1>2 DEF Sound, Blamed
<1>6. seen \in SUBSET Parties
  BY <1>2, CulpritKnown DEF Request
<1>7. "upstream" \in seen \/ ("client" \in seen /\ (~q.sent \/ q.context = "done"))
  BY CulpritKnown
<1> HIDE DEF q, seen
<1>8. new \in Request
  BY <1>2, <1>6 DEF Request
<1>9. Course(new)
  BY <1>2, <1>3 DEF Course, Request
<1>10. Reported(new)
  BY <1>2, <1>3, <1>4 DEF Reported, Request
<1>11. Blamed(new)
  BY <1>2, <1>3, <1>5, <1>7 DEF Blamed, Request
<1>12. Entitled(new)
  BY <1>q, <1>2 DEF Sound, Entitled, Request
<1>13. QED
  BY <1>1, <1>8, <1>9, <1>10, <1>11, <1>12, OneRequest DEF Sound

\* The answer, the failure reports and the body.
LEMMA ForwardSound ==
  ASSUME RequestsSound, NEW r \in Requests, UNCHANGED gateTokens,
         \/ \E a \in Answer : UpstreamAnswers(r, a)
         \/ NoAnswerComes(r) \/ ReadBody(r) \/ ReadBodyFails(r)
         \/ ModifyResponseFailure(r) \/ ErrorHandler(r)
         \/ CopyEnds(r) \/ LastWriteFails(r) \/ CopyBreaks(r)
  PROVE  RequestsSound'
<1> DEFINE q == requests[r]
<1>q. Sound(q)
  BY DEF RequestsSound
<1>1. ASSUME NEW a \in Answer, UpstreamAnswers(r, a)
      PROVE  RequestsSound'
  <2> DEFINE new == [q EXCEPT
                    !.answer = a,
                    !.fault = IF a.status = "5xx" THEN {"upstream"} ELSE @,
                    !.pc = IF a = GoodJSON THEN "readBody"
                           ELSE IF a.status = "5xx" THEN "recordFailure" ELSE "copy"]
  <2>1. Sound(new)
    <3> HIDE DEF q
    <3>1. /\ q \in Request /\ q.pc = "upstream" /\ q.result = "none" /\ q.answer = NoAnswer
          /\ q.charged = <<>> /\ q.failure = "none"
          /\ NoAnswer.type # "stream" /\ NoAnswer.status # "5xx" /\ NoAnswer # GoodJSON
      BY <1>q, <1>1, NothingYet DEF UpstreamAnswers, At, q
    <3>2. new \in Request
      <4>1. CASE a = GoodJSON
        BY <3>1, <4>1 DEF Request, GoodJSON
      <4>2. CASE a # GoodJSON /\ a.status = "5xx"
        BY <3>1, <4>2 DEF Request, Parties
      <4>3. CASE a # GoodJSON /\ a.status # "5xx"
        BY <3>1, <4>3 DEF Request
      <4>4. QED
        BY <4>1, <4>2, <4>3
    <3>3. Course(new)
      BY <3>1 DEF Course, Request, GoodJSON
    <3>4. Reported(new)
      BY <3>1 DEF Reported, Request
    <3>5. Blamed(new)
      BY <1>q, <3>1 DEF Sound, Blamed, Request, GoodJSON
    <3>6. Entitled(new)
      BY <1>q, <3>1 DEF Sound, Entitled, Request
    <3>7. QED
      BY <3>2, <3>3, <3>4, <3>5, <3>6 DEF Sound
  <2>2. QED
    BY <1>1, <2>1, OneRequest DEF UpstreamAnswers
<1>2. CASE NoAnswerComes(r)
  BY <1>2, TransferSound DEF NoAnswerComes
<1>3. CASE ReadBody(r)
  <2> DEFINE new == [q EXCEPT !.pc = "copy", !.charged = SendUsage(r)]
  <2>1. /\ q \in Request /\ q.pc = "readBody" /\ q.result = "none"
        /\ q.answer = GoodJSON /\ q.charged = <<>>
    BY <1>q, <1>3 DEF ReadBody, At, Sound, Course, Reported, GoodJSON
  <2>2. new \in Request
    BY <2>1, FirstReport DEF Request
  <2>3. Course(new)
    BY <2>1 DEF Course, Request, GoodJSON, Answer
  <2>4. Reported(new)
    BY <2>1, FirstReport DEF Reported, Request
  <2>5. Blamed(new) /\ Entitled(new)
    BY <1>q, <2>1 DEF Sound, Blamed, Entitled, Request, GoodJSON
  <2>6. QED
    BY <1>3, <2>2, <2>3, <2>4, <2>5, OneRequest DEF ReadBody, Sound
<1>4. CASE ReadBodyFails(r)
  BY <1>4, TransferSound DEF ReadBodyFails
<1>5. CASE ModifyResponseFailure(r)
  <2> DEFINE new(outcome) == [q EXCEPT !.pc = "copy", !.failure = outcome]
  <2>1. PICK outcome \in RecordFailure(r) : Becomes(r, new(outcome))
    BY <1>5 DEF ModifyResponseFailure
  <2>2. outcome \in {"counted", "lost"} /\ "upstream" \in q.fault
    BY <1>q, <1>5, <2>1 DEF ModifyResponseFailure, RecordFailure, At, Sound, Request,
      Course, Blamed, NoAnswer, GoodJSON, Answer
  <2>3. new(outcome) \in Request
    BY <1>q, <1>5, <2>2 DEF ModifyResponseFailure, NoAnswer, GoodJSON, Answer, At, Sound,
      Request, Reported, Course
  <2>4. Course(new(outcome))
    BY <1>q, <1>5, <2>2 DEF ModifyResponseFailure, NoAnswer, GoodJSON, Answer, At, Sound,
      Request, Course
  <2>5. Reported(new(outcome))
    <3>1. q \in Request /\ q.pc = "recordFailure" /\ q.result = "none" /\ q.answer.status = "5xx"
      BY <1>q, <1>5 DEF ModifyResponseFailure, At, Sound, Course
    <3>2. q.charged = <<>>
      BY <1>q, <3>1 DEF Sound, Reported
    <3>3. QED
      BY <3>1, <3>2 DEF Reported, Request, GoodJSON
  <2>6. Blamed(new(outcome))
    BY <1>q, <1>5, <2>2 DEF ModifyResponseFailure, NoAnswer, GoodJSON, Answer, At, Sound,
      Request, Course, Blamed
  <2>7. Entitled(new(outcome))
    BY <1>q, <1>5, <2>2 DEF ModifyResponseFailure, NoAnswer, GoodJSON, Answer, At, Sound,
      Request, Entitled
  <2>8. QED
    BY <2>1, <2>3, <2>4, <2>5, <2>6, <2>7, OneRequest DEF Sound
<1>6. CASE ErrorHandler(r)
  <2> DEFINE new(outcome) == [q EXCEPT !.pc = "done", !.result = "error", !.failure = outcome]
  <2>1. PICK outcome \in RecordFailure(r) : Becomes(r, new(outcome))
    BY <1>6 DEF ErrorHandler
  <2>2. /\ outcome \in {"counted", "lost"}
        /\ outcome = "counted" => "upstream" \in q.fault \/ ("client" \in q.fault /\ ~q.sent)
    BY <1>q, <1>6, <2>1 DEF ErrorHandler, RecordFailure, At, Sound, Request, Course,
      Blamed, NoAnswer, GoodJSON, Answer
  <2>3. new(outcome) \in Request
    BY <1>q, <1>6, <2>2 DEF ErrorHandler, NoAnswer, GoodJSON, Answer, At, Sound, Request,
      Reported, Course
  <2>4. Course(new(outcome))
    BY <1>q, <1>6, <2>2 DEF ErrorHandler, NoAnswer, GoodJSON, Answer, At, Sound, Request,
      Course
  <2>5. Reported(new(outcome))
    BY <1>q, <1>6, <2>2 DEF ErrorHandler, NoAnswer, GoodJSON, Answer, At, Sound, Request,
      Course, Reported
  <2>6. Blamed(new(outcome))
    BY <1>q, <1>6, <2>2 DEF ErrorHandler, NoAnswer, GoodJSON, Answer, At, Sound, Request,
      Course, Blamed
  <2>7. Entitled(new(outcome))
    BY <1>q, <1>6, <2>2 DEF ErrorHandler, NoAnswer, GoodJSON, Answer, At, Sound, Request,
      Entitled
  <2>8. QED
    BY <2>1, <2>3, <2>4, <2>5, <2>6, <2>7, OneRequest DEF Sound
<1>7. ASSUME NEW what \in {"complete", "unsent"}, At(r, "copy"), BodyEnds(r, what)
      PROVE  RequestsSound'
  <2> DEFINE charged == IF q.answer.type = "stream" THEN SendUsage(r) ELSE q.charged
             new == [q EXCEPT !.pc = "done", !.result = what, !.charged = charged]
  <2>1. /\ q \in Request /\ q.pc = "copy" /\ q.result = "none" /\ q.answer \in Answer
        /\ q.charged = IF q.answer = GoodJSON THEN <<q.gate>> ELSE <<>>
    BY <1>q, <1>7 DEF At, Sound, Course, Reported
  <2>2. charged \in Seq(GateTokens \cup {NoToken})
    BY <2>1, FirstReport DEF Request
  <2>3. charged = IF q.answer = GoodJSON \/ q.answer.type = "stream" THEN <<q.gate>> ELSE <<>>
    BY <2>1, FirstReport DEF GoodJSON
  <2> HIDE DEF charged
  <2>4. new \in Request
    BY <2>1, <2>2 DEF Request
  <2>5. Course(new) /\ Blamed(new) /\ Entitled(new)
    BY <1>q, <2>1 DEF Sound, Course, Blamed, Entitled, Request, Answer, NoAnswer
  <2>6. Reported(new)
    BY <2>1, <2>3 DEF Reported, Request
  <2>7. Becomes(r, new)
    BY <1>7 DEF BodyEnds, charged
  <2>8. QED
    BY <2>4, <2>5, <2>6, <2>7, OneRequest DEF Sound
<1>8. CASE CopyBreaks(r)
  <2>1. PICK culprit \in Parties :
          Becomes(r, [q EXCEPT !.pc = "done", !.result = "cut", !.fault = @ \cup {culprit}])
    BY <1>8 DEF CopyBreaks, Culprits, Parties
  <2> DEFINE seen == q.fault \cup {culprit}
             new == [q EXCEPT !.pc = "done", !.result = "cut", !.fault = seen]
  <2>2. /\ q \in Request /\ q.pc = "copy" /\ q.result = "none" /\ q.answer \in Answer
        /\ q.charged = IF q.answer = GoodJSON THEN <<q.gate>> ELSE <<>>
    BY <1>q, <1>8 DEF CopyBreaks, At, Sound, Course, Reported
  <2>3. seen \in SUBSET Parties /\ q.fault \subseteq seen
    BY <2>2 DEF Request
  <2>4. Becomes(r, new)
    BY <2>1
  <2> HIDE DEF seen
  <2>5. new \in Request
    BY <2>2, <2>3 DEF Request
  <2>6. Course(new) /\ Entitled(new)
    BY <1>q, <2>2 DEF Sound, Course, Entitled, Request, Answer, NoAnswer
  <2>7. Blamed(new)
    BY <1>q, <2>2, <2>3 DEF Sound, Blamed, Request
  <2>8. Reported(new)
    BY <2>2 DEF Reported, Request
  <2>9. QED
    BY <2>4, <2>5, <2>6, <2>7, <2>8, OneRequest DEF Sound
<1>9. QED
  BY <1>1, <1>2, <1>3, <1>4, <1>5, <1>6, <1>7, <1>8 DEF CopyEnds, LastWriteFails

\* A change of the table is seen by the requests that wait for their authentication.
LEMMA ChangeSound ==
  ASSUME RequestsSound, NEW a \in Admins, ChangeTokens(a)
  PROVE  RequestsSound'
<1> SUFFICES ASSUME NEW r \in Requests PROVE Sound(requests[r])'
  BY DEF ChangeTokens, RequestsSound, Sound
<1> DEFINE q == requests[r]
<1>q. Sound(q) /\ requests \in [Requests -> Request]
  BY DEF RequestsSound
<1>1. CASE At(r, "authenticate")
  <2> DEFINE seen == q.entitled \cup ActiveWith(gateTokens', q.bearer)
  <2>1. requests'[r] = [q EXCEPT !.entitled = seen]
    BY <1>1 DEF ChangeTokens
  <2>2. seen \in SUBSET GateTokens
    BY <1>q DEF Sound, Request, ActiveWith
  <2> HIDE DEF seen
  <2>3. /\ requests'[r] \in Request
        /\ Course(requests'[r]) /\ Reported(requests'[r]) /\ Blamed(requests'[r])
    <3>1. [q EXCEPT !.entitled = seen] \in Request
      BY <1>q, <2>2 DEF Sound, Request
    <3>2. Course([q EXCEPT !.entitled = seen]) /\ Blamed([q EXCEPT !.entitled = seen])
      BY <1>q DEF Sound, Request, Course, Blamed
    <3>3. Reported([q EXCEPT !.entitled = seen])
      BY <1>q DEF Sound, Request, Reported
    <3>4. QED
      BY <2>1, <3>1, <3>2, <3>3
  <2>4. Entitled(requests[r])'
    BY <1>q, <2>1, <2>2 DEF seen, Sound, Entitled, Request, ActiveWith
  <2>5. QED
    BY <2>3, <2>4 DEF Sound, Course, Reported, Blamed
<1>2. CASE ~At(r, "authenticate")
  BY <1>q, <1>2 DEF ChangeTokens, At, Sound, Course, Reported, Blamed, Entitled
<1>3. QED
  BY <1>1, <1>2

----------------------------------------------------------------------------
(* The administrators. *)

\* What the cache holds is what the history of a session entitles it to.
SessionsSound ==
  \A s \in Sessions : sessions[s] = IF LiveSession(s) THEN SessionTTL - idle[s] ELSE 0

AdminSound == /\ gateTokens \in [GateTokens -> GateToken]
              /\ adminPc \in [Admins -> {"idle", "authorize", "handle"}]
              /\ credential \in [Admins -> Credential]
              /\ sessions \in [Sessions -> 0..SessionTTL]
              /\ login \in [Sessions -> {"none", "open", "closed"}]
              /\ idle \in [Sessions -> 0..SessionTTL]
              /\ SessionsSound

LEMMA BrowseSound ==
  ASSUME AdminSound, UNCHANGED gateTokens,
         (\E s \in Sessions : Browse(s)) \/ Tick
  PROVE  AdminSound'
<1> USE SessionTTLAssumption DEF AdminSound, SessionsSound, LiveSession
<1>1. ASSUME NEW s \in Sessions, LoginSubmit(s) PROVE AdminSound'
  BY <1>1 DEF LoginSubmit
<1>2. ASSUME NEW s \in Sessions, Logout(s) PROVE AdminSound'
  BY <1>2 DEF Logout
<1>3. ASSUME NEW s \in Sessions, ViewPage(s) PROVE AdminSound'
  BY <1>3 DEF ViewPage, Get, Found
<1>4. CASE Tick
  BY <1>4 DEF Tick, Found
<1>5. QED
  BY <1>1, <1>2, <1>3, <1>4 DEF Browse

LEMMA AdministerSound ==
  ASSUME AdminSound, UNCHANGED gateTokens, NEW a \in Admins, Administer(a)
  PROVE  AdminSound'
<1> USE SessionTTLAssumption DEF AdminSound
<1>1. ASSUME NEW c \in Credential, AdminArrives(a, c) PROVE AdminSound'
  BY <1>1 DEF AdminArrives, SessionsSound, LiveSession
<1>2. CASE HandleUnchanged(a)
  BY <1>2 DEF HandleUnchanged, AdminReturns, Credential, SessionsSound, LiveSession
<1>3. CASE Authorize(a) \/ Unauthorized(a)
  <2>1. adminPc' \in [Admins -> {"idle", "authorize", "handle"}] /\ credential' \in [Admins -> Credential]
    BY <1>3 DEF Authorize, Unauthorized, AdminReturns, Credential
  <2>2. CheckCredential(credential[a])
    BY <1>3 DEF Authorize, Unauthorized
  <2>3. QED
    BY <2>1, <2>2 DEF CheckCredential, Get, Found, SessionsSound, LiveSession
<1>4. QED
  BY <1>1, <1>2, <1>3 DEF Administer

LEMMA HandlerSound == ASSUME AdminSound, NEW a \in Admins, Change(a) PROVE AdminSound'
<1>1. gateTokens' \in [GateTokens -> GateToken]
  BY DEF AdminSound, Change, ChangeGateToken, CreateGateToken, SetGateTokenActive, DeleteGateToken, GateToken
<1>2. QED
  BY <1>1 DEF AdminSound, Change, AdminReturns, Credential, SessionsSound, LiveSession

----------------------------------------------------------------------------
(* The server. *)

Inv == AdminSound /\ RequestsSound

LEMMA InvInit == Init => Inv
<1> SUFFICES ASSUME Init PROVE Inv
  OBVIOUS
<1>1. AdminSound
  BY SessionTTLAssumption
  DEF Init, AdminInit, EmptyGateTable, GateToken, Credential, AdminSound, SessionsSound, LiveSession
<1>2. RequestsSound
  BY BlankSound DEF Init, NoRequests, RequestsSound, Sound
<1>3. QED
  BY <1>1, <1>2 DEF Inv

\* Steps that leave one of the two sides alone.
LEMMA AdminIdle == AdminSound /\ UNCHANGED <<gateTokens, adminVars>> => AdminSound'
BY DEF adminVars, AdminSound, SessionsSound, LiveSession

LEMMA RequestsIdle == RequestsSound /\ UNCHANGED <<gateTokens, requests>> => RequestsSound'
BY DEF RequestsSound, Sound, Course, Reported, Blamed, Entitled, ActiveWith

LEMMA InvNext == Inv /\ [Next]_vars => Inv'
<1> SUFFICES ASSUME Inv, [Next]_vars PROVE Inv'
  OBVIOUS
<1> USE DEF Inv
<1>1. ASSUME NEW r \in Requests, ServeHTTP(r), UNCHANGED <<gateTokens, adminVars>> PROVE Inv'
  BY <1>1, ConnectionSound, EntrySound, ForwardSound, AdminIdle DEF ServeHTTP, Proceed
<1>2. ASSUME NEW a \in Admins, ChangeTokens(a) PROVE Inv'
  BY <1>2, ChangeSound, HandlerSound DEF ChangeTokens
<1>3. ASSUME (\E a \in Admins : Administer(a)) \/ (\E s \in Sessions : Browse(s)) \/ Tick,
             UNCHANGED <<gateTokens, requests>>
      PROVE  Inv'
  BY <1>3, AdministerSound, BrowseSound, RequestsIdle
<1>4. CASE Restart
  <2>1. AdminSound'
    BY <1>4, SessionTTLAssumption DEF Restart, AdminRestart, Credential, AdminSound, SessionsSound, LiveSession
  <2>2. RequestsSound'
    <3>1. \A x : Sound(x) => Sound(x)'
      BY <1>4 DEF Restart, Sound, Course, Reported, Blamed, Entitled, ActiveWith
    <3>2. QED
      BY <1>4, <3>1, BlankSound DEF Restart, NoRequests, RequestsSound, Sound
  <2>3. QED
    BY <2>1, <2>2
<1>5. CASE UNCHANGED vars
  BY <1>5, AdminIdle, RequestsIdle DEF vars
<1>6. QED
  BY <1>1, <1>2, <1>3, <1>4, <1>5 DEF Next

LEMMA Invariance == Spec => []Inv
BY InvInit, InvNext, PTL DEF Spec

\* Every variable of the composed server keeps its type.
THEOREM TypeCorrect == Spec => []TypeOK
<1>1. Inv => TypeOK
  BY DEF Inv, AdminSound, RequestsSound, TypeOK
<1>2. QED
  BY <1>1, Invariance, PTL

\* A request acts only for a gate token that was active under its string at some time
\* since it arrived, whatever administrators do between the statements of ServeHTTP.
THEOREM RevocationIsHeld == Spec => []RevocationHolds
<1>1. Inv => RevocationHolds
  BY DEF Inv, RequestsSound, Sound, Entitled, RevocationHolds
<1>2. QED
  BY <1>1, Invariance, PTL

\* Usage is reported once, for the right token, and before a complete answer ends.
THEOREM UsageIsAccounted == Spec => []Accounted
<1>1. ASSUME NEW q, Sound(q)
      PROVE  /\ q.charged # <<>> => q.charged = <<q.gate>> /\ Counts(q.answer)
             /\ q.result \in {"complete", "unsent"} => (q.charged # <<>> <=> Counts(q.answer))
             /\ q.result = "refused" \/ (q.result = "cut" /\ q.answer.type = "stream") => q.charged = <<>>
  <2>1. q.charged # <<>> => q.charged = <<q.gate>> /\ Counts(q.answer)
    BY <1>1 DEF Sound, Reported, Counts
  <2>2. q.result \in {"complete", "unsent"} => (q.charged # <<>> <=> Counts(q.answer))
    BY <1>1 DEF Sound, Reported, Counts
  <2>3. q.result = "refused" => q.charged = <<>>
    BY <1>1 DEF Sound, Request, Course, Reported, NoAnswer, GoodJSON
  <2>4. q.result = "cut" /\ q.answer.type = "stream" => q.charged = <<>>
    BY <1>1 DEF Sound, Request, Reported, GoodJSON
  <2>5. QED
    BY <2>1, <2>2, <2>3, <2>4
<1>2. Inv => Accounted
  BY <1>1 DEF Inv, RequestsSound, Accounted
<1>3. QED
  BY <1>2, Invariance, PTL

\* A failure is reported once, for a 5xx answer and from ErrorHandler only, and what is
\* counted is upstream's doing, or the client's while its request was being sent.
THEOREM FailuresAreDeserved == Spec => []FailuresDeserved
<1>1. ASSUME NEW q, Sound(q), q.result # "none"
      PROVE  q.failure # "none" <=> q.result = "error" \/ q.answer.status = "5xx"
  <2>1. /\ q \in Request /\ q.pc = "done"
        /\ q.result = "refused" => q.answer.status = "none"
    BY <1>1 DEF Sound, Course, NoAnswer
  <2>2. QED
    BY <1>1, <2>1 DEF Sound, Request, Blamed
<1>2. Inv => FailuresDeserved
  BY <1>1 DEF Inv, RequestsSound, Sound, Blamed, FailuresDeserved
<1>3. QED
  BY <1>2, Invariance, PTL

\* AdminAuth lets through exactly the secret and the sessions that are alive.
THEOREM SessionsAreHonoured == Spec => SessionsHonoured
<1> DEFINE Granted(a) ==
      adminPc'[a] = "handle" <=> \/ credential[a] = "secret"
                                 \/ credential[a] \in Sessions /\ LiveSession(credential[a])
<1>1. ASSUME Inv, NEW a \in Admins, Authorize(a) \/ Unauthorized(a) PROVE Granted(a)
  <2>1. adminPc'[a] = "handle" <=> Good(credential[a])
    BY <1>1 DEF Inv, AdminSound, Authorize, Unauthorized, AdminReturns
  <2>2. \A s \in Sessions : Found(s) <=> LiveSession(s)
    BY <1>1, SessionTTLAssumption DEF Inv, AdminSound, SessionsSound, LiveSession, Found
  <2>3. QED
    BY <2>1, <2>2 DEF Good
<1>2. Inv => [\A a \in Admins : Authorize(a) \/ Unauthorized(a) => Granted(a)]_vars
  BY <1>1
<1>3. QED
  BY <1>2, Invariance, PTL DEF SessionsHonoured
=============================================================================
