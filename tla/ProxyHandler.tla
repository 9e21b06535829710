---------------------------- MODULE ProxyHandler ----------------------------
(***************************************************************************)
(* internal/proxy/proxy.go: one proxied request from its arrival to its    *)
(* end.  ServeHTTP authenticates the client and resolves a real token;     *)
(* httputil.ReverseProxy forwards the request, calls ModifyResponse when   *)
(* upstream has answered and ErrorHandler when it has not, and copies the  *)
(* body.  Which real token a request gets, what RecordFailure does and     *)
(* what becomes of a report are the matter of TokenRouting, TokenPool and  *)
(* UsagePipeline; here it matters when, how often and for whom they are    *)
(* called.                                                                 *)
(***************************************************************************)
EXTENDS GateTokenStore, Sequences

CONSTANTS Requests,  \* goroutines serving proxied requests
          Faults     \* "database": statements fail; "crash": the process is restarted

ASSUME FaultsAssumption == Faults \subseteq {"database", "crash"}

Answer == [type : {"stream", "json", "other"}, status : {"2xx", "4xx", "5xx"}]
NoAnswer == [type |-> "none", status |-> "none"]
GoodJSON == [type |-> "json", status |-> "2xx"]

Parties == {"upstream", "client"}   \* those a failed exchange can be due to

VARIABLE requests      \* the requests in progress

Request == [
  pc       : {"idle", "authenticate", "resolve", "upstream", "readBody", "recordFailure",
              "copy", "errorHandler", "done"},
  bearer   : Bearers \cup {NoToken},      \* the string the client presented
  gate     : GateTokens \cup {NoToken},   \* the gate token it was authenticated as
  client   : {"here", "left"},
  context  : {"open", "done"},            \* the request's context, r.Context()
  sent     : BOOLEAN,                     \* the request has been read and sent on to its end
  answer   : Answer \cup {NoAnswer},      \* what upstream answered
  result   : {"none", "refused", "error", "complete", "unsent", "cut"},  \* what the client got
  charged  : Seq(GateTokens \cup {NoToken}),    \* history: whose usage was reported
  failure  : {"none", "counted", "lost", "twice"},  \* history: calls of RecordFailure
  fault    : SUBSET Parties,              \* history: who has failed the exchange
  entitled : SUBSET GateTokens]           \* history: the tokens that were active under the
                                          \* client's string since the request arrived

Blank == [pc |-> "idle", bearer |-> NoToken, gate |-> NoToken, client |-> "here",
          context |-> "open", sent |-> FALSE, answer |-> NoAnswer, result |-> "none",
          charged |-> <<>>, failure |-> "none", fault |-> {}, entitled |-> {}]

NoRequests == [r \in Requests |-> Blank]

At(r, label) == requests[r].pc = label

Becomes(r, q) == requests' = [requests EXCEPT ![r] = q]

Goto(r, label) == Becomes(r, [requests[r] EXCEPT !.pc = label])

\* The handler returns: the client gets the end of its answer.
Return(r, what) == Becomes(r, [requests[r] EXCEPT !.pc = "done", !.result = what])

\* A request with a bearer token; NoToken stands for a missing or malformed header.
Arrive(r, token) ==
  /\ At(r, "idle")
  /\ Becomes(r, [Blank EXCEPT !.pc = "authenticate", !.bearer = token,
                             !.entitled = ActiveWith(gateTokens, token)])

Running(r) == requests[r].pc \notin {"idle", "done"}

Forwarding(r) == requests[r].pc \in {"upstream", "readBody", "recordFailure", "copy"}

\* The client closes its connection; nobody has noticed yet.
ClientLeaves(r) == /\ Running(r)
                   /\ Becomes(r, [requests[r] EXCEPT !.client = "left"])

\* The request has been read to its end, with its body if it has one, and sent on;
\* upstream may have answered before.
RequestSent(r) == /\ Forwarding(r)
                  /\ Becomes(r, [requests[r] EXCEPT !.sent = TRUE])

\* net/http ends the context when it sees that the client has left, or when the rest
\* of the request does not come within ReadTimeout.
ContextEnds(r) == /\ Running(r)
                  /\ requests[r].client = "left" \/ (Forwarding(r) /\ ~requests[r].sent)
                  /\ Becomes(r, [requests[r] EXCEPT !.context = "done"])

----------------------------------------------------------------------------
(* ServeHTTP. *)

\* A statement on the request's context fails.
StatementFails(r) == requests[r].context = "done" \/ "database" \in Faults

\* Mutant: is_active is not looked at.
AuthenticateInactive(r) ==
  /\ At(r, "authenticate")
  /\ \E g \in GateTokens :
       /\ HasGateRow(g) /\ gateTokens[g].token = requests[r].bearer
       /\ Becomes(r, [requests[r] EXCEPT !.pc = "resolve", !.gate = g])

Authenticate(r) ==
  /\ At(r, "authenticate")
  /\ \E g \in ActiveWith(gateTokens, requests[r].bearer) :
       Becomes(r, [requests[r] EXCEPT !.pc = "resolve", !.gate = g])

Refuse(r) == /\ At(r, "authenticate")
             /\ ActiveWith(gateTokens, requests[r].bearer) = {} \/ StatementFails(r)
             /\ Return(r, "refused")

\* Any real token of the pool.
ResolveToken(r) == At(r, "resolve") /\ Goto(r, "upstream")

\* The pool is empty.
ResolveFails(r) == At(r, "resolve") /\ Return(r, "refused")

----------------------------------------------------------------------------
(* ReverseProxy with ModifyResponse and ErrorHandler. *)

\* Mutant: the usage goes to whoever the client's string belongs to by now.
SendUsageLate(r) ==
  Append(requests[r].charged,
         IF ActiveWith(gateTokens, requests[r].bearer) = {} THEN NoToken
         ELSE CHOOSE g \in ActiveWith(gateTokens, requests[r].bearer) : TRUE)

\* A report names the gate token the request was authenticated as.
SendUsage(r) == Append(requests[r].charged, requests[r].gate)

\* Mutant: RecordFailure on a context of its own.
RecordFailureDetached(r) == {"counted"}

\* What RecordFailure on the request's context can do; a second call would show.
RecordFailure(r) ==
  IF requests[r].failure # "none" THEN {"twice"}
  ELSE {outcome \in {"counted", "lost"} : /\ outcome = "counted" => requests[r].context = "open"
                                          /\ outcome = "lost" => StatementFails(r)}

\* Who can make a round trip fail, or the body of its answer: upstream; the client, as
\* long as its request is being sent (an upload that stops or is malformed, an Upgrade
\* that ReverseProxy does not pass on), or through the end of the context.
Culprits(r) == {"upstream"} \cup
               {c \in {"client"} : ~requests[r].sent \/ requests[r].context = "done"}

\* Answers that have usage.
Counts(a) == a.type = "stream" \/ a = GoodJSON

UpstreamAnswers(r, a) ==
  /\ At(r, "upstream")
  /\ Becomes(r, [requests[r] EXCEPT
                  !.answer = a,
                  !.fault = IF a.status = "5xx" THEN {"upstream"} ELSE @,
                  !.pc = IF a = GoodJSON THEN "readBody"
                         ELSE IF a.status = "5xx" THEN "recordFailure" ELSE "copy"])

TransferFails(r, culprit) ==
  Becomes(r, [requests[r] EXCEPT !.pc = "errorHandler", !.fault = @ \cup {culprit}])

\* Mutant: the upstream request is not bound to the client's context.
NoAnswerComesUnbound(r) ==
  /\ At(r, "upstream")
  /\ requests[r].context = "open"
  /\ \E culprit \in Culprits(r) : TransferFails(r, culprit)

NoAnswerComes(r) ==
  /\ At(r, "upstream")
  /\ \E culprit \in Culprits(r) : TransferFails(r, culprit)

ReadBody(r) ==
  /\ At(r, "readBody")
  /\ Becomes(r, [requests[r] EXCEPT !.pc = "copy", !.charged = SendUsage(r)])

ReadBodyFails(r) ==
  /\ At(r, "readBody")
  /\ \E culprit \in Culprits(r) : TransferFails(r, culprit)

ModifyResponseFailure(r) ==
  /\ At(r, "recordFailure")
  /\ \E outcome \in RecordFailure(r) :
       Becomes(r, [requests[r] EXCEPT !.pc = "copy", !.failure = outcome])

ErrorHandler(r) ==
  /\ At(r, "errorHandler")
  /\ \E outcome \in RecordFailure(r) :
       Becomes(r, [requests[r] EXCEPT !.pc = "done", !.result = "error", !.failure = outcome])

\* The body has been read to its end; the tap of a stream reports at that point.
BodyEnds(r, what) ==
  Becomes(r, [requests[r] EXCEPT
                !.pc = "done", !.result = what,
                !.charged = IF requests[r].answer.type = "stream" THEN SendUsage(r) ELSE @])

CopyEnds(r) == At(r, "copy") /\ BodyEnds(r, "complete")

\* What came with the end of the body cannot be written any more.
LastWriteFails(r) == At(r, "copy") /\ BodyEnds(r, "unsent")

\* The body ends early, or cannot be written before its end because the client has
\* left: ReverseProxy aborts the handler, and neither ModifyResponse nor ErrorHandler
\* learns of it.
CopyBreaks(r) ==
  /\ At(r, "copy")
  /\ \E culprit \in Culprits(r) \cup {c \in {"client"} : requests[r].client = "left"} :
       Becomes(r, [requests[r] EXCEPT !.pc = "done", !.result = "cut", !.fault = @ \cup {culprit}])

\* The goroutine and its variables are gone.
Leave(r) == /\ At(r, "done")
            /\ Becomes(r, Blank)

----------------------------------------------------------------------------
Proceed(r) == \/ Authenticate(r) \/ Refuse(r)
              \/ ResolveToken(r) \/ ResolveFails(r)
              \/ NoAnswerComes(r)
              \/ ReadBody(r) \/ ReadBodyFails(r)
              \/ ModifyResponseFailure(r) \/ ErrorHandler(r)
              \/ CopyEnds(r) \/ LastWriteFails(r) \/ CopyBreaks(r)
              \/ Leave(r)

ServeHTTP(r) == \/ \E token \in Bearers \cup {NoToken} : Arrive(r, token)
                \/ ClientLeaves(r) \/ RequestSent(r) \/ ContextEnds(r)
                \/ \E a \in Answer : UpstreamAnswers(r, a)
                \/ Proceed(r)

\* Steps that wait neither for upstream nor for the client: the end of the context
\* wakes those that did.
Unblocked(r) == \/ requests[r].context = "done"
                \/ requests[r].pc \notin {"upstream", "readBody", "copy"}

\* Once the request has been read to its end, net/http reads on to see the client leave.
\* Before that only who reads the body sees it, which upstream can hold up.
Watched(r) == requests[r].client = "left" /\ requests[r].sent
=============================================================================
