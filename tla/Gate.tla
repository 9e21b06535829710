-------------------------------- MODULE Gate --------------------------------
(***************************************************************************)
(* The server as its clients see it: proxied requests (ProxyHandler) and   *)
(* administration (AdminPlane) on one gate_tokens table, as main.go puts   *)
(* them on one mux.                                                        *)
(***************************************************************************)
EXTENDS ProxyHandler, AdminPlane

vars == <<gateTokens, requests, adminVars>>

Init == gateTokens = EmptyGateTable /\ requests = NoRequests /\ AdminInit

\* The history of the requests that wait for their authentication sees the change.
ChangeTokens(a) ==
  /\ Change(a)
  /\ requests' = [r \in Requests |->
                    IF At(r, "authenticate")
                    THEN [requests[r] EXCEPT !.entitled = @ \cup ActiveWith(gateTokens', requests[r].bearer)]
                    ELSE requests[r]]

Administer(a) == \/ \E c \in Credential : AdminArrives(a, c)
                 \/ Authorize(a)
                 \/ Unauthorized(a)
                 \/ HandleUnchanged(a)

Browse(s) == LoginSubmit(s) \/ Logout(s) \/ ViewPage(s)

\* The table survives, everything else is lost.
Restart == /\ "crash" \in Faults
           /\ requests' = NoRequests
           /\ AdminRestart
           /\ UNCHANGED gateTokens

Next == \/ /\ \E r \in Requests : ServeHTTP(r)
           /\ UNCHANGED <<gateTokens, adminVars>>
        \/ \E a \in Admins : ChangeTokens(a)
        \/ /\ (\E a \in Admins : Administer(a)) \/ (\E s \in Sessions : Browse(s)) \/ Tick
           /\ UNCHANGED <<gateTokens, requests>>
        \/ Restart

Spec == Init /\ [][Next]_vars

\* A goroutine that can run does, and a client that leaves while it is watched is
\* noticed; upstream and a client that is there may do nothing.
Fairness ==
  \A r \in Requests :
    /\ WF_vars(Unblocked(r) /\ Proceed(r) /\ UNCHANGED <<gateTokens, adminVars>>)
    /\ WF_vars(Watched(r) /\ ContextEnds(r) /\ UNCHANGED <<gateTokens, adminVars>>)

FairSpec == Spec /\ Fairness

----------------------------------------------------------------------------
(* Properties. *)

\* Every variable has its type.
TypeOK ==
  /\ gateTokens \in [GateTokens -> GateToken]
  /\ requests \in [Requests -> Request]
  /\ sessions \in [Sessions -> 0..SessionTTL]
  /\ adminPc \in [Admins -> {"idle", "authorize", "handle"}]
  /\ credential \in [Admins -> Credential]
  /\ login \in [Sessions -> {"none", "open", "closed"}]
  /\ idle \in [Sessions -> 0..SessionTTL]

\* A request acts as a gate token only if that token was active under the string
\* the client presented at some time since the request arrived: a token that was
\* deactivated or deleted before, or whose string belongs to another token by now,
\* is not charged (proxy.go:55-68, store/gate_token.go:68-74 and 115-138).
RevocationHolds ==
  \A r \in Requests : requests[r].gate # NoToken => requests[r].gate \in requests[r].entitled

\* Usage is reported once, for the token the request was authenticated as, whatever
\* administrators do meanwhile; never for a refused request or a stream that was cut
\* short; and always when an answer that has usage was read to its end, before the
\* client has that end (proxy.go:86-103, tap.go:35-45).
Accounted ==
  \A r \in Requests :
    LET q == requests[r] IN
    /\ q.charged # <<>> => q.charged = <<q.gate>> /\ Counts(q.answer)
    /\ q.result \in {"complete", "unsent"} => (q.charged # <<>> <=> Counts(q.answer))
    /\ q.result = "refused" \/ (q.result = "cut" /\ q.answer.type = "stream") => q.charged = <<>>

\* A request reports a failure of its real token at most once: if upstream answers 5xx
\* or ErrorHandler runs, and not otherwise, so that a body upstream breaks off while it
\* is copied is not reported. What is counted is a failure of upstream, or one the
\* client has caused while its request was still being sent, which ErrorHandler does not
\* tell apart; once the request has been sent, a client that leaves does not count against
\* the token, although its request ends in ErrorHandler as well (proxy.go:93-119,
\* manager.go:102-106).
FailuresDeserved ==
  \A r \in Requests :
    LET q == requests[r] IN
    /\ q.failure # "twice"
    /\ q.failure = "counted" => "upstream" \in q.fault \/ ("client" \in q.fault /\ ~q.sent)
    /\ q.result # "none" => (q.failure # "none" <=> q.result = "error" \/ q.answer.status = "5xx")

\* A session by its history alone.
LiveSession(s) == login[s] = "open" /\ idle[s] < SessionTTL

\* An admin request is let through if and only if it carries the secret or a session
\* that was opened since the last start, has not been logged out and was last used
\* less than SessionTTL ago; using it keeps it alive (middleware.go:13-35,
\* web/handler.go:64-71 and 122-154).
SessionsHonoured ==
  [][\A a \in Admins :
       Authorize(a) \/ Unauthorized(a) =>
         (adminPc'[a] = "handle" <=> \/ credential[a] = "secret"
                                     \/ credential[a] \in Sessions /\ LiveSession(credential[a]))]_vars

\* A handler whose client leaves after its request was sent, or has left when it is,
\* comes to its end, even if upstream never answers: nothing else limits the time of an
\* answer (proxy.go:78-122, main.go:78-84).
LeavingEnds ==
  \A r \in Requests : requests[r].client = "left" /\ requests[r].sent ~> At(r, "idle")
=============================================================================
