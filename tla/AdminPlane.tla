----------------------------- MODULE AdminPlane -----------------------------
(***************************************************************************)
(* internal/admin/{middleware,handler}.go and web/handler.go: who may      *)
(* administer, and what an admin request does to the gate tokens.          *)
(* An admin request is let through by AdminAuth with the secret or with a  *)
(* live session; a page of the web UI by requireAuth with a live session   *)
(* only.  Sessions are kept in memory by the ttlcache library, whose Get   *)
(* extends the life of what it finds.  The handlers of the real tokens do  *)
(* the same to real_tokens and are part of TokenPool.                      *)
(***************************************************************************)
EXTENDS GateTokenStore

CONSTANTS Admins,      \* goroutines serving requests under /admin
          Sessions,    \* values generateSessionToken() can return
          SessionTTL   \* sessionTTL, in clock ticks

ASSUME SessionTTLAssumption == SessionTTL \in Nat \ {0}

\* What a request to the admin API carries; browsers send the cookie of their session.
Credential == {"secret", "nothing"} \cup Sessions
ASSUME CredentialAssumption == {"secret", "nothing"} \cap Sessions = {}

VARIABLES
  sessions,    \* Handler.sessions: ticks until expiry, 0 when not in the cache
  adminPc,     \* where each admin request is
  credential,  \* what it carries
  login,       \* history: "none", "open", or "closed" by a logout or a restart
  idle         \* history: ticks since a session was opened or last found

adminVars == <<sessions, adminPc, credential, login, idle>>

AdminInit == /\ sessions = [s \in Sessions |-> 0]
             /\ adminPc = [a \in Admins |-> "idle"]
             /\ credential = [a \in Admins |-> "nothing"]
             /\ login = [s \in Sessions |-> "none"]
             /\ idle = [s \in Sessions |-> 0]

----------------------------------------------------------------------------
(* Sessions. *)

\* The secret has been given; a new random value enters the cache.
LoginSubmit(s) == /\ login[s] = "none"
                  /\ sessions' = [sessions EXCEPT ![s] = SessionTTL]
                  /\ login' = [login EXCEPT ![s] = "open"]
                  /\ idle' = [idle EXCEPT ![s] = 0]
                  /\ UNCHANGED <<adminPc, credential>>

\* Mutant: the cookie is cleared, the session is not.
LogoutCookieOnly(s) == /\ login[s] = "open"
                       /\ login' = [login EXCEPT ![s] = "closed"]
                       /\ UNCHANGED <<sessions, adminPc, credential, idle>>

Logout(s) == /\ login[s] = "open"
             /\ sessions' = [sessions EXCEPT ![s] = 0]
             /\ login' = [login EXCEPT ![s] = "closed"]
             /\ UNCHANGED <<adminPc, credential, idle>>

Found(s) == sessions[s] > 0

\* Mutant: the time to live is added to what is left.
GetExtending(s) == /\ sessions' = [sessions EXCEPT ![s] = IF Found(s) THEN @ + SessionTTL ELSE 0]
                   /\ idle' = [idle EXCEPT ![s] = IF Found(s) THEN 0 ELSE @]
                   /\ UNCHANGED login

\* sessions.Get: a session that is there starts over.
Get(s) == /\ sessions' = [sessions EXCEPT ![s] = IF Found(s) THEN SessionTTL ELSE 0]
          /\ idle' = [idle EXCEPT ![s] = IF Found(s) THEN 0 ELSE @]
          /\ UNCHANGED login

\* requireAuth in front of the dashboard and the two lists, or of a redirection.
ViewPage(s) == /\ login[s] # "none"
               /\ Get(s)
               /\ UNCHANGED <<adminPc, credential>>

Tick == /\ \E s \in Sessions : Found(s) \/ idle[s] < SessionTTL
        /\ sessions' = [s \in Sessions |-> IF Found(s) THEN sessions[s] - 1 ELSE 0]
        /\ idle' = [s \in Sessions |-> IF idle[s] < SessionTTL THEN idle[s] + 1 ELSE SessionTTL]
        /\ UNCHANGED <<adminPc, credential, login>>

\* The cache is lost, and so are the requests.
AdminRestart == /\ sessions' = [s \in Sessions |-> 0]
                /\ adminPc' = [a \in Admins |-> "idle"]
                /\ credential' = [a \in Admins |-> "nothing"]
                /\ login' = [s \in Sessions |-> IF login[s] = "open" THEN "closed" ELSE login[s]]
                /\ UNCHANGED idle

----------------------------------------------------------------------------
(* Requests to the admin API. *)

\* A cookie names a session that has been opened.
AdminArrives(a, c) == /\ adminPc[a] = "idle"
                      /\ c \in Sessions => login[c] # "none"
                      /\ adminPc' = [adminPc EXCEPT ![a] = "authorize"]
                      /\ credential' = [credential EXCEPT ![a] = c]
                      /\ UNCHANGED <<sessions, login, idle>>

CheckCredential(c) == IF c \in Sessions THEN Get(c) ELSE UNCHANGED <<sessions, login, idle>>
Good(c) == c = "secret" \/ (c \in Sessions /\ Found(c))

AdminReturns(a) == /\ adminPc' = [adminPc EXCEPT ![a] = "idle"]
                   /\ credential' = [credential EXCEPT ![a] = "nothing"]

Authorize(a) == /\ adminPc[a] = "authorize"
                /\ Good(credential[a])
                /\ CheckCredential(credential[a])
                /\ adminPc' = [adminPc EXCEPT ![a] = "handle"]
                /\ UNCHANGED credential

Unauthorized(a) == /\ adminPc[a] = "authorize"
                   /\ ~Good(credential[a])
                   /\ CheckCredential(credential[a])
                   /\ AdminReturns(a)

\* The statement of a handler that changes a row: a new token, chosen by the
\* administrator or generated; activation; deletion.
ChangeGateToken(g) == \/ \E token \in Bearers : CreateGateToken(g, token)
                      \/ \E active \in BOOLEAN : SetGateTokenActive(g, active)
                      \/ DeleteGateToken(g)

Change(a) == /\ adminPc[a] = "handle"
             /\ \E g \in GateTokens : ChangeGateToken(g)
             /\ AdminReturns(a)
             /\ UNCHANGED <<sessions, login, idle>>

\* A list, a new name, a query of the usage; a body that is not valid, an id that
\* is not there, a string that is taken, a statement that fails.
HandleUnchanged(a) == /\ adminPc[a] = "handle"
                      /\ AdminReturns(a)
                      /\ UNCHANGED <<sessions, login, idle>>
=============================================================================
