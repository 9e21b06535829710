----------------------------- MODULE TokenPool -----------------------------
(***************************************************************************)
(* internal/token/pool.go and manager.go: the in-memory pool of usable     *)
(* upstream tokens, and how failures and administrators keep it up to date *)
(* with the real_tokens table.                                             *)
(*                                                                         *)
(* Several goroutines share the table and the pool:                        *)
(*  - a proxied request takes a token from the pool, and when upstream     *)
(*    fails it runs RecordFailure: one statement after the other, then     *)
(*    RefreshPool;                                                         *)
(*  - an administrator's handler writes a row, then calls RefreshPool;     *)
(*  - RefreshPool re-arms one 100 ms timer, whose callback reads the table *)
(*    and afterwards installs what it read.                                *)
(* Which member of the pool a request gets (sticky session, round robin)   *)
(* is left open here: every member is possible.                            *)
(***************************************************************************)
EXTENDS RealTokenStore

CONSTANTS Requests,    \* goroutines serving proxied requests
          Admins,      \* goroutines serving admin requests
          Refreshers,  \* timer callbacks that can be running at a time
          NoToken,     \* a request that holds no token
          Debounce,    \* poolRefreshDebounce, in clock ticks
          Faults       \* which faults happen

ASSUME NoTokenAssumption == NoToken \notin RealTokens
ASSUME DebounceAssumption == Debounce \in Nat \ {0}

\* "cancel": a request's context ends (the client leaves) or its statement fails;
\* "refresh": the pool's query fails; "crash": the process dies and is restarted.
ASSUME FaultsAssumption == Faults \subseteq {"cancel", "refresh", "crash"}

VARIABLES
  realTokens,    \* the real_tokens table
  tokens,        \* TokenPool.tokens
  refreshTimer,  \* Manager.refreshTimer: ticks left, 0 when not running
  refreshPc,     \* where each timer callback is; "failed": it ended in an error
  snapshot,      \* the rows a callback read and has not installed yet
  pc,            \* where each proxied request is
  using,         \* the real token a request was given
  adminPc,       \* "notify": the row is written, onPoolChanged is still to be called
  interrupted,   \* history: tokens at the threshold whose report was cut short
  overtaken      \* history: requests whose token was activated after they had checked its count

pool == <<tokens, refreshTimer, refreshPc, snapshot>>
vars == <<realTokens, pool, pc, using, adminPc, interrupted, overtaken>>

AtThreshold(t) == /\ HasRow(realTokens, t)
                  /\ realTokens[t].is_active
                  /\ realTokens[t].failure_count >= MaxFailures

\* A request that counted a failure of t and has yet to act on the count.
Reporting(t) == \E r \in Requests : using[r] = t /\ pc[r] \in {"check", "deactivate"}

Idle == [r \in Requests |-> "idle"]
Nothing == [r \in Requests |-> NoToken]

Init == /\ realTokens = EmptyTable
        /\ tokens = ListActiveRealTokens(EmptyTable)
        /\ refreshTimer = 0
        /\ refreshPc = [s \in Refreshers |-> "idle"]
        /\ snapshot = [s \in Refreshers |-> {}]
        /\ pc = Idle
        /\ using = Nothing
        /\ adminPc = [a \in Admins |-> "idle"]
        /\ interrupted = {}
        /\ overtaken = {}

\* The table survives; Start reads it before the server accepts a request.
Restart == /\ "crash" \in Faults
           /\ tokens' = ListActiveRealTokens(realTokens)
           /\ refreshTimer' = 0
           /\ refreshPc' = [s \in Refreshers |-> "idle"]
           /\ snapshot' = [s \in Refreshers |-> {}]
           /\ pc' = Idle
           /\ using' = Nothing
           /\ adminPc' = [a \in Admins |-> "idle"]
           /\ interrupted' = interrupted \cup {t \in RealTokens : AtThreshold(t) /\ Reporting(t)}
           /\ overtaken' = {}
           /\ UNCHANGED realTokens

----------------------------------------------------------------------------
(* The debounced refresh. *)

\* Mutants: the timer's remaining time adds up; the timer is stopped, never re-armed.
RefreshPoolExtending == refreshTimer' = refreshTimer + Debounce
RefreshPoolStopping == refreshTimer' = IF refreshTimer > 0 THEN 0 ELSE Debounce

\* Stop the running timer if there is one, start a new one.
RefreshPool == refreshTimer' = Debounce

Tick == /\ refreshTimer > 1
        /\ refreshTimer' = refreshTimer - 1
        /\ UNCHANGED <<realTokens, tokens, refreshPc, snapshot, pc, using, adminPc, interrupted,
                       overtaken>>

TimerFires(s) == /\ refreshTimer = 1
                 /\ refreshPc[s] \in {"idle", "failed"}
                 /\ refreshTimer' = 0
                 /\ refreshPc' = [refreshPc EXCEPT ![s] = "list"]
                 /\ UNCHANGED <<realTokens, tokens, snapshot, pc, using, adminPc, interrupted,
                                overtaken>>

ListTokens(s) == /\ refreshPc[s] = "list"
                 /\ refreshPc' = [refreshPc EXCEPT ![s] = "swap"]
                 /\ snapshot' = [snapshot EXCEPT ![s] = ListActiveRealTokens(realTokens)]
                 /\ UNCHANGED <<realTokens, tokens, refreshTimer, pc, using, adminPc, interrupted,
                                overtaken>>

\* The error is logged; nothing retries.
RefreshError(s) == /\ "refresh" \in Faults
                   /\ refreshPc[s] = "list"
                   /\ refreshPc' = [refreshPc EXCEPT ![s] = "failed"]
                   /\ UNCHANGED <<realTokens, tokens, refreshTimer, snapshot, pc, using, adminPc,
                                  interrupted, overtaken>>

SwapPool(s) == /\ refreshPc[s] = "swap"
               /\ tokens' = snapshot[s]
               /\ refreshPc' = [refreshPc EXCEPT ![s] = "idle"]
               /\ snapshot' = [snapshot EXCEPT ![s] = {}]
               /\ UNCHANGED <<realTokens, refreshTimer, pc, using, adminPc, interrupted,
                              overtaken>>

----------------------------------------------------------------------------
(* A proxied request. *)

Goto(r, label) == /\ pc' = [pc EXCEPT ![r] = label]
                  /\ overtaken' = overtaken \ {r}
                  /\ UNCHANGED using

Finish(r) == /\ pc' = [pc EXCEPT ![r] = "idle"]
             /\ using' = [using EXCEPT ![r] = NoToken]
             /\ overtaken' = overtaken \ {r}

ResolveToken(r) == /\ pc[r] = "idle"
                   /\ \E t \in tokens : using' = [using EXCEPT ![r] = t]
                   /\ pc' = [pc EXCEPT ![r] = "upstream"]
                   /\ UNCHANGED <<realTokens, pool, adminPc, interrupted, overtaken>>

UpstreamAnswers(r) == /\ pc[r] = "upstream"
                      /\ Finish(r)
                      /\ UNCHANGED <<realTokens, pool, adminPc, interrupted>>

\* A 5xx answer, or no answer at all.
UpstreamFails(r) == /\ pc[r] = "upstream"
                    /\ Goto(r, "increment")
                    /\ UNCHANGED <<realTokens, pool, adminPc, interrupted>>

IncrementFailure(r) == /\ pc[r] = "increment"
                       /\ realTokens' = IncrementRealTokenFailure(realTokens, using[r])
                       /\ Goto(r, "check")
                       /\ UNCHANGED <<pool, adminPc, interrupted>>

\* Mutant: the last failure allowed is one too many.
CheckFailuresOffByOne(r) ==
  /\ pc[r] = "check"
  /\ HasRow(realTokens, using[r])
  /\ Goto(r, IF realTokens[using[r]].failure_count > MaxFailures THEN "deactivate" ELSE "refresh")
  /\ UNCHANGED <<realTokens, pool, adminPc, interrupted>>

\* Mutant: deactivates one failure early.
CheckFailuresEarly(r) ==
  /\ pc[r] = "check"
  /\ HasRow(realTokens, using[r])
  /\ Goto(r, IF realTokens[using[r]].failure_count + 1 >= MaxFailures THEN "deactivate" ELSE "refresh")
  /\ UNCHANGED <<realTokens, pool, adminPc, interrupted>>

CheckFailures(r) ==
  /\ pc[r] = "check"
  /\ HasRow(realTokens, using[r])
  /\ Goto(r, IF realTokens[using[r]].failure_count >= MaxFailures THEN "deactivate" ELSE "refresh")
  /\ UNCHANGED <<realTokens, pool, adminPc, interrupted>>

Deactivate(r) == /\ pc[r] = "deactivate"
                 /\ HasRow(realTokens, using[r])
                 /\ realTokens' = SetRealTokenActive(realTokens, using[r], FALSE)
                 /\ interrupted' = interrupted \ {using[r]}
                 /\ Goto(r, "refresh")
                 /\ UNCHANGED <<pool, adminPc>>

\* sql.ErrNoRows: RecordFailure returns before RefreshPool.
TokenGone(r) == /\ pc[r] \in {"check", "deactivate"}
                /\ ~HasRow(realTokens, using[r])
                /\ Finish(r)
                /\ UNCHANGED <<realTokens, pool, adminPc, interrupted>>

\* A statement of RecordFailure fails: it returns before RefreshPool.
CancelReport(r) ==
  /\ "cancel" \in Faults
  /\ pc[r] \in {"increment", "check", "deactivate"}
  /\ interrupted' = IF pc[r] # "increment" /\ AtThreshold(using[r])
                    THEN interrupted \cup {using[r]} ELSE interrupted
  /\ Finish(r)
  /\ UNCHANGED <<realTokens, pool, adminPc>>

RequestRefresh(r) == /\ pc[r] = "refresh"
                     /\ RefreshPool
                     /\ Finish(r)
                     /\ UNCHANGED <<realTokens, tokens, refreshPc, snapshot, adminPc, interrupted>>

----------------------------------------------------------------------------
(* An administrator's handlers: the statement, then onPoolChanged. *)

AdminWrites(a, t, table) == /\ adminPc[a] = "idle"
                            /\ realTokens' = table
                            /\ adminPc' = [adminPc EXCEPT ![a] = "notify"]
                            /\ interrupted' = interrupted \ {t}
                            /\ UNCHANGED <<pool, pc, using>>

Create(a, t) == /\ realTokens[t].status = "unissued"
                /\ AdminWrites(a, t, CreateRealToken(realTokens, t))
                /\ UNCHANGED overtaken

\* Reports of t that have checked the count and have not deactivated t yet.
Past(t) == {r \in Requests : using[r] = t /\ pc[r] = "deactivate"}

SetActive(a, t, active) == /\ HasRow(realTokens, t)
                           /\ AdminWrites(a, t, SetRealTokenActive(realTokens, t, active))
                           /\ overtaken' = IF active THEN overtaken \cup Past(t) ELSE overtaken

\* Mutant: the pool is not told of a deleted token.
DeleteSilently(a, t) == /\ HasRow(realTokens, t)
                        /\ adminPc[a] = "idle"
                        /\ realTokens' = DeleteRealToken(realTokens, t)
                        /\ interrupted' = interrupted \ {t}
                        /\ UNCHANGED <<pool, pc, using, adminPc, overtaken>>

Delete(a, t) == /\ HasRow(realTokens, t)
                /\ AdminWrites(a, t, DeleteRealToken(realTokens, t))
                /\ UNCHANGED overtaken

NotifyPool(a) == /\ adminPc[a] = "notify"
                 /\ RefreshPool
                 /\ adminPc' = [adminPc EXCEPT ![a] = "idle"]
                 /\ UNCHANGED <<realTokens, tokens, refreshPc, snapshot, pc, using, interrupted,
                                overtaken>>

----------------------------------------------------------------------------
ReportFailure(r) == \/ IncrementFailure(r)
                    \/ CheckFailures(r)
                    \/ Deactivate(r)
                    \/ TokenGone(r)
                    \/ CancelReport(r)
                    \/ RequestRefresh(r)

Serve(r) == ResolveToken(r) \/ UpstreamAnswers(r) \/ UpstreamFails(r) \/ ReportFailure(r)

Administer(a) == \/ \E t \in RealTokens : \/ Create(a, t)
                                          \/ \E active \in BOOLEAN : SetActive(a, t, active)
                                          \/ Delete(a, t)
                 \/ NotifyPool(a)

Refresh(s) == TimerFires(s) \/ ListTokens(s) \/ RefreshError(s) \/ SwapPool(s)

Next == \/ \E r \in Requests : Serve(r)
        \/ \E a \in Admins : Administer(a)
        \/ \E s \in Refreshers : Refresh(s)
        \/ Tick
        \/ Restart

Spec == Init /\ [][Next]_vars

\* Time passes and a running goroutine goes on; upstream may never answer, and
\* neither clients nor administrators have to send anything.
Fairness == /\ WF_vars(Tick)
            /\ \A s \in Refreshers : WF_vars(Refresh(s))
            /\ \A r \in Requests : WF_vars(ReportFailure(r))
            /\ \A a \in Admins : WF_vars(NotifyPool(a))

FairSpec == Spec /\ Fairness

----------------------------------------------------------------------------
(* Properties. *)

\* Every variable has its type: in particular the timer never runs longer than
\* one debounce period (manager.go:59-72).
TypeOK ==
  /\ realTokens \in [RealTokens -> RealToken]
  /\ tokens \in SUBSET RealTokens
  /\ refreshTimer \in 0..Debounce
  /\ refreshPc \in [Refreshers -> {"idle", "list", "swap", "failed"}]
  /\ snapshot \in [Refreshers -> SUBSET RealTokens]
  /\ pc \in [Requests -> {"idle", "upstream", "increment", "check", "deactivate", "refresh"}]
  /\ using \in [Requests -> RealTokens \cup {NoToken}]
  /\ adminPc \in [Admins -> {"idle", "notify"}]
  /\ interrupted \in SUBSET RealTokens
  /\ overtaken \in SUBSET Requests

\* What the pool should contain: usable tokens, stated without the query.
InService(t) == /\ realTokens[t].status = "live"
                /\ realTokens[t].is_active
                /\ realTokens[t].failure_count # MaxFailures

Stale(t) == ~(t \in tokens <=> InService(t))

RefreshFailed == \E s \in Refreshers : refreshPc[s] = "failed"

\* A refresh that will read the row of t again is under way, or its absence is
\* explained by an error.
Owed(t) == \/ refreshTimer > 0
           \/ \E s \in Refreshers : refreshPc[s] \in {"list", "failed"}
           \/ \E a \in Admins : adminPc[a] = "notify"
           \/ \E r \in Requests : pc[r] = "refresh"
           \/ AtThreshold(t) /\ Reporting(t)
           \/ t \in interrupted

\* When the pool disagrees with the table about a token, whoever changed the row
\* has not finished, a refresh is coming, or a callback holds the right answer:
\* no interleaving of reports, admin writes, re-arms and reads loses the last
\* refresh, as long as callbacks do not overlap (manager.go:59-72, 102-122).
PoolCoherent ==
  \A t \in RealTokens :
    Stale(t) => \/ Owed(t)
                \/ \E s \in Refreshers : refreshPc[s] = "swap" /\ (t \in snapshot[s] <=> InService(t))

\* A token that has reached the threshold is not left active: some request is
\* about to deactivate it, unless its report was cut short.  Concurrent reports,
\* activations and deletions do not break this (manager.go:102-118).
ThresholdEnforced ==
  \A t \in RealTokens : AtThreshold(t) => Reporting(t) \/ t \in interrupted

\* Requests do not take a token out of service before it has failed MaxFailures times
\* since it was last activated, except a report that had made its check before the
\* activation: an administrator's activation is undone at most by the reports that
\* are at that point, never by later ones (manager.go:108-118, store/real_token.go:128-145).
DeactivationDue ==
  [][\A r \in Requests :
       Deactivate(r) => r \in overtaken \/ realTokens[using[r]].failure_count >= MaxFailures]_vars

\* Steps after which the debounce starts over.
Disturbance == \/ \E r \in Requests : RequestRefresh(r)
               \/ \E a \in Admins : NotifyPool(a)
               \/ Restart

\* Once nothing re-arms the timer any more, the pool ends up equal to the table,
\* but for tokens whose report or whose last refresh failed (manager.go:65-71).
PoolSettles ==
  <>[][~Disturbance]_vars =>
    <>[](RefreshFailed \/ \A t \in RealTokens : Stale(t) => t \in interrupted)

\* "The pool is refreshed afterward" (manager.go:100-101), however many requests
\* go on failing: with no administrator at work, a stale entry does not stay for ever.
PoolConverges ==
  <>[][~\E a \in Admins : NotifyPool(a)]_vars =>
    \A t \in RealTokens : []<>(~Stale(t) \/ RefreshFailed \/ t \in interrupted)

\* "The pool is refreshed afterward" (manager.go:100-101): when nothing is left to
\* do and nothing went wrong, the pool is what the query returns.
RefreshedAfterward ==
  (/\ refreshTimer = 0
   /\ \A s \in Refreshers : refreshPc[s] = "idle"
   /\ \A a \in Admins : adminPc[a] = "idle"
   /\ \A r \in Requests : pc[r] \in {"idle", "upstream"})
  => \A t \in RealTokens : Stale(t) => t \in interrupted
=============================================================================
