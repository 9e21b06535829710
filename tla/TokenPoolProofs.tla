-------------------------- MODULE TokenPoolProofs --------------------------
(***************************************************************************)
(* Theorems about TokenPool for any number of tokens, requests and         *)
(* administrators, any threshold and any set of faults.                    *)
(***************************************************************************)
EXTENDS TokenPool, TLAPS

\* The empty table is a table, and the query returns ids.
LEMMA TableBasics ==
  /\ EmptyTable \in [RealTokens -> RealToken]
  /\ \A table : ListActiveRealTokens(table) \in SUBSET RealTokens
BY MaxFailuresAssumption
DEF EmptyTable, NoRow, RealToken, Status, ListActiveRealTokens

\* Each statement turns a table into a table.
LEMMA TableOperators ==
  ASSUME NEW table \in [RealTokens -> RealToken], NEW t \in RealTokens, NEW active \in BOOLEAN
  PROVE  /\ CreateRealToken(table, t) \in [RealTokens -> RealToken]
         /\ DeleteRealToken(table, t) \in [RealTokens -> RealToken]
         /\ SetRealTokenActive(table, t, active) \in [RealTokens -> RealToken]
         /\ IncrementRealTokenFailure(table, t) \in [RealTokens -> RealToken]
<1> USE MaxFailuresAssumption DEF RealToken, Status
<1>1. CreateRealToken(table, t) \in [RealTokens -> RealToken]
  BY DEF CreateRealToken
<1>2. DeleteRealToken(table, t) \in [RealTokens -> RealToken]
  BY DEF DeleteRealToken, NoRow
<1>3. SetRealTokenActive(table, t, active) \in [RealTokens -> RealToken]
  BY DEF SetRealTokenActive
<1>4. IncrementRealTokenFailure(table, t) \in [RealTokens -> RealToken]
  BY DEF IncrementRealTokenFailure
<1>5. QED
  BY <1>1, <1>2, <1>3, <1>4

\* A request past ResolveToken holds a token.
Holding == \A r \in Requests : pc[r] # "idle" => using[r] \in RealTokens

Typed == TypeOK /\ Holding

LEMMA TypedInit == Init => Typed
BY TableBasics, DebounceAssumption
DEF Init, Typed, TypeOK, Holding, Idle, Nothing

LEMMA TypedNext == Typed /\ [Next]_vars => Typed'
<1> SUFFICES ASSUME Typed, [Next]_vars PROVE Typed'
  OBVIOUS
<1> USE DebounceAssumption, NoTokenAssumption DEF Typed, TypeOK, Holding
<1>1. ASSUME NEW r \in Requests, Serve(r) PROVE Typed'
  <2>1. CASE ResolveToken(r)
    BY <2>1 DEF ResolveToken, pool
  <2>2. CASE UpstreamAnswers(r) \/ UpstreamFails(r) \/ CheckFailures(r) \/ TokenGone(r)
    BY <2>2 DEF UpstreamAnswers, UpstreamFails, CheckFailures, TokenGone, Goto, Finish, pool
  <2>3. CASE IncrementFailure(r)
    <3>1. using[r] \in RealTokens /\ realTokens' \in [RealTokens -> RealToken]
      BY <2>3, TableOperators DEF IncrementFailure
    <3>2. QED
      BY <2>3, <3>1 DEF IncrementFailure, Goto, pool
  <2>4. CASE Deactivate(r)
    <3>1. using[r] \in RealTokens /\ realTokens' \in [RealTokens -> RealToken]
      BY <2>4, TableOperators DEF Deactivate
    <3>2. QED
      BY <2>4, <3>1 DEF Deactivate, Goto, pool
  <2>5. CASE CancelReport(r)
    BY <2>5 DEF CancelReport, Finish, pool
  <2>6. CASE RequestRefresh(r)
    BY <2>6 DEF RequestRefresh, RefreshPool, Finish
  <2>7. QED
    BY <1>1, <2>1, <2>2, <2>3, <2>4, <2>5, <2>6 DEF Serve, ReportFailure
<1>2. ASSUME NEW a \in Admins, Administer(a) PROVE Typed'
  <2>1. ASSUME NEW t \in RealTokens, NEW table \in [RealTokens -> RealToken],
               AdminWrites(a, t, table), overtaken' \in SUBSET Requests
        PROVE  Typed'
    BY <2>1 DEF AdminWrites, pool
  <2>2. ASSUME NEW t \in RealTokens, NEW active \in BOOLEAN,
               Create(a, t) \/ Delete(a, t) \/ SetActive(a, t, active)
        PROVE  Typed'
    <3>1. overtaken' \in SUBSET Requests
      BY <2>2 DEF Create, Delete, SetActive, Past
    <3>2. CASE Create(a, t)
      <4>1. CreateRealToken(realTokens, t) \in [RealTokens -> RealToken]
        BY TableOperators
      <4>2. QED
        BY <2>1, <3>1, <3>2, <4>1 DEF Create
    <3>3. CASE Delete(a, t)
      <4>1. DeleteRealToken(realTokens, t) \in [RealTokens -> RealToken]
        BY TableOperators
      <4>2. QED
        BY <2>1, <3>1, <3>3, <4>1 DEF Delete
    <3>4. CASE SetActive(a, t, active)
      <4>1. SetRealTokenActive(realTokens, t, active) \in [RealTokens -> RealToken]
        BY TableOperators
      <4>2. QED
        BY <2>1, <3>1, <3>4, <4>1 DEF SetActive
    <3>5. QED
      BY <2>2, <3>2, <3>3, <3>4
  <2>3. CASE NotifyPool(a)
    BY <2>3 DEF NotifyPool, RefreshPool
  <2>4. ASSUME NEW t \in RealTokens, Create(a, t) \/ Delete(a, t) PROVE Typed'
    <3>1. TRUE \in BOOLEAN
      OBVIOUS
    <3>2. QED
      BY <2>2, <2>4, <3>1
  <2>5. ASSUME NEW t \in RealTokens, NEW active \in BOOLEAN, SetActive(a, t, active) PROVE Typed'
    BY <2>2, <2>5
  <2>6. QED
    BY <1>2, <2>3, <2>4, <2>5 DEF Administer
<1>3. ASSUME NEW s \in Refreshers, Refresh(s) PROVE Typed'
  <2>1. CASE ListTokens(s)
    BY <2>1, TableBasics DEF ListTokens
  <2>2. CASE TimerFires(s) \/ RefreshError(s) \/ SwapPool(s)
    BY <2>2 DEF TimerFires, RefreshError, SwapPool
  <2>3. QED
    BY <1>3, <2>1, <2>2 DEF Refresh
<1>4. CASE Tick
  BY <1>4 DEF Tick
<1>5. CASE Restart
  BY <1>5, TableBasics DEF Restart, Idle, Nothing
<1>6. CASE UNCHANGED vars
  BY <1>6 DEF vars, pool
<1>7. QED
  BY <1>1, <1>2, <1>3, <1>4, <1>5, <1>6 DEF Next

LEMMA AlwaysTyped == Spec => []Typed
BY TypedInit, TypedNext, PTL DEF Spec

\* Every reachable state is well typed; the debounce timer never exceeds one
\* period (manager.go:59-72).
THEOREM TypeCorrect == Spec => []TypeOK
<1>1. Typed => TypeOK
  BY DEF Typed
<1>2. QED
  BY <1>1, AlwaysTyped, PTL

----------------------------------------------------------------------------
(* The threshold. *)

LEMMA ThresholdNext ==
  ASSUME MaxFailures > 0, Typed, ThresholdEnforced, [Next]_vars
  PROVE  ThresholdEnforced'
<1> SUFFICES ASSUME NEW t \in RealTokens, AtThreshold(t)'
             PROVE  (Reporting(t) \/ t \in interrupted)'
  BY DEF ThresholdEnforced
<1> USE MaxFailuresAssumption, NoTokenAssumption DEF Typed, TypeOK, Holding
<1>1. AtThreshold(t) => Reporting(t) \/ t \in interrupted
  BY DEF ThresholdEnforced
<1>2. CASE UNCHANGED <<realTokens, pc, using, interrupted>>
  BY <1>1, <1>2 DEF AtThreshold, HasRow, Reporting
<1>3. ASSUME NEW r \in Requests, Serve(r) PROVE (Reporting(t) \/ t \in interrupted)'
  <2>1. CASE ResolveToken(r) \/ UpstreamAnswers(r) \/ UpstreamFails(r)
    <3>1. AtThreshold(t) /\ interrupted' = interrupted
      BY <2>1 DEF ResolveToken, UpstreamAnswers, UpstreamFails, AtThreshold, HasRow
    <3>2. ASSUME NEW q \in Requests, pc[q] \in {"check", "deactivate"}
          PROVE  pc'[q] = pc[q] /\ using'[q] = using[q]
      BY <2>1, <3>2 DEF ResolveToken, UpstreamAnswers, UpstreamFails, Goto, Finish
    <3>3. QED
      BY <1>1, <3>1, <3>2 DEF Reporting
  <2>2. CASE IncrementFailure(r)
    <3>1. CASE using[r] = t
      BY <2>2, <3>1 DEF IncrementFailure, Goto, Reporting
    <3>2. CASE using[r] # t
      <4>1. realTokens'[t] = realTokens[t]
        BY <2>2, <3>2 DEF IncrementFailure, IncrementRealTokenFailure
      <4>2. AtThreshold(t)
        BY <4>1 DEF AtThreshold, HasRow
      <4>3. QED
        BY <1>1, <2>2, <4>2 DEF IncrementFailure, Goto, Reporting
    <3>3. QED
      BY <3>1, <3>2
  <2>3. CASE CheckFailures(r)
    BY <1>1, <2>3 DEF CheckFailures, Goto, AtThreshold, HasRow, Reporting
  <2>4. CASE Deactivate(r)
    <3>1. realTokens'[t] = realTokens[t] /\ using[r] # t
      <4>1. using[r] \in RealTokens
        BY <2>4 DEF Deactivate
      <4>2. realTokens'[using[r]].is_active = FALSE
        BY <2>4, <4>1 DEF Deactivate, SetRealTokenActive
      <4>3. using[r] # t
        BY <4>2 DEF AtThreshold
      <4>4. QED
        BY <2>4, <4>3 DEF Deactivate, SetRealTokenActive
    <3>2. AtThreshold(t)
      BY <3>1 DEF AtThreshold, HasRow
    <3>3. QED
      BY <1>1, <2>4, <3>1, <3>2 DEF Deactivate, Goto, Reporting
  <2>5. CASE TokenGone(r)
    BY <1>1, <2>5 DEF TokenGone, Finish, AtThreshold, HasRow, Reporting
  <2>6. CASE CancelReport(r)
    BY <1>1, <2>6 DEF CancelReport, Finish, AtThreshold, HasRow, Reporting
  <2>7. CASE RequestRefresh(r)
    BY <1>1, <2>7 DEF RequestRefresh, Finish, AtThreshold, HasRow, Reporting
  <2>8. QED
    BY <1>3, <2>1, <2>2, <2>3, <2>4, <2>5, <2>6, <2>7 DEF Serve, ReportFailure
<1>4. ASSUME NEW a \in Admins, Administer(a) PROVE (Reporting(t) \/ t \in interrupted)'
  <2>1. ASSUME NEW u \in RealTokens, NEW active \in BOOLEAN,
               Create(a, u) \/ Delete(a, u) \/ SetActive(a, u, active)
        PROVE  (Reporting(t) \/ t \in interrupted)'
    <3>1. CASE u = t
      BY <2>1, <3>1
      DEF Create, Delete, SetActive, AdminWrites, CreateRealToken, DeleteRealToken,
          SetRealTokenActive, NoRow, AtThreshold, HasRow
    <3>2. CASE u # t
      <4>1. realTokens'[t] = realTokens[t] /\ (t \in interrupted => t \in interrupted')
        BY <2>1, <3>2
        DEF Create, Delete, SetActive, AdminWrites, CreateRealToken, DeleteRealToken,
            SetRealTokenActive
      <4>2. UNCHANGED <<pc, using>>
        BY <2>1 DEF Create, Delete, SetActive, AdminWrites
      <4>3. QED
        BY <1>1, <4>1, <4>2 DEF AtThreshold, HasRow, Reporting
    <3>3. QED
      BY <3>1, <3>2
  <2>2. CASE NotifyPool(a)
    BY <1>2, <2>2 DEF NotifyPool
  <2>3. ASSUME NEW u \in RealTokens, Create(a, u) \/ Delete(a, u)
        PROVE  (Reporting(t) \/ t \in interrupted)'
    <3>1. TRUE \in BOOLEAN
      OBVIOUS
    <3>2. QED
      BY <2>1, <2>3, <3>1
  <2>4. ASSUME NEW u \in RealTokens, NEW active \in BOOLEAN, SetActive(a, u, active)
        PROVE  (Reporting(t) \/ t \in interrupted)'
    BY <2>1, <2>4
  <2>5. QED
    BY <1>4, <2>2, <2>3, <2>4 DEF Administer
<1>5. CASE \E s \in Refreshers : Refresh(s)
  BY <1>2, <1>5 DEF Refresh, TimerFires, ListTokens, RefreshError, SwapPool
<1>6. CASE Tick
  BY <1>2, <1>6 DEF Tick
<1>7. CASE Restart
  <2>1. AtThreshold(t) /\ interrupted' = interrupted \cup {u \in RealTokens : AtThreshold(u) /\ Reporting(u)}
    BY <1>7 DEF Restart, AtThreshold, HasRow
  <2>2. QED
    BY <1>1, <2>1
<1>8. CASE UNCHANGED vars
  BY <1>2, <1>8 DEF vars
<1>9. QED
  BY <1>3, <1>4, <1>5, <1>6, <1>7, <1>8 DEF Next

\* No token stays active at the threshold unless a request is about to
\* deactivate it or its report was cut short (manager.go:102-118).
THEOREM ThresholdIsEnforced ==
  ASSUME MaxFailures > 0
  PROVE  Spec => []ThresholdEnforced
<1>1. Init => ThresholdEnforced
  BY DEF Init, ThresholdEnforced, AtThreshold, HasRow, EmptyTable, NoRow
<1>2. Typed /\ ThresholdEnforced /\ [Next]_vars => ThresholdEnforced'
  BY ThresholdNext
<1>3. QED
  BY <1>1, <1>2, AlwaysTyped, PTL DEF Spec

----------------------------------------------------------------------------
(* The pool and the table, while snapshots of the table do not overlap. *)

\* No callback reads the table before the one ahead of it has installed what it read.
OneSnapshot ==
  \A s, q \in Refreshers : refreshPc[s] = "swap" /\ refreshPc[q] = "swap" => s = q

\* What the pool will hold once the callback that has read the table, if there
\* is one, installs what it read.
Incoming(t) == \/ \E s \in Refreshers : refreshPc[s] = "swap" /\ t \in snapshot[s]
               \/ (\A s \in Refreshers : refreshPc[s] # "swap") /\ t \in tokens

\* PoolCoherent says nothing of a snapshot that was right and has become wrong;
\* the invariant has to, or SwapPool could install it.
Coherent(t) == (Incoming(t) <=> InService(t)) \/ Owed(t)
AllCoherent == \A t \in RealTokens : Coherent(t)

\* The query and InService agree.
LEMMA QueryIsInService ==
  ASSUME Typed, NEW t \in RealTokens
  PROVE  t \in ListActiveRealTokens(realTokens) <=> InService(t)
<1>1. realTokens[t].failure_count \in 0..MaxFailures
  BY DEF Typed, TypeOK, RealToken
<1>2. (realTokens[t].failure_count < MaxFailures) <=> (realTokens[t].failure_count # MaxFailures)
  BY <1>1, MaxFailuresAssumption
<1>3. QED
  BY <1>2 DEF ListActiveRealTokens, HasRow, InService

\* A step that leaves the row of t, the callbacks and the debts alone.
LEMMA CoherentUnlessTouched ==
  ASSUME NEW t \in RealTokens, Coherent(t),
         UNCHANGED <<tokens, refreshPc, snapshot>>, InService(t)' <=> InService(t), Owed(t) => Owed(t)'
  PROVE  Coherent(t)'
BY DEF Coherent, Incoming

LEMMA CoherentRequest ==
  ASSUME Typed, NEW t \in RealTokens, Coherent(t), NEW r \in Requests, Serve(r)
  PROVE  Coherent(t)'
<1> USE MaxFailuresAssumption, NoTokenAssumption DEF Typed, TypeOK, Holding, RealToken
<1>1. UNCHANGED <<tokens, refreshPc, snapshot, adminPc>>
  BY DEF Serve, ReportFailure, ResolveToken, UpstreamAnswers, UpstreamFails, IncrementFailure,
         CheckFailures, Deactivate, TokenGone, CancelReport, RequestRefresh, pool
<1>2. CASE ResolveToken(r) \/ UpstreamAnswers(r) \/ UpstreamFails(r)
  <2>1. UNCHANGED <<realTokens, refreshTimer, interrupted>>
    BY <1>2 DEF ResolveToken, UpstreamAnswers, UpstreamFails, pool
  <2>2. ASSUME NEW q \in Requests, pc[q] \in {"check", "deactivate", "refresh"}
        PROVE  pc'[q] = pc[q] /\ using'[q] = using[q]
    BY <1>2, <2>2 DEF ResolveToken, UpstreamAnswers, UpstreamFails, Goto, Finish
  <2>3. Owed(t) => Owed(t)'
    BY <1>1, <2>1, <2>2 DEF Owed, AtThreshold, HasRow, Reporting
  <2>4. QED
    BY <1>1, <2>1, <2>3, CoherentUnlessTouched DEF InService
<1>3. CASE IncrementFailure(r)
  <2>1. CASE using[r] = t /\ AtThreshold(t)'
    BY <1>3, <2>1 DEF IncrementFailure, Goto, Reporting, Owed, Coherent
  <2>2. CASE using[r] = t /\ ~AtThreshold(t)'
    <3>1. ~AtThreshold(t) /\ (InService(t)' <=> InService(t))
      BY <1>3, <2>2 DEF IncrementFailure, IncrementRealTokenFailure, AtThreshold, HasRow, InService
    <3>2. Owed(t) => Owed(t)'
      BY <1>3, <3>1 DEF IncrementFailure, Goto, Owed, pool
    <3>3. QED
      BY <1>1, <3>1, <3>2, CoherentUnlessTouched
  <2>3. CASE using[r] # t
    <3>1. realTokens'[t] = realTokens[t]
      BY <1>3, <2>3 DEF IncrementFailure, IncrementRealTokenFailure
    <3>2. Owed(t) => Owed(t)'
      BY <1>3, <3>1 DEF IncrementFailure, Goto, Owed, AtThreshold, HasRow, Reporting, pool
    <3>3. QED
      BY <1>1, <3>1, <3>2, CoherentUnlessTouched DEF InService
  <2>4. QED
    BY <2>1, <2>2, <2>3
<1>4. CASE CheckFailures(r)
  <2>1. Owed(t) => Owed(t)'
    BY <1>4 DEF CheckFailures, Goto, Owed, AtThreshold, HasRow, Reporting, pool
  <2>2. QED
    BY <1>1, <1>4, <2>1, CoherentUnlessTouched DEF CheckFailures, InService
<1>5. CASE Deactivate(r)
  BY <1>5 DEF Deactivate, Goto, Owed, Coherent
<1>6. CASE TokenGone(r) \/ CancelReport(r)
  <2>1. UNCHANGED realTokens
    BY <1>6 DEF TokenGone, CancelReport
  <2>2. Owed(t) => Owed(t)'
    BY <1>1, <1>6 DEF TokenGone, CancelReport, Finish, Owed, AtThreshold, HasRow, Reporting, pool
  <2>3. QED
    BY <1>1, <2>1, <2>2, CoherentUnlessTouched DEF InService
<1>7. CASE RequestRefresh(r)
  BY <1>7, DebounceAssumption DEF RequestRefresh, RefreshPool, Owed, Coherent
<1>8. QED
  BY <1>2, <1>3, <1>4, <1>5, <1>6, <1>7 DEF Serve, ReportFailure

LEMMA CoherentRefresh ==
  ASSUME Typed, NEW t \in RealTokens, Coherent(t), NEW s \in Refreshers,
         OneSnapshot, OneSnapshot', Refresh(s)
  PROVE  Coherent(t)'
<1> USE DEF Typed, TypeOK
<1>1. CASE TimerFires(s)
  BY <1>1 DEF TimerFires, Coherent, Owed
<1>2. CASE ListTokens(s)
  <2>1. /\ refreshPc'[s] = "swap" /\ (t \in snapshot'[s] <=> InService(t))
        /\ InService(t)' <=> InService(t)
    BY <1>2, QueryIsInService DEF ListTokens, InService
  <2>2. \A q \in Refreshers : refreshPc'[q] = "swap" => q = s
    BY <2>1 DEF OneSnapshot
  <2>3. QED
    BY <2>1, <2>2 DEF Coherent, Incoming
<1>3. CASE RefreshError(s)
  BY <1>3 DEF RefreshError, Coherent, Owed
<1>4. CASE SwapPool(s)
  <2>1. Incoming(t)' <=> Incoming(t)
    <3>1. (t \in tokens') <=> (t \in snapshot[s])
      BY <1>4 DEF SwapPool
    <3>2. refreshPc[s] = "swap" /\ \A q \in Refreshers : refreshPc[q] = "swap" => q = s
      BY <1>4 DEF SwapPool, OneSnapshot
    <3>3. ~\E q \in Refreshers : refreshPc'[q] = "swap"
      BY <1>4, <3>2 DEF SwapPool
    <3>4. QED
      BY <3>1, <3>2, <3>3 DEF Incoming
  <2>2. (InService(t)' <=> InService(t)) /\ (Owed(t) => Owed(t)')
    BY <1>4 DEF SwapPool, InService, Owed, AtThreshold, HasRow, Reporting
  <2>3. QED
    BY <2>1, <2>2 DEF Coherent, Incoming
<1>5. QED
  BY <1>1, <1>2, <1>3, <1>4 DEF Refresh

LEMMA CoherentNext ==
  ASSUME OneSnapshot, OneSnapshot', Typed, AllCoherent, [Next]_vars
  PROVE  AllCoherent'
<1> SUFFICES ASSUME NEW t \in RealTokens PROVE Coherent(t)'
  BY DEF AllCoherent
<1>1. Coherent(t)
  BY DEF AllCoherent
<1>2. ASSUME NEW r \in Requests, Serve(r) PROVE Coherent(t)'
  BY <1>1, <1>2, CoherentRequest
<1>3. ASSUME NEW a \in Admins, Administer(a) PROVE Coherent(t)'
  <2>1. CASE NotifyPool(a)
    BY <2>1, DebounceAssumption DEF NotifyPool, RefreshPool, Coherent, Owed
  <2>2. ASSUME NEW u, NEW table, AdminWrites(a, u, table) PROVE Coherent(t)'
    BY <2>2 DEF AdminWrites, Coherent, Owed, Typed, TypeOK
  <2>3. QED
    BY <1>3, <2>1, <2>2 DEF Administer, Create, SetActive, Delete
<1>4. ASSUME NEW s \in Refreshers, Refresh(s) PROVE Coherent(t)'
  BY <1>1, <1>4, CoherentRefresh
<1>5. CASE Tick
  <2>1. (InService(t)' <=> InService(t)) /\ (Owed(t) => Owed(t)')
    BY <1>5 DEF Tick, InService, Owed, AtThreshold, HasRow, Reporting, Typed, TypeOK
  <2>2. QED
    BY <1>1, <1>5, <2>1, CoherentUnlessTouched DEF Tick
<1>6. CASE Restart
  <2>1. ~\E q \in Refreshers : refreshPc'[q] = "swap"
    BY <1>6 DEF Restart
  <2>2. (t \in tokens') <=> InService(t)
    BY <1>6, QueryIsInService DEF Restart
  <2>3. InService(t)' <=> InService(t)
    BY <1>6 DEF Restart, InService
  <2>4. QED
    BY <2>1, <2>2, <2>3 DEF Coherent, Incoming
<1>7. CASE UNCHANGED vars
  BY <1>1, <1>7
  DEF vars, pool, Coherent, Incoming, InService, Owed, AtThreshold, HasRow, Reporting
<1>8. QED
  BY <1>2, <1>3, <1>4, <1>5, <1>6, <1>7 DEF Next

LEMMA AllCoherentUnlessOverlap == Spec /\ []OneSnapshot => []AllCoherent
<1>1. Init => AllCoherent
  <2> SUFFICES ASSUME Init, NEW t \in RealTokens PROVE Coherent(t)
    BY DEF AllCoherent
  <2>1. t \notin tokens /\ ~InService(t)
    BY DEF Init, InService, ListActiveRealTokens, HasRow, EmptyTable, NoRow
  <2>2. ~\E q \in Refreshers : refreshPc[q] = "swap"
    BY DEF Init
  <2>3. QED
    BY <2>1, <2>2 DEF Coherent, Incoming
<1>2. Typed /\ OneSnapshot /\ OneSnapshot' /\ AllCoherent /\ [Next]_vars => AllCoherent'
  BY CoherentNext
<1>3. QED
  BY <1>1, <1>2, AlwaysTyped, PTL DEF Spec

LEMMA CoherentPool == AllCoherent => PoolCoherent
BY DEF AllCoherent, Coherent, Incoming, PoolCoherent, Stale

\* However many callbacks the timer has started, as long as none reads the table while
\* another holds what it read, the pool disagrees with the table only while somebody
\* still owes a refresh or an error explains it (pool.go:38-48, manager.go:59-72).
THEOREM CoherentUnlessOverlap == Spec /\ []OneSnapshot => []PoolCoherent
BY AllCoherentUnlessOverlap, CoherentPool, PTL

\* That is also what it takes for "the pool is refreshed afterward": once nothing is
\* left to do, the pool is what the query returns, but for tokens whose report was cut
\* short (manager.go:100-122).
THEOREM RefreshedUnlessOverlap == Spec /\ []OneSnapshot => []RefreshedAfterward
<1>1. PoolCoherent => RefreshedAfterward
  <2> SUFFICES ASSUME PoolCoherent,
                      refreshTimer = 0,
                      \A s \in Refreshers : refreshPc[s] = "idle",
                      \A a \in Admins : adminPc[a] = "idle",
                      \A r \in Requests : pc[r] \in {"idle", "upstream"},
                      NEW t \in RealTokens, Stale(t)
               PROVE  t \in interrupted
    BY DEF RefreshedAfterward
  <2>1. ~Reporting(t)
    BY DEF Reporting
  <2>2. Owed(t)
    BY DEF PoolCoherent
  <2>3. QED
    BY <2>1, <2>2 DEF Owed
<1>2. QED
  BY <1>1, CoherentUnlessOverlap, PTL

\* A single callback cannot overlap with itself.
THEOREM PoolIsCoherent ==
  ASSUME NEW s \in Refreshers, Refreshers = {s}
  PROVE  Spec => []PoolCoherent
<1>1. OneSnapshot
  BY DEF OneSnapshot
<1>2. QED
  BY <1>1, CoherentUnlessOverlap, PTL

----------------------------------------------------------------------------
(* Deactivation. *)

\* Whoever holds the id of a token took it from the table, where ids are issued once.
Issued == \A t \in RealTokens :
            (t \in tokens \/ (\E s \in Refreshers : t \in snapshot[s]) \/ \E r \in Requests : using[r] = t)
              => realTokens[t].status # "unissued"

\* A report past its check has reason to deactivate, or has been overtaken.
DueAtDeactivate ==
  \A r \in Requests :
    pc[r] = "deactivate" => \/ r \in overtaken
                            \/ ~HasRow(realTokens, using[r])
                            \/ realTokens[using[r]].failure_count >= MaxFailures

Due == Issued /\ DueAtDeactivate

LEMMA StatusKept ==
  ASSUME Typed, [Next]_vars, NEW t \in RealTokens, realTokens[t].status # "unissued"
  PROVE  realTokens'[t].status # "unissued"
<1> USE DEF Typed, TypeOK, Holding, RealToken
<1>1. ASSUME NEW r \in Requests, Serve(r) PROVE realTokens'[t].status # "unissued"
  BY <1>1
  DEF Serve, ReportFailure, ResolveToken, UpstreamAnswers, UpstreamFails, IncrementFailure,
      CheckFailures, Deactivate, TokenGone, CancelReport, RequestRefresh,
      IncrementRealTokenFailure, SetRealTokenActive
<1>2. ASSUME NEW a \in Admins, Administer(a) PROVE realTokens'[t].status # "unissued"
  BY <1>2
  DEF Administer, Create, SetActive, Delete, NotifyPool, AdminWrites, CreateRealToken,
      DeleteRealToken, SetRealTokenActive, NoRow
<1>3. ASSUME NEW s \in Refreshers, Refresh(s) PROVE UNCHANGED realTokens
  BY <1>3 DEF Refresh, TimerFires, ListTokens, RefreshError, SwapPool
<1>4. CASE Tick \/ Restart \/ UNCHANGED vars
  BY <1>4 DEF Tick, Restart, vars
<1>5. QED
  BY <1>1, <1>2, <1>3, <1>4 DEF Next

LEMMA IssuedNext ==
  ASSUME Typed, Issued, [Next]_vars
  PROVE  Issued'
<1> SUFFICES ASSUME NEW t \in RealTokens,
                    (t \in tokens \/ (\E s \in Refreshers : t \in snapshot[s])
                                  \/ \E r \in Requests : using[r] = t)'
             PROVE  realTokens[t].status # "unissued"
  BY StatusKept DEF Issued
<1> USE NoTokenAssumption DEF Typed, TypeOK, Holding
<1>1. t \in ListActiveRealTokens(realTokens) => realTokens[t].status # "unissued"
  BY DEF ListActiveRealTokens, HasRow
<1>2. CASE UNCHANGED <<tokens, snapshot, using>>
  BY <1>2 DEF Issued
<1>3. ASSUME NEW r \in Requests, Serve(r) PROVE realTokens[t].status # "unissued"
  <2>1. UNCHANGED <<tokens, snapshot>>
    BY <1>3 DEF Serve, ReportFailure, ResolveToken, UpstreamAnswers, UpstreamFails, IncrementFailure,
                CheckFailures, Deactivate, TokenGone, CancelReport, RequestRefresh, pool
  <2>2. \A q \in Requests : using'[q] = using[q] \/ using'[q] \in tokens \/ using'[q] = NoToken
    BY <1>3 DEF Serve, ReportFailure, ResolveToken, UpstreamAnswers, UpstreamFails, IncrementFailure,
                CheckFailures, Deactivate, TokenGone, CancelReport, RequestRefresh, Goto, Finish
  <2>3. QED
    BY <2>1, <2>2 DEF Issued
<1>4. ASSUME NEW a \in Admins, Administer(a) PROVE UNCHANGED <<tokens, snapshot, using>>
  BY <1>4 DEF Administer, Create, SetActive, Delete, NotifyPool, AdminWrites, pool
<1>5. ASSUME NEW s \in Refreshers, Refresh(s) PROVE realTokens[t].status # "unissued"
  <2>1. CASE ListTokens(s)
    BY <1>1, <2>1 DEF ListTokens, Issued
  <2>2. CASE SwapPool(s)
    BY <2>2 DEF SwapPool, Issued
  <2>3. CASE TimerFires(s) \/ RefreshError(s)
    BY <1>2, <2>3 DEF TimerFires, RefreshError
  <2>4. QED
    BY <1>5, <2>1, <2>2, <2>3 DEF Refresh
<1>6. CASE Tick \/ UNCHANGED vars
  BY <1>2, <1>6 DEF Tick, vars, pool
<1>7. CASE Restart
  BY <1>1, <1>7 DEF Restart, Nothing
<1>8. QED
  BY <1>2, <1>3, <1>4, <1>5, <1>6, <1>7 DEF Next

LEMMA DueNext ==
  ASSUME Typed, Due, [Next]_vars
  PROVE  DueAtDeactivate'
<1> SUFFICES ASSUME NEW q \in Requests, pc'[q] = "deactivate"
             PROVE  (\/ q \in overtaken
                     \/ ~HasRow(realTokens, using[q])
                     \/ realTokens[using[q]].failure_count >= MaxFailures)'
  BY DEF DueAtDeactivate
<1> USE MaxFailuresAssumption DEF Typed, TypeOK, Holding, RealToken
<1>1. CASE UNCHANGED <<realTokens, pc, using, overtaken>>
  BY <1>1 DEF Due, DueAtDeactivate, HasRow
<1>2. ASSUME NEW r \in Requests, Serve(r), r = q
      PROVE  realTokens'[using'[q]].failure_count >= MaxFailures
  BY <1>2 DEF Serve, ReportFailure, ResolveToken, UpstreamAnswers, UpstreamFails, IncrementFailure,
              CheckFailures, Deactivate, TokenGone, CancelReport, RequestRefresh, Goto, Finish
<1>3. ASSUME NEW r \in Requests, Serve(r), r # q
      PROVE  (\/ q \in overtaken
              \/ ~HasRow(realTokens, using[q])
              \/ realTokens[using[q]].failure_count >= MaxFailures)'
  <2>1. pc'[q] = pc[q] /\ using'[q] = using[q] /\ (q \in overtaken => q \in overtaken')
    BY <1>3 DEF Serve, ReportFailure, ResolveToken, UpstreamAnswers, UpstreamFails, IncrementFailure,
                CheckFailures, Deactivate, TokenGone, CancelReport, RequestRefresh, Goto, Finish
  <2>2. using[q] \in RealTokens
    BY <2>1
  <2>3. /\ realTokens'[using[q]].failure_count >= realTokens[using[q]].failure_count
        /\ realTokens'[using[q]].status = realTokens[using[q]].status
    BY <1>3, <2>2
    DEF Serve, ReportFailure, ResolveToken, UpstreamAnswers, UpstreamFails, IncrementFailure,
        CheckFailures, Deactivate, TokenGone, CancelReport, RequestRefresh,
        IncrementRealTokenFailure, SetRealTokenActive
  <2>4. realTokens[using[q]].failure_count \in Int /\ realTokens'[using[q]].failure_count \in Int
    BY <2>2, TypedNext
  <2>5. QED
    BY <2>1, <2>2, <2>3, <2>4 DEF Due, DueAtDeactivate, HasRow
<1>4. ASSUME NEW a \in Admins, Administer(a)
      PROVE  (\/ q \in overtaken
              \/ ~HasRow(realTokens, using[q])
              \/ realTokens[using[q]].failure_count >= MaxFailures)'
  <2>1. CASE NotifyPool(a)
    BY <1>1, <2>1 DEF NotifyPool
  <2>2. ASSUME NEW u \in RealTokens, NEW active \in BOOLEAN,
               Create(a, u) \/ Delete(a, u) \/ SetActive(a, u, active)
        PROVE  (\/ q \in overtaken
                \/ ~HasRow(realTokens, using[q])
                \/ realTokens[using[q]].failure_count >= MaxFailures)'
    <3>1. UNCHANGED <<pc, using>> /\ using[q] \in RealTokens /\ (q \in overtaken => q \in overtaken')
      BY <2>2 DEF Create, Delete, SetActive, AdminWrites
    <3>2. CASE using[q] # u
      <4>1. realTokens'[using[q]] = realTokens[using[q]]
        BY <2>2, <3>1, <3>2
        DEF Create, Delete, SetActive, AdminWrites, CreateRealToken, DeleteRealToken, SetRealTokenActive
      <4>2. QED
        BY <3>1, <4>1 DEF Due, DueAtDeactivate, HasRow
    <3>3. CASE using[q] = u /\ Create(a, u)
      BY <3>3 DEF Create, Due, Issued
    <3>4. CASE using[q] = u /\ Delete(a, u)
      BY <3>1, <3>4 DEF Delete, AdminWrites, DeleteRealToken, NoRow, HasRow
    <3>5. CASE using[q] = u /\ SetActive(a, u, active)
      <4>1. CASE active
        BY <3>1, <3>5, <4>1 DEF SetActive, Past
      <4>2. CASE ~active
        BY <3>1, <3>5, <4>2 DEF SetActive, AdminWrites, SetRealTokenActive, Due, DueAtDeactivate, HasRow
      <4>3. QED
        BY <4>1, <4>2
    <3>6. QED
      BY <2>2, <3>2, <3>3, <3>4, <3>5
  <2>3. QED
    BY <1>4, <2>1, <2>2 DEF Administer
<1>5. ASSUME NEW s \in Refreshers, Refresh(s) PROVE UNCHANGED <<realTokens, pc, using, overtaken>>
  BY <1>5 DEF Refresh, TimerFires, ListTokens, RefreshError, SwapPool
<1>6. CASE Tick \/ UNCHANGED vars
  BY <1>1, <1>6 DEF Tick, vars
<1>7. CASE Restart
  BY <1>7 DEF Restart, Idle
<1>8. QED
  BY <1>1, <1>2, <1>3, <1>4, <1>5, <1>6, <1>7 DEF Next

\* A report deactivates a token only when it has failed MaxFailures times since it
\* was activated, or when the activation came between the report's check and its
\* deactivation (manager.go:108-118).
THEOREM DeactivationIsDue == Spec => DeactivationDue
<1>1. Init => Due
  BY NoTokenAssumption
  DEF Init, Due, Issued, DueAtDeactivate, ListActiveRealTokens, HasRow, EmptyTable, NoRow, Idle,
      Nothing
<1>2. Typed /\ Due /\ [Next]_vars => Due'
  BY IssuedNext, DueNext DEF Due
<1>3. Due => \A r \in Requests :
               Deactivate(r) => r \in overtaken \/ realTokens[using[r]].failure_count >= MaxFailures
  BY DEF Due, DueAtDeactivate, Deactivate
<1>4. QED
  BY <1>1, <1>2, <1>3, AlwaysTyped, PTL DEF Spec, DeactivationDue
=============================================================================
